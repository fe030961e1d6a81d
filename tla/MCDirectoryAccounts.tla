------------------------ MODULE MCDirectoryAccounts ------------------------
(* Small directories for TLC. *)
EXTENDS DirectoryAccounts, TLC

\* "jane" is renamed to "jmiller" and signs in by address too.
OwnOfOne == "jane" :> {"j", "jm", "j@"}
MailOfOne == "jane" :> "j@"

CallSymmetry == Permutations(Calls)
=============================================================================
