----------------------- MODULE MCDependencyTimeline -----------------------
(***************************************************************************)
(* Instances of DependencyTimeline for TLC.  Calls, keys and names are     *)
(* interchangeable; a version is fixed by Init.                            *)
(***************************************************************************)
EXTENDS DependencyTimeline, TLC

MCSymmetry == Permutations(Calls) \cup Permutations(Keys) \cup Permutations(Names)
=============================================================================
