------------------------ MODULE MCCachedRepository ------------------------
(***************************************************************************)
(* Instances of CachedRepository for TLC: reads of replica a, a write of   *)
(* replica a and one of replica b.                                         *)
(***************************************************************************)
EXTENDS CachedRepository

CONSTANTS a, b, here, there

MCHome == [p \in Readers \cup Writers |-> IF p = there THEN b ELSE a]
=============================================================================
