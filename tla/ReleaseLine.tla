---------------------------- MODULE ReleaseLine ----------------------------
(***************************************************************************)
(* The version line of one producer, one call at a time: what the version  *)
(* rules and the decisions of provide_service.rs make of a Provide, and    *)
(* the numbers they propose in a refusal (version_rules.rs).  What the     *)
(* check accepts and what it takes for an addition are relations between   *)
(* contents, which ProducerReleases draws from real documents.             *)
(* VersionLine has the calls interleave and leaves the proposals out.      *)
(***************************************************************************)
EXTENDS Naturals, FiniteSets

CONSTANTS
  Contents,   \* the documents a producer may submit
  Accepted,   \* check_compatibility: the pairs <<old, new>> it lets through
  Additive,   \* analyze_impact: the pairs where new has something old has not
  Numbers,    \* the version numbers a producer may pick
  MaxPart,    \* the largest part of a version (u32::MAX)
  Users,
  Releasers,  \* the users with the releaser role
  Earlier,    \* the lines there may be at first
  MaxChoices, \* bound on the Provides that follow no proposal
  None,       \* no proposal, no request
  Spins       \* a loop that never ends

SemVers == (0 .. MaxPart) \X (0 .. MaxPart) \X (0 .. MaxPart)

Entry ==
  [version: SemVers, stability: {"snapshot", "ga"}, provider: Users,
   content: Contents, base: Contents \cup {None}]

Request ==
  [version: SemVers, stability: {"snapshot", "ga"}, user: Users, content: Contents]

\* A line has one entry of a number: the unique index of spec_versions.
IsLine(entries) ==
  /\ entries \subseteq Entry
  /\ \A x, y \in entries : x.version = y.version => x = y

ASSUME LineAssumption ==
  /\ MaxPart \in Nat \ {0}
  /\ Numbers \subseteq SemVers
  /\ Releasers \subseteq Users
  /\ \A l \in Earlier : IsLine(l) /\ \A x \in l : x.base = None
  /\ MaxChoices \in Nat
  /\ None \notin SemVers \cup Request
  /\ Spins \notin SemVers \cup {None}

VARIABLES
  line,       \* the entries of the producer's version line
  asked,      \* the request last refused, or None when it was let in
  proposed,   \* the number its rejection proposed, Spins or None
  follows,    \* how many proposals in a row the producer has followed
  choices     \* Provides that followed no proposal, up to MaxChoices

vars == <<line, asked, proposed, follows, choices>>

-----------------------------------------------------------------------------
(* Numbers.                                                                *)

\* The derived order of SemVer.
Below(v, w) ==
  \/ v[1] < w[1]
  \/ v[1] = w[1] /\ v[2] < w[2]
  \/ v[1] = w[1] /\ v[2] = w[2] /\ v[3] < w[3]

\* saturating_add(1).
Succ(n) == IF n < MaxPart THEN n + 1 ELSE n

\* SemVer::increment.
Increment(v, impact) ==
  CASE impact = "major" -> <<Succ(v[1]), 0, 0>>
    [] impact = "minor" -> <<v[1], Succ(v[2]), 0>>
    [] impact = "patch" -> <<v[1], v[2], Succ(v[3])>>

Taken == {x.version : x \in line}

\* The loops of propose_free and propose_free_minor: of the numbers they come
\* by, the first no entry uses.  At the largest part the number stays the same,
\* and where that one is taken the loop never ends.
FirstFree(tried) ==
  LET free == tried \ Taken
  IN IF free = {} THEN Spins ELSE CHOOSE v \in free : \A w \in free : ~Below(w, v)

\* Mutant: the number proposed may be taken.
ProposeUnchecked(v) == v

ProposeFree(v) == FirstFree({<<v[1], v[2], patch>> : patch \in v[3] .. MaxPart})

ProposeFreeMinor(v) == FirstFree({<<v[1], minor, 0>> : minor \in Succ(v[2]) .. MaxPart})

-----------------------------------------------------------------------------
(* Deciding a Provide.                                                     *)

\* check_compatibility refuses the pair <<old, new>>...
Breaking == (Contents \X Contents) \ Accepted

\* ...or finds that new adds to old.
Adding == Accepted \cap Additive

\* classify_change.  The inserts it is given are the endpoints that are new, which
\* analyze_impact finds among the additions as well.
ImpactOf(old, new) ==
  CASE <<old, new>> \in Breaking -> "major"
    [] <<old, new>> \in Adding -> "minor"
    [] <<old, new>> \notin Breaking \cup Adding -> "patch"

At(v) == {x \in line : x.version = v}

\* ga_baseline: the highest GA strictly below, in a set of at most one.
Baseline(v) ==
  LET below == {x \in line : x.stability = "ga" /\ Below(x.version, v)}
  IN {x \in below : \A y \in below : ~Below(x.version, y.version)}

\* The GA entries the semver check compares with.
Checked(r) ==
  IF r.stability = "ga" THEN {b \in Baseline(r.version) : r.version[1] <= b.version[1]}
  ELSE {}

\* A byte-identical Provide changes nothing; a promotion is not one.
Identical(r) ==
  \E x \in At(r.version) :
    x.content = r.content /\ ~(x.stability = "snapshot" /\ r.stability = "ga")

\* Different content under a released number, or under the snapshot of someone
\* else, or a breaking change that keeps the major: each is answered with the
\* number to use instead.
Refusal(r) ==
  LET released == {x \in At(r.version) : x.stability = "ga"}
      foreign  == {x \in At(r.version) : r.stability = "snapshot" /\ x.provider # r.user}
      broken   == {b \in Checked(r) : <<b.content, r.content>> \in Breaking}
  IN CASE released # {} ->
            {ProposeFree(Increment(r.version, ImpactOf(x.content, r.content))) : x \in released}
       [] released = {} /\ foreign # {} -> {ProposeFreeMinor(r.version)}
       [] released = {} /\ foreign = {} ->
            {ProposeFree(<<Succ(b.version[1]), 0, 0>>) : b \in broken}

\* The entry as the upsert leaves it: a new one, or the snapshot rewritten or
\* promoted; the promotion of the same bytes leaves them credited to whoever
\* provided them.  "base" is history: what the semver check compared with.
Upserted(r) ==
  LET kept == {x \in At(r.version) : x.content = r.content}
  IN (line \ At(r.version)) \cup
     {[version |-> r.version, stability |-> r.stability,
       provider |-> IF kept = {} THEN r.user ELSE (CHOOSE x \in kept : TRUE).provider,
       content |-> r.content,
       base |-> IF Checked(r) = {} THEN None ELSE (CHOOSE b \in Checked(r) : TRUE).content]}

\* A GA needs the releaser's role; then the answer is a no-op, a proposal or
\* the upsert.
Provide(r) ==
  /\ r.stability = "ga" => r.user \in Releasers
  /\ \/ /\ Identical(r)
        /\ asked' = None /\ proposed' = None
        /\ UNCHANGED line
     \/ /\ ~Identical(r)
        /\ \E p \in Refusal(r) : proposed' = p
        /\ asked' = r
        /\ UNCHANGED line
     \/ /\ ~Identical(r)
        /\ Refusal(r) = {}
        /\ asked' = None /\ proposed' = None
        /\ line' = Upserted(r)

\* A producer provides a document of its own choice, under a number of its own
\* choice, or does what the last rejection proposed.
Submit(c, v, st, u) ==
  /\ choices < MaxChoices
  /\ choices' = choices + 1
  /\ Provide([version |-> v, stability |-> st, user |-> u, content |-> c])
  /\ follows' = 0

Follow ==
  /\ proposed \notin {None, Spins}
  /\ Provide([asked EXCEPT !.version = proposed])
  /\ follows' = IF proposed' = None THEN 0 ELSE follows + 1
  /\ UNCHANGED choices

Init ==
  /\ line \in Earlier
  /\ choices = 0
  /\ asked = None
  /\ proposed = None
  /\ follows = 0

Next ==
  \/ \E c \in Contents, v \in Numbers, st \in {"snapshot", "ga"}, u \in Users : Submit(c, v, st, u)
  \/ Follow

Spec == Init /\ [][Next]_vars

-----------------------------------------------------------------------------
(* Properties.                                                             *)

TypeOK ==
  /\ IsLine(line)
  /\ asked \in Request \cup {None}
  /\ follows \in Nat /\ choices \in 0 .. MaxChoices
  /\ proposed \in SemVers \cup {None, Spins}

\* No part of a number is at its maximum.
Unsaturated == \A v \in Taken \cup {asked.version} : \A i \in 1 .. 3 : v[i] < MaxPart

Majors == {x.version[1] : x \in {y \in line : y.stability = "ga"}}

\* A proposal is a free number above the one refused, and a producer that
\* keeps following proposals is let in: every further refusal is by a release
\* of a higher major.
ProposalsConverge ==
  proposed # None /\ Unsaturated =>
    /\ proposed # Spins
    /\ proposed \notin Taken
    /\ Below(asked.version, proposed)
    /\ follows <= Cardinality(Majors)
=============================================================================
