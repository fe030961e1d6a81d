------------------------ MODULE ProducerReleasesProofs ------------------------
(***************************************************************************)
(* Theorems of ReleaseLine and ProducerReleases, for any documents, users  *)
(* and numbers; those of ReleaseLine for any verdicts of the check too.    *)
(*                                                                         *)
(* Proposals: one made is of the refusal of what was asked, and where the  *)
(* line has room above it, it is free and higher.  To follow it is to ask  *)
(* for a free number, which only a breaking change is refused for, against *)
(* a release of the very major proposed; the next proposal is above that   *)
(* major.  So each step that is followed leaves one more released major    *)
(* below the number proposed.                                              *)
(*                                                                         *)
(* Documents: what the check makes of two documents, it makes of any two   *)
(* schemas that a walk down the documents meets together, whichever of     *)
(* them are references: Agree.  With what RecursionAssumption says of the  *)
(* functions that call themselves, what a client may send or read follows  *)
(* by induction on how deep the walk has gone.                             *)
(***************************************************************************)
EXTENDS ProducerReleases, FiniteSetTheorems, WellFoundedInduction, TLAPS

\* The line has room: no number on it has a part at the maximum.
Roomy == \A v \in Taken : \A i \in 1 .. 3 : v[i] < MaxPart

\* The released majors below the number proposed.
Lower == {m \in Majors : m < proposed[1]}

LineInv ==
  /\ TypeOK
  /\ proposed # None => asked \in Request /\ proposed \in Refusal(asked)
  /\ Roomy /\ proposed \notin {None, Spins} => follows <= Cardinality(Lower)

-----------------------------------------------------------------------------
(* Numbers.                                                                *)

LEMMA LeastNumber ==
  ASSUME NEW S \in SUBSET Nat, S # {}
  PROVE  \E n \in S : \A m \in S : ~(m < n)
<1>1. PICK n \in S : \A m \in S : <<m, n>> \notin OpToRel(<, Nat)
  BY NatLessThanWellFounded, WFMin
<1>2. \A m \in S : <<m, n>> \in OpToRel(<, Nat) <=> m < n
  BY DEF OpToRel
<1> QED BY <1>1, <1>2

LEMMA NumbersTyped ==
  ASSUME NEW v \in SemVers
  PROVE  /\ v[1] \in 0 .. MaxPart /\ v[2] \in 0 .. MaxPart /\ v[3] \in 0 .. MaxPart
         /\ v = <<v[1], v[2], v[3]>>
  BY DEF SemVers

LEMMA SuccTyped ==
  ASSUME NEW n \in 0 .. MaxPart
  PROVE  /\ Succ(n) \in 0 .. MaxPart
         /\ n < MaxPart => Succ(n) = n + 1
  BY LineAssumption DEF Succ

LEMMA IncrementTyped ==
  ASSUME NEW v \in SemVers, NEW impact \in {"major", "minor", "patch"}
  PROVE  /\ Increment(v, impact) \in SemVers
         /\ (\A i \in 1 .. 3 : v[i] < MaxPart) => Below(v, Increment(v, impact))
<1>1. /\ v[1] \in 0 .. MaxPart /\ v[2] \in 0 .. MaxPart /\ v[3] \in 0 .. MaxPart
      /\ 0 \in 0 .. MaxPart
  BY NumbersTyped, LineAssumption
<1>2. \A i \in 1 .. 3 : v[i] < MaxPart => Succ(v[i]) = v[i] + 1
  BY <1>1, SuccTyped
<1>3. CASE impact = "major"
  <2>1. Increment(v, impact) = <<Succ(v[1]), 0, 0>>
    BY <1>3 DEF Increment
  <2> QED BY <1>1, <1>2, <2>1, SuccTyped DEF SemVers, Below
<1>4. CASE impact = "minor"
  <2>1. Increment(v, impact) = <<v[1], Succ(v[2]), 0>>
    BY <1>4 DEF Increment
  <2> QED BY <1>1, <1>2, <2>1, SuccTyped DEF SemVers, Below
<1>5. CASE impact = "patch"
  <2>1. Increment(v, impact) = <<v[1], v[2], Succ(v[3])>>
    BY <1>5 DEF Increment
  <2> QED BY <1>1, <1>2, <2>1, SuccTyped DEF SemVers, Below
<1> QED BY <1>3, <1>4, <1>5

\* What a loop arrives at that tries the numbers <<x, y, n>> for n from low on.
LEMMA PatchFound ==
  ASSUME NEW x \in 0 .. MaxPart, NEW y \in 0 .. MaxPart, NEW low \in 0 .. MaxPart
  PROVE  LET p == FirstFree({<<x, y, n>> : n \in low .. MaxPart})
         IN /\ p = Spins \/ (p \notin Taken /\ \E n \in low .. MaxPart : p = <<x, y, n>>)
            /\ <<x, y, MaxPart>> \notin Taken => p # Spins
<1> DEFINE tried == {<<x, y, n>> : n \in low .. MaxPart}
           free == tried \ Taken
           ns == {n \in low .. MaxPart : <<x, y, n>> \in free}
<1>1. \A v \in tried : v \in SemVers /\ v[1] = x /\ v[2] = y /\ v[3] \in low .. MaxPart
  BY LineAssumption DEF SemVers
<1>2. CASE free = {}
  <2>1. FirstFree(tried) = Spins
    BY <1>2 DEF FirstFree
  <2>2. <<x, y, MaxPart>> \in tried
    BY LineAssumption
  <2> QED BY <1>2, <2>1, <2>2
<1>3. CASE free # {}
  <2>1. PICK n \in ns : \A m \in ns : ~(m < n)
    <3>1. ns \in SUBSET Nat
      BY LineAssumption
    <3>2. ns # {}
      BY <1>3
    <3> HIDE DEF ns
    <3> QED BY <3>1, <3>2, LeastNumber
  <2>2. \A w \in free : ~Below(w, <<x, y, n>>)
    <3> SUFFICES ASSUME NEW m \in low .. MaxPart, <<x, y, m>> \in free
                 PROVE  ~Below(<<x, y, m>>, <<x, y, n>>)
      OBVIOUS
    <3>1. m \in ns
      OBVIOUS
    <3> QED BY <2>1, <3>1, LineAssumption DEF Below
  <2>3. \E v \in free : \A w \in free : ~Below(w, v)
    BY <2>1, <2>2
  <2>4. FirstFree(tried) \in free
    BY <1>3, <2>3 DEF FirstFree
  <2>5. FirstFree(tried) # Spins
    BY <1>1, <2>4, LineAssumption
  <2> QED BY <2>4, <2>5
<1> QED BY <1>2, <1>3

\* The same for the numbers <<x, n, 0>>.
LEMMA MinorFound ==
  ASSUME NEW x \in 0 .. MaxPart, NEW low \in 0 .. MaxPart
  PROVE  LET p == FirstFree({<<x, n, 0>> : n \in low .. MaxPart})
         IN /\ p = Spins \/ (p \notin Taken /\ \E n \in low .. MaxPart : p = <<x, n, 0>>)
            /\ <<x, MaxPart, 0>> \notin Taken => p # Spins
<1> DEFINE tried == {<<x, n, 0>> : n \in low .. MaxPart}
           free == tried \ Taken
           ns == {n \in low .. MaxPart : <<x, n, 0>> \in free}
<1>1. \A v \in tried : v \in SemVers /\ v[1] = x /\ v[2] \in low .. MaxPart /\ v[3] = 0
  BY LineAssumption DEF SemVers
<1>2. CASE free = {}
  <2>1. FirstFree(tried) = Spins
    BY <1>2 DEF FirstFree
  <2>2. <<x, MaxPart, 0>> \in tried
    BY LineAssumption
  <2> QED BY <1>2, <2>1, <2>2
<1>3. CASE free # {}
  <2>1. PICK n \in ns : \A m \in ns : ~(m < n)
    <3>1. ns \in SUBSET Nat
      BY LineAssumption
    <3>2. ns # {}
      BY <1>3
    <3> HIDE DEF ns
    <3> QED BY <3>1, <3>2, LeastNumber
  <2>2. \A w \in free : ~Below(w, <<x, n, 0>>)
    <3> SUFFICES ASSUME NEW m \in low .. MaxPart, <<x, m, 0>> \in free
                 PROVE  ~Below(<<x, m, 0>>, <<x, n, 0>>)
      OBVIOUS
    <3>1. m \in ns
      OBVIOUS
    <3> QED BY <2>1, <3>1, LineAssumption DEF Below
  <2>3. \E v \in free : \A w \in free : ~Below(w, v)
    BY <2>1, <2>2
  <2>4. FirstFree(tried) \in free
    BY <1>3, <2>3 DEF FirstFree
  <2>5. FirstFree(tried) # Spins
    BY <1>1, <2>4, LineAssumption
  <2> QED BY <2>4, <2>5
<1> QED BY <1>2, <1>3

HasRoom(v) == \A i \in 1 .. 3 : v[i] < MaxPart

\* propose_free arrives at a free number no lower than the one it starts from.
LEMMA FreeProposed ==
  ASSUME NEW v \in SemVers
  PROVE  /\ ProposeFree(v) \in SemVers \cup {Spins}
         /\ ProposeFree(v) # Spins => ProposeFree(v) \notin Taken /\ ProposeFree(v)[1] = v[1]
         /\ Roomy => /\ ProposeFree(v) # Spins
                     /\ \A w \in SemVers : Below(w, v) => Below(w, ProposeFree(v))
<1> DEFINE p == ProposeFree(v)
<1>1. v[1] \in 0 .. MaxPart /\ v[2] \in 0 .. MaxPart /\ v[3] \in 0 .. MaxPart
  BY NumbersTyped
<1>2. /\ p = Spins \/ (p \notin Taken /\ \E n \in v[3] .. MaxPart : p = <<v[1], v[2], n>>)
      /\ <<v[1], v[2], MaxPart>> \notin Taken => p # Spins
  BY <1>1, PatchFound DEF ProposeFree
<1> HIDE DEF p
<1>3. CASE p = Spins
  <2>1. ~Roomy
    <3>1. <<v[1], v[2], MaxPart>> \in Taken
      BY <1>2, <1>3
    <3> QED BY <3>1, LineAssumption DEF Roomy
  <2> QED BY <1>3, <2>1 DEF p
<1>4. CASE p # Spins
  <2>1. PICK n \in v[3] .. MaxPart : p = <<v[1], v[2], n>>
    BY <1>2, <1>4
  <2>2. p \in SemVers /\ p[1] = v[1] /\ p[2] = v[2] /\ p[3] = n
    BY <1>1, <2>1, LineAssumption DEF SemVers
  <2>3. ASSUME NEW w \in SemVers, Below(w, v)
        PROVE  Below(w, p)
    <3>1. w[1] \in 0 .. MaxPart /\ w[2] \in 0 .. MaxPart /\ w[3] \in 0 .. MaxPart
      BY NumbersTyped
    <3> QED BY <1>1, <2>2, <2>3, <3>1, LineAssumption DEF Below
  <2> QED BY <1>2, <1>4, <2>2, <2>3 DEF p
<1> QED BY <1>3, <1>4

LEMMA FreeMinorProposed ==
  ASSUME NEW v \in SemVers
  PROVE  /\ ProposeFreeMinor(v) \in SemVers \cup {Spins}
         /\ ProposeFreeMinor(v) # Spins => ProposeFreeMinor(v) \notin Taken
         /\ Roomy /\ HasRoom(v) => /\ ProposeFreeMinor(v) # Spins
                                   /\ Below(v, ProposeFreeMinor(v))
<1> DEFINE p == ProposeFreeMinor(v)
<1>1. /\ v[1] \in 0 .. MaxPart /\ v[2] \in 0 .. MaxPart /\ v[3] \in 0 .. MaxPart
      /\ Succ(v[2]) \in 0 .. MaxPart
      /\ v[2] < MaxPart => Succ(v[2]) = v[2] + 1
  BY NumbersTyped, SuccTyped
<1>2. /\ p = Spins \/ (p \notin Taken /\ \E n \in Succ(v[2]) .. MaxPart : p = <<v[1], n, 0>>)
      /\ <<v[1], MaxPart, 0>> \notin Taken => p # Spins
  BY <1>1, MinorFound DEF ProposeFreeMinor
<1> HIDE DEF p
<1>3. CASE p = Spins
  <2>1. ~Roomy
    <3>1. <<v[1], MaxPart, 0>> \in Taken
      BY <1>2, <1>3
    <3> QED BY <3>1, LineAssumption DEF Roomy
  <2> QED BY <1>3, <2>1 DEF p
<1>4. CASE p # Spins
  <2>1. PICK n \in Succ(v[2]) .. MaxPart : p = <<v[1], n, 0>>
    BY <1>2, <1>4
  <2>2. p \in SemVers /\ p[1] = v[1] /\ p[2] = n /\ n \in Nat /\ Succ(v[2]) <= n
    BY <1>1, <2>1, LineAssumption DEF SemVers
  <2>3. HasRoom(v) => Below(v, p)
    <3>1. HasRoom(v) => Succ(v[2]) = v[2] + 1
      BY <1>1 DEF HasRoom
    <3> QED BY <1>1, <2>2, <3>1, LineAssumption DEF Below
  <2> QED BY <1>2, <1>4, <2>2, <2>3 DEF p
<1> QED BY <1>3, <1>4

-----------------------------------------------------------------------------
(* Refusals.                                                               *)

LEMMA LineTyped ==
  ASSUME TypeOK, NEW x \in line
  PROVE  x \in Entry /\ x.version \in SemVers /\ x.version \in Taken
  BY DEF TypeOK, IsLine, Entry, Taken

\* What a refusal proposes is free, and above what it refuses where there is
\* room.
LEMMA Refused ==
  ASSUME TypeOK, NEW r \in Request, NEW p \in Refusal(r)
  PROVE  /\ p \in SemVers \cup {Spins}
         /\ p # Spins => p \notin Taken
         /\ Roomy /\ HasRoom(r.version) => p # Spins /\ Below(r.version, p)
<1> DEFINE released == {x \in At(r.version) : x.stability = "ga"}
           foreign  == {x \in At(r.version) : r.stability = "snapshot" /\ x.provider # r.user}
           broken   == {b \in Checked(r) : <<b.content, r.content>> \in Breaking}
<1>1. r.version \in SemVers
  BY DEF Request
<1>2. CASE released # {}
  <2>1. PICK x \in released : p = ProposeFree(Increment(r.version, ImpactOf(x.content, r.content)))
    BY <1>2 DEF Refusal
  <2> DEFINE impact == ImpactOf(x.content, r.content)
  <2>2. impact \in {"major", "minor", "patch"}
    BY DEF ImpactOf
  <2> HIDE DEF impact
  <2>3. /\ Increment(r.version, impact) \in SemVers
        /\ HasRoom(r.version) => Below(r.version, Increment(r.version, impact))
    BY <1>1, <2>2, IncrementTyped DEF HasRoom
  <2> QED BY <1>1, <2>1, <2>3, FreeProposed DEF impact
<1>3. CASE released = {} /\ foreign # {}
  <2>1. p = ProposeFreeMinor(r.version)
    BY <1>3 DEF Refusal
  <2> QED BY <1>1, <2>1, FreeMinorProposed
<1>4. CASE released = {} /\ foreign = {}
  <2>1. PICK b \in broken : p = ProposeFree(<<Succ(b.version[1]), 0, 0>>)
    BY <1>4 DEF Refusal
  <2>2. b \in line /\ r.version[1] <= b.version[1]
    BY DEF Checked, Baseline
  <2>3. b.version \in SemVers /\ b.version \in Taken
    BY <2>2, LineTyped
  <2> DEFINE v == <<Succ(b.version[1]), 0, 0>>
  <2>4. /\ b.version[1] \in 0 .. MaxPart /\ Succ(b.version[1]) \in 0 .. MaxPart
        /\ b.version[1] < MaxPart => Succ(b.version[1]) = b.version[1] + 1
    BY <2>3, NumbersTyped, SuccTyped
  <2>5. v \in SemVers /\ v[1] = Succ(b.version[1])
    BY <2>4, LineAssumption DEF SemVers
  <2>6. Roomy => Below(r.version, v)
    <3>1. r.version[1] \in 0 .. MaxPart
      BY <1>1, NumbersTyped
    <3>2. Roomy => b.version[1] < MaxPart
      BY <2>3 DEF Roomy
    <3> QED BY <2>2, <2>4, <2>5, <3>1, <3>2, LineAssumption DEF Below
  <2> HIDE DEF v
  <2> QED BY <1>1, <2>1, <2>5, <2>6, FreeProposed DEF v
<1> QED BY <1>2, <1>3, <1>4

\* A free number is refused only for breaking a release of its own major, and
\* the next major is proposed.
LEMMA FreeNumberRefused ==
  ASSUME TypeOK, Roomy, NEW r \in Request, NEW p \in Refusal(r), r.version \notin Taken, p # Spins
  PROVE  r.version[1] \in Majors /\ p[1] = r.version[1] + 1
<1>1. At(r.version) = {}
  BY DEF At, Taken
<1>2. PICK b \in Checked(r) : p = ProposeFree(<<Succ(b.version[1]), 0, 0>>)
  BY <1>1 DEF Refusal
<1>3. /\ b \in line /\ b.stability = "ga" /\ r.version[1] <= b.version[1]
      /\ Below(b.version, r.version)
  BY DEF Checked, Baseline
<1>4. b.version \in SemVers /\ b.version \in Taken /\ r.version \in SemVers
  BY <1>3, LineTyped DEF Request
<1>5. /\ b.version[1] \in 0 .. MaxPart /\ r.version[1] \in 0 .. MaxPart
      /\ b.version[1] < MaxPart /\ Succ(b.version[1]) = b.version[1] + 1
  <2>1. b.version[1] < MaxPart
    BY <1>4 DEF Roomy
  <2> QED BY <1>4, <2>1, NumbersTyped, SuccTyped
<1>6. b.version[1] = r.version[1]
  BY <1>3, <1>5, LineAssumption DEF Below
<1>7. <<Succ(b.version[1]), 0, 0>> \in SemVers
  BY <1>4, NumbersTyped, SuccTyped, LineAssumption DEF SemVers
<1>8. p[1] = <<Succ(b.version[1]), 0, 0>>[1]
  BY <1>2, <1>7, FreeProposed
<1>9. r.version[1] \in Majors
  BY <1>3, <1>6 DEF Majors
<1> QED BY <1>5, <1>6, <1>8, <1>9

\* The released majors of a line are finitely many.
LEMMA MajorsFinite ==
  ASSUME NEW entries, IsLine(entries),
         NEW S \in SUBSET {x.version[1] : x \in {y \in entries : y.stability = "ga"}}
  PROVE  S \subseteq 0 .. MaxPart /\ IsFiniteSet(S) /\ Cardinality(S) \in Nat
<1>1. S \subseteq 0 .. MaxPart
  <2> SUFFICES ASSUME NEW x \in entries PROVE x.version[1] \in 0 .. MaxPart
    OBVIOUS
  <2>1. x.version \in SemVers
    BY DEF IsLine, Entry
  <2> QED BY <2>1, NumbersTyped
<1>2. IsFiniteSet(0 .. MaxPart)
  BY FS_Interval, LineAssumption
<1> QED BY <1>1, <1>2, FS_Subset, FS_CardinalityType

-----------------------------------------------------------------------------
(* The invariant.                                                          *)

LEMMA UpsertKeepsLine ==
  ASSUME TypeOK, NEW r \in Request
  PROVE  IsLine(Upserted(r))
<1> DEFINE kept == {x \in At(r.version) : x.content = r.content}
           provider == IF kept = {} THEN r.user ELSE (CHOOSE x \in kept : TRUE).provider
           base == IF Checked(r) = {} THEN None ELSE (CHOOSE b \in Checked(r) : TRUE).content
           e == [version |-> r.version, stability |-> r.stability, provider |-> provider,
                 content |-> r.content, base |-> base]
<1>1. provider \in Users
  <2>1. CASE kept = {}
    BY <2>1 DEF Request
  <2>2. CASE kept # {}
    <3>1. (CHOOSE x \in kept : TRUE) \in line
      BY <2>2 DEF At
    <3> QED BY <2>2, <3>1, LineTyped DEF Entry
  <2> QED BY <2>1, <2>2
<1>2. base \in Contents \cup {None}
  <2>1. CASE Checked(r) # {}
    <3>1. (CHOOSE b \in Checked(r) : TRUE) \in line
      BY <2>1 DEF Checked, Baseline
    <3> QED BY <2>1, <3>1, LineTyped DEF Entry
  <2> QED BY <2>1
<1> HIDE DEF provider, base
<1>3. e \in Entry /\ e.version = r.version
  BY <1>1, <1>2 DEF Entry, Request
<1>4. Upserted(r) = (line \ At(r.version)) \cup {e}
  BY DEF Upserted, provider, base
<1> HIDE DEF e
<1>5. \A x \in line \ At(r.version) : x \in Entry /\ x.version # r.version
  BY LineTyped DEF At
<1> QED BY <1>3, <1>4, <1>5 DEF TypeOK, IsLine

\* What the answer to a request leaves behind.
LEMMA Answered ==
  ASSUME TypeOK, NEW r \in Request, Provide(r)
  PROVE  /\ IsLine(line)'
         /\ asked' \in Request \cup {None} /\ proposed' \in SemVers \cup {None, Spins}
         /\ \/ proposed' = None
            \/ line' = line /\ asked' = r /\ proposed' \in Refusal(r)
<1>1. CASE Identical(r) /\ asked' = None /\ proposed' = None /\ UNCHANGED line
  BY <1>1 DEF TypeOK
<1>2. CASE (\E p \in Refusal(r) : proposed' = p) /\ asked' = r /\ UNCHANGED line
  BY <1>2, Refused DEF TypeOK
<1>3. CASE asked' = None /\ proposed' = None /\ line' = Upserted(r)
  BY <1>3, UpsertKeepsLine
<1> QED BY <1>1, <1>2, <1>3 DEF Provide

LEMMA InitInv == Init => LineInv
<1> SUFFICES ASSUME Init PROVE LineInv
  OBVIOUS
<1>1. TypeOK
  BY LineAssumption DEF Init, TypeOK
<1> QED BY <1>1 DEF Init, LineInv

\* A document of the producer's own choice.
LEMMA SubmitInv ==
  ASSUME LineInv, NEW c \in Contents, NEW v \in Numbers, NEW st \in {"snapshot", "ga"},
         NEW u \in Users, Submit(c, v, st, u)
  PROVE  LineInv'
<1> DEFINE r == [version |-> v, stability |-> st, user |-> u, content |-> c]
<1>1. r \in Request /\ Provide(r) /\ TypeOK
  BY LineAssumption DEF Submit, Request, LineInv
<1> HIDE DEF r
<1>2. /\ IsLine(line)' /\ asked' \in Request \cup {None} /\ proposed' \in SemVers \cup {None, Spins}
      /\ proposed' = None \/ (line' = line /\ asked' = r /\ proposed' \in Refusal(r))
  BY <1>1, Answered
<1>3. TypeOK'
  BY <1>1, <1>2, LineAssumption DEF Submit, TypeOK
<1>4. proposed' # None => asked' \in Request /\ (proposed \in Refusal(asked))'
  <2>1. line' = line /\ asked' = r => Refusal(r) = (Refusal(asked))'
    BY DEF Refusal, At, Checked, Baseline, ProposeFree, ProposeFreeMinor, FirstFree, Taken
  <2> QED BY <1>1, <1>2, <2>1
<1>5. follows' <= Cardinality(Lower')
  <2>1. Cardinality(Lower') \in Nat
    BY <1>2, MajorsFinite DEF Lower, Majors
  <2> QED BY <2>1 DEF Submit
<1> QED BY <1>3, <1>4, <1>5 DEF LineInv

\* The proposal followed: it is free, so that one more refusal is by a release
\* of the major it has, which the next proposal is above.
LEMMA FollowInv ==
  ASSUME LineInv, Follow
  PROVE  LineInv'
<1> DEFINE r == [asked EXCEPT !.version = proposed]
<1>1. /\ TypeOK /\ asked \in Request /\ proposed \in Refusal(asked)
      /\ proposed # None /\ proposed # Spins /\ proposed \in SemVers
  BY DEF Follow, LineInv, TypeOK
<1>2. r \in Request /\ r.version = proposed
  BY <1>1 DEF Request
<1>3. Provide(r) /\ follows' = (IF proposed' = None THEN 0 ELSE follows + 1) /\ UNCHANGED choices
  BY DEF Follow
<1>4. proposed \notin Taken
  BY <1>1, Refused
<1> HIDE DEF r
<1>5. /\ IsLine(line)' /\ asked' \in Request \cup {None} /\ proposed' \in SemVers \cup {None, Spins}
      /\ proposed' = None \/ (line' = line /\ asked' = r /\ proposed' \in Refusal(r))
  BY <1>1, <1>2, <1>3, Answered
<1>6. follows \in Nat /\ choices \in 0 .. MaxChoices
  BY <1>1 DEF TypeOK
<1>7. TypeOK'
  BY <1>3, <1>5, <1>6 DEF TypeOK
<1>8. CASE proposed' = None
  BY <1>7, <1>8 DEF LineInv
<1>9. CASE proposed' # None
  <2>1. line' = line /\ asked' = r /\ proposed' \in Refusal(r)
    BY <1>5, <1>9
  <2>2. (proposed \in Refusal(asked))'
    <3>1. Refusal(r) = (Refusal(asked))'
      BY <2>1 DEF Refusal, At, Checked, Baseline, ProposeFree, ProposeFreeMinor, FirstFree, Taken
    <3> QED BY <2>1, <3>1
  <2>3. ASSUME Roomy', proposed' # Spins
        PROVE  follows' <= Cardinality(Lower')
    <3>1. Roomy
      BY <2>1, <2>3 DEF Roomy, Taken
    <3>2. proposed[1] \in Majors /\ proposed'[1] = proposed[1] + 1
      BY <1>1, <1>2, <1>4, <2>1, <2>3, <3>1, FreeNumberRefused
    <3>3. follows <= Cardinality(Lower)
      BY <1>1, <3>1 DEF LineInv
    <3>4. Majors' = Majors
      BY <2>1 DEF Majors
    <3>5. proposed[1] \in Nat
      BY <1>1, NumbersTyped, LineAssumption
    <3>6. Lower \cup {proposed[1]} \subseteq Lower'
      <4>1. Majors \subseteq 0 .. MaxPart
        <5>1. IsLine(line)
          BY <1>1 DEF TypeOK
        <5> QED BY <5>1, MajorsFinite DEF Majors
      <4>2. \A m \in Majors : m \in Nat /\ (m < proposed[1] => m < proposed'[1])
        BY <3>2, <3>5, <4>1, LineAssumption
      <4> QED BY <3>2, <3>4, <3>5, <4>2 DEF Lower
    <3>7. IsFiniteSet(Lower) /\ Cardinality(Lower) \in Nat
      BY <1>1, MajorsFinite DEF Lower, Majors, TypeOK
    <3>8. IsFiniteSet(Lower') /\ Cardinality(Lower') \in Nat
      BY <1>5, MajorsFinite DEF Lower, Majors
    <3>9. proposed[1] \notin Lower
      BY <3>5 DEF Lower
    <3>10. Cardinality(Lower \cup {proposed[1]}) = Cardinality(Lower) + 1
      BY <3>7, <3>9, FS_AddElement
    <3>11. Cardinality(Lower \cup {proposed[1]}) <= Cardinality(Lower')
      BY <3>6, <3>8, FS_Subset
    <3> QED BY <1>3, <1>6, <1>9, <3>3, <3>7, <3>8, <3>10, <3>11
  <2> QED BY <1>2, <1>7, <2>1, <2>2, <2>3 DEF LineInv
<1> QED BY <1>8, <1>9

LEMMA NextInv == LineInv /\ [Next]_vars => LineInv'
<1> SUFFICES ASSUME LineInv, [Next]_vars PROVE LineInv'
  OBVIOUS
<1>1. CASE Next
  BY <1>1, SubmitInv, FollowInv DEF Next
<1>2. CASE UNCHANGED vars
  <2>1. Refusal(asked)' = Refusal(asked)
    BY <1>2 DEF vars, Refusal, At, Checked, Baseline, ProposeFree, ProposeFreeMinor, FirstFree, Taken
  <2>2. TypeOK' /\ (Roomy' => Roomy) /\ Lower' = Lower
    BY <1>2 DEF LineInv, vars, TypeOK, Roomy, Taken, Lower, Majors
  <2> QED BY <1>2, <2>1, <2>2 DEF LineInv, vars
<1> QED BY <1>1, <1>2

LEMMA Invariant == Spec => []LineInv
BY InitInv, NextInv, PTL DEF Spec

-----------------------------------------------------------------------------
(* Theorems.                                                               *)

\* A line keeps one entry of a number through no-ops, refusals, rewritten
\* snapshots and promotions, and what a rejection proposes is a number.
THEOREM TypeCorrect == Spec => []TypeOK
<1>1. LineInv => TypeOK
  BY DEF LineInv
<1> QED BY <1>1, Invariant, PTL

\* While no part of a number is at u32::MAX, the loops of propose_free and
\* propose_free_minor end, at a free number above the one refused, and who
\* keeps following proposals is let in after no more refusals than there are
\* released majors: a free number is refused only for breaking a release of
\* its own major, and the next proposal is above that major.
THEOREM FollowedProposalsAreLetIn == Spec => []ProposalsConverge
<1>1. LineInv => ProposalsConverge
  <2> SUFFICES ASSUME LineInv, proposed # None, Unsaturated
               PROVE  /\ proposed # Spins /\ proposed \notin Taken
                      /\ Below(asked.version, proposed)
                      /\ follows <= Cardinality(Majors)
    BY DEF ProposalsConverge
  <2>1. TypeOK /\ asked \in Request /\ proposed \in Refusal(asked)
    BY DEF LineInv
  <2>2. Roomy /\ HasRoom(asked.version)
    BY DEF Unsaturated, Roomy, HasRoom
  <2>3. proposed # Spins /\ proposed \notin Taken /\ Below(asked.version, proposed)
    BY <2>1, <2>2, Refused
  <2>4. follows <= Cardinality(Lower)
    BY <2>2, <2>3 DEF LineInv
  <2>5. IsFiniteSet(Majors) /\ Cardinality(Majors) \in Nat /\ Cardinality(Lower) \in Nat
    BY <2>1, MajorsFinite DEF Lower, Majors, TypeOK
  <2>6. Cardinality(Lower) <= Cardinality(Majors)
    BY <2>5, FS_Subset DEF Lower
  <2>7. follows \in Nat
    BY <2>1 DEF TypeOK
  <2> QED BY <2>3, <2>4, <2>5, <2>6, <2>7
<1> QED BY <1>1, Invariant, PTL

\* What an entry was checked against is what the check let through.
BasesWereAccepted == \A x \in line : x.base # None => <<x.base, x.content>> \in Accepted

LEMMA UpsertWasAccepted ==
  ASSUME TypeOK, BasesWereAccepted, NEW r \in Request, Refusal(r) = {}, line' = Upserted(r)
  PROVE  BasesWereAccepted'
<1> SUFFICES ASSUME NEW x \in Upserted(r), x \notin line, x.base # None
             PROVE  <<x.base, x.content>> \in Accepted
  BY DEF BasesWereAccepted
<1>1. x.content = r.content /\ Checked(r) # {} /\ x.base = (CHOOSE b \in Checked(r) : TRUE).content
  BY DEF Upserted
<1>2. PICK b \in Checked(r) : x.base = b.content
  BY <1>1
<1>3. b.content \in Contents /\ r.content \in Contents
  BY <1>2, LineTyped DEF Checked, Baseline, Entry, Request
<1>4. <<b.content, r.content>> \notin Breaking
  <2> DEFINE released == {y \in At(r.version) : y.stability = "ga"}
             foreign  == {y \in At(r.version) : r.stability = "snapshot" /\ y.provider # r.user}
             broken   == {y \in Checked(r) : <<y.content, r.content>> \in Breaking}
  <2>1. released = {} /\ foreign = {} /\ broken = {}
    <3>1. released # {} => Refusal(r) # {}
      BY DEF Refusal
    <3>2. released = {} /\ foreign # {} => Refusal(r) # {}
      BY DEF Refusal
    <3>3. released = {} /\ foreign = {} /\ broken # {} => Refusal(r) # {}
      BY DEF Refusal
    <3> QED BY <3>1, <3>2, <3>3
  <2> QED BY <1>2, <2>1
<1> QED BY <1>1, <1>2, <1>3, <1>4 DEF Breaking

LEMMA AcceptedStep == LineInv /\ BasesWereAccepted /\ [Next]_vars => BasesWereAccepted'
<1> SUFFICES ASSUME LineInv, BasesWereAccepted, [Next]_vars PROVE BasesWereAccepted'
  OBVIOUS
<1>1. ASSUME NEW r \in Request, Provide(r)
      PROVE  BasesWereAccepted'
  <2>1. CASE UNCHANGED line
    BY <2>1 DEF BasesWereAccepted
  <2>2. CASE Refusal(r) = {} /\ line' = Upserted(r)
    BY <2>2, UpsertWasAccepted DEF LineInv
  <2> QED BY <1>1, <2>1, <2>2 DEF Provide
<1>2. ASSUME NEW c \in Contents, NEW v \in Numbers, NEW st \in {"snapshot", "ga"},
             NEW u \in Users, Submit(c, v, st, u)
      PROVE  BasesWereAccepted'
  <2>1. [version |-> v, stability |-> st, user |-> u, content |-> c] \in Request
    BY LineAssumption DEF Request
  <2> QED BY <1>1, <1>2, <2>1 DEF Submit
<1>3. CASE Follow
  <2>1. asked \in Request /\ proposed \in SemVers
    BY <1>3 DEF Follow, LineInv, TypeOK
  <2>2. [asked EXCEPT !.version = proposed] \in Request
    BY <2>1 DEF Request
  <2> QED BY <1>1, <1>3, <2>2 DEF Follow
<1>4. CASE UNCHANGED vars
  BY <1>4 DEF vars, BasesWereAccepted
<1> QED BY <1>2, <1>3, <1>4 DEF Next

LEMMA BasesInvariant == Spec => []BasesWereAccepted
<1>1. Init => BasesWereAccepted
  BY LineAssumption DEF Init, BasesWereAccepted
<1> QED BY <1>1, AcceptedStep, Invariant, PTL DEF Spec

\* What the check guarantees of two documents is what the line guarantees of a
\* release and the baseline it was checked against: no way in, by a promotion,
\* a rewritten snapshot or a proposal followed, goes around the check.  So that
\* releases serve old clients depends only on pairs of documents.
THEOREM ReleasesKeepWhatTheCheckKeeps ==
  ASSUME NEW Kept, Accepted \subseteq Kept
  PROVE  Spec => [](\A x \in line : x.base # None => <<x.base, x.content>> \in Kept)
<1>1. BasesWereAccepted => \A x \in line : x.base # None => <<x.base, x.content>> \in Kept
  BY DEF BasesWereAccepted
<1> QED BY <1>1, BasesInvariant, PTL

-----------------------------------------------------------------------------
LEMMA DepthInduction ==
  ASSUME NEW S \in SUBSET (0 .. Depth),
         \A depth \in 0 .. Depth : depth = 0 \/ depth - 1 \notin S => depth \notin S
  PROVE  S = {}
<1> SUFFICES ASSUME S # {} PROVE FALSE
  OBVIOUS
<1>1. PICK d \in S : \A e \in S : ~(e < d)
  BY LeastNumber, DocumentsAssumption
<1> QED BY <1>1, DocumentsAssumption

-----------------------------------------------------------------------------
(* Documents.                                                              *)

LEMMA ResolvedIsInline ==
  ASSUME NEW doc \in Documents, NEW s \in SchemasOf(doc), 
         Resolved(doc, s) # <<>>
  PROVE  /\ Resolved(doc, s) = <<Resolved(doc, s)[1]>>
         /\ Resolved(doc, s)[1] \in SchemasOf(doc)
         /\ ~IsRef(Resolved(doc, s)[1])
  BY DocumentsAssumption DEF IsDocument, Resolved

LEMMA ParametersAreTyped ==
  ASSUME NEW doc \in Documents, NEW e \in DOMAIN doc.ops, NEW k \in DOMAIN Parameters(doc, e)
  PROVE  Parameters(doc, e)[k].schema \in SchemasOf(doc)
  BY DocumentsAssumption DEF IsDocument, Parameters, Over, OperationSchemas

LEMMA RefsOfParts ==
  ASSUME NEW doc \in Documents, NEW s \in SchemasOf(doc), ~IsRef(s), NEW part \in Parts(s)
  PROVE  part \in SchemasOf(doc) /\ Refs(part) \subseteq Refs(s)
  BY DocumentsAssumption, RecursionAssumption DEF IsDocument, IsSchema, CollectRefs

LEMMA ReachableClosed ==
  ASSUME NEW doc, NEW names
  PROVE  /\ names \subseteq Reachable(doc, names)
         /\ Named(doc, Reachable(doc, names)) \subseteq Reachable(doc, names)
<1> DEFINE all == names \cup Named(doc, DOMAIN doc.schemas)
           R == Reachable(doc, names)
<1>1. R = {n \in all : \A S \in SUBSET all : names \subseteq S /\ Named(doc, S) \subseteq S => n \in S}
  BY DEF Reachable
<1>2. ASSUME NEW x \in Named(doc, R) PROVE x \in R
  <2>1. PICK m \in R : m \in DOMAIN doc.schemas /\ x \in Refs(doc.schemas[m])
    BY <1>2 DEF Named, RefsIn
  <2>2. \A S : m \in S => x \in Named(doc, S)
    BY <2>1 DEF Named, RefsIn
  <2>3. x \in all
    BY <2>1, <2>2
  <2> QED BY <1>1, <2>1, <2>2, <2>3
<1> QED BY <1>1, <1>2

LEMMA ItemsTyped ==
  ASSUME NEW doc \in Documents, NEW s \in SchemasOf(doc), ~IsRef(s), NEW i \in DOMAIN s.items
  PROVE  i = 1 /\ s.items # <<>> /\ s.items[i] \in Parts(s)
  BY DocumentsAssumption DEF IsDocument, IsSchema, Parts

-----------------------------------------------------------------------------
(* Responses.                                                              *)

\* What two schemas mean was compared, as a request or not.
Agree(docs, o, n, request) ==
  \A i \in DOMAIN Resolved(docs[1], o) \cap DOMAIN Resolved(docs[2], n) :
    SchemaCompatible(docs, Resolved(docs[1], o)[i], Resolved(docs[2], n)[i], request)

Compared(docs, o, n) == \E request \in BOOLEAN : Agree(docs, o, n, request)

\* Where both lead somewhere, the two inline schemas were compared.
LEMMA AgreeMeans ==
  ASSUME NEW old \in Documents, NEW new \in Documents,
         NEW o \in SchemasOf(old), NEW n \in SchemasOf(new), NEW request
  PROVE  /\ Resolved(old, o) # <<>> /\ Resolved(new, n) # <<>> =>
              (Agree(<<old, new>>, o, n, request) <=>
                 SchemaCompatible(<<old, new>>, Resolved(old, o)[1], Resolved(new, n)[1], request))
         /\ Resolved(old, o) = <<>> \/ Resolved(new, n) = <<>> => Agree(<<old, new>>, o, n, request)
<1> DEFINE ro == Resolved(old, o)
           rn == Resolved(new, n)
<1>1. ro # <<>> /\ rn # <<>> => DOMAIN ro \cap DOMAIN rn = {1}
  <2>1. ro # <<>> => ro = <<ro[1]>>
    BY ResolvedIsInline
  <2>2. rn # <<>> => rn = <<rn[1]>>
    BY ResolvedIsInline
  <2> HIDE DEF ro, rn
  <2> QED BY <2>1, <2>2
<1>2. ro = <<>> \/ rn = <<>> => DOMAIN ro \cap DOMAIN rn = {}
  OBVIOUS
<1>3. Agree(<<old, new>>, o, n, request) <=>
        \A i \in DOMAIN ro \cap DOMAIN rn : SchemaCompatible(<<old, new>>, ro[i], rn[i], request)
  BY DEF Agree
<1> HIDE DEF ro, rn
<1>4. ro # <<>> /\ rn # <<>> =>
        (Agree(<<old, new>>, o, n, request) <=> SchemaCompatible(<<old, new>>, ro[1], rn[1], request))
  BY <1>1, <1>3
<1>5. ro = <<>> \/ rn = <<>> => Agree(<<old, new>>, o, n, request)
  BY <1>2, <1>3
<1> QED BY <1>4, <1>5 DEF ro, rn

\* What two references name was compared with what the requests lead to in
\* view, and anything else by shape.
LEMMA PartsAgree ==
  ASSUME NEW old \in Documents, NEW new \in Documents, ComponentsCompatible(old, new),
         NEW o \in SchemasOf(old), NEW n \in SchemasOf(new), NEW request \in BOOLEAN,
         SubschemaCompatible(<<old, new>>, o, n, request)
  PROVE  IF IsRef(o) /\ IsRef(n)
         THEN n.ref = o.ref /\ Agree(<<old, new>>, o, n, o.ref \in RequestSchemas(new))
         ELSE Agree(<<old, new>>, o, n, request)
<1>1. CASE IsRef(o) /\ IsRef(n)
  <2> DEFINE requested == o.ref \in RequestSchemas(new)
  <2>1. n.ref = o.ref
    BY <1>1 DEF SubschemaCompatible
  <2>2. CASE o.ref \in DOMAIN old.schemas \cap DOMAIN new.schemas
    <3>1. Resolved(old, o) = <<old.schemas[o.ref]>> /\ Resolved(new, n) = <<new.schemas[o.ref]>>
      BY <1>1, <2>1, <2>2 DEF Resolved
    <3>2. SchemaCompatible(<<old, new>>, old.schemas[o.ref], new.schemas[o.ref], requested)
      BY <2>2 DEF ComponentsCompatible
    <3> HIDE DEF requested
    <3>3. Agree(<<old, new>>, o, n, requested)
      BY <3>1, <3>2, AgreeMeans
    <3> QED BY <1>1, <2>1, <3>3 DEF requested
  <2>3. CASE o.ref \notin DOMAIN old.schemas \cap DOMAIN new.schemas
    <3>1. Resolved(old, o) = <<>> \/ Resolved(new, n) = <<>>
      BY <1>1, <2>1, <2>3 DEF Resolved
    <3> HIDE DEF requested
    <3>2. Agree(<<old, new>>, o, n, requested)
      BY <3>1, AgreeMeans
    <3> QED BY <1>1, <2>1, <3>2 DEF requested
  <2> QED BY <2>2, <2>3
<1>2. CASE ~(IsRef(o) /\ IsRef(n))
  <2>1. /\ Resolved(old, o) # <<>> /\ Resolved(new, n) # <<>>
        /\ SchemaCompatible(<<old, new>>, Resolved(old, o)[1], Resolved(new, n)[1], request)
    BY <1>2 DEF SubschemaCompatible
  <2>2. Agree(<<old, new>>, o, n, request)
    BY <2>1, AgreeMeans
  <2> QED BY <1>2, <2>2
<1> QED BY <1>1, <1>2

LEMMA ComparedParts ==
  ASSUME NEW old \in Documents, NEW new \in Documents, ComponentsCompatible(old, new),
         NEW o \in SchemasOf(old), NEW n \in SchemasOf(new), NEW request \in BOOLEAN,
         SubschemaCompatible(<<old, new>>, o, n, request)
  PROVE  Compared(<<old, new>>, o, n)
<1> DEFINE requested == o.ref \in RequestSchemas(new)
<1>1. requested \in BOOLEAN
  OBVIOUS
<1>2. Agree(<<old, new>>, o, n, requested) \/ Agree(<<old, new>>, o, n, request)
  BY PartsAgree
<1> HIDE DEF requested
<1> QED BY <1>1, <1>2 DEF Compared

LEMMA StillRead ==
  ASSUME NEW old \in Documents, NEW new \in Documents, ComponentsCompatible(old, new)
  PROVE  \A depth \in 0 .. Depth : \A o \in SchemasOf(old), n \in SchemasOf(new) :
           Compared(<<old, new>>, o, n) => Reads(<<old, new>>, o, n, depth)
<1> DEFINE docs == <<old, new>>
           Fails(depth) == \E o \in SchemasOf(old), n \in SchemasOf(new) :
                             Compared(docs, o, n) /\ ~Reads(docs, o, n, depth)
<1>1. ASSUME NEW depth \in 0 .. Depth, depth = 0 \/ ~Fails(depth - 1) PROVE ~Fails(depth)
  <2> SUFFICES ASSUME NEW o \in SchemasOf(old), NEW n \in SchemasOf(new),
                      Compared(docs, o, n)
               PROVE  ReadSchema(docs, o, n, depth)
    BY RecursionAssumption
  <2> DEFINE ro == Resolved(old, o)
             rn == Resolved(new, n)
  <2> SUFFICES ASSUME depth # 0, ro # <<>>, rn # <<>> PROVE ReadSchema(docs, o, n, depth)
    BY DEF ReadSchema
  <2>1. /\ ro = <<ro[1]>> /\ ro[1] \in SchemasOf(old) /\ ~IsRef(ro[1])
        /\ rn = <<rn[1]>> /\ rn[1] \in SchemasOf(new) /\ ~IsRef(rn[1])
    BY ResolvedIsInline
  <2>2. PICK request \in BOOLEAN : SchemaCompatible(docs, ro[1], rn[1], request)
    BY AgreeMeans DEF Compared
  <2>3. CheckSchema(docs, ro[1], rn[1], request)
    BY <2>1, <2>2, RecursionAssumption
  <2>4. depth - 1 \in 0 .. Depth
    BY DocumentsAssumption
  <2>5. ASSUME NEW po \in Parts(ro[1]), NEW pn \in Parts(rn[1]),
               SubschemaCompatible(docs, po, pn, request)
        PROVE  Reads(docs, po, pn, depth - 1)
    BY <1>1, <2>1, <2>4, <2>5, ComparedParts, RefsOfParts
  <2>6. ASSUME ro[1].kind = "object", rn[1].kind = "object", NEW p \in DOMAIN ro[1].props,
               ~IsDeprecated(ro[1].props[p])
        PROVE  /\ p \in DOMAIN rn[1].props
               /\ Reads(docs, ro[1].props[p], rn[1].props[p], depth - 1)
    BY <2>1, <2>3, <2>5, <2>6 DEF CheckSchema, Parts
  <2>7. ASSUME NEW i \in DOMAIN ro[1].items \cap DOMAIN rn[1].items
        PROVE  Reads(docs, ro[1].items[i], rn[1].items[i], depth - 1)
    BY <2>1, <2>3, <2>5, <2>7, ItemsTyped DEF CheckSchema
  <2>8. SameKind(ro[1], rn[1])
    BY <2>3 DEF CheckSchema
  <2> QED BY <2>6, <2>7, <2>8 DEF ReadSchema
<1> DEFINE S == {depth \in 0 .. Depth : Fails(depth)}
<1>2. S = {}
  <2>1. ASSUME NEW depth \in 0 .. Depth, depth = 0 \/ depth - 1 \notin S PROVE depth \notin S
    <3>1. depth = 0 \/ depth - 1 \in 0 .. Depth
      BY DocumentsAssumption
    <3> HIDE DEF Fails
    <3> QED BY <1>1, <2>1, <3>1
  <2> HIDE DEF S
  <2> QED BY <2>1, DepthInduction DEF S
<1> QED BY <1>2

LEMMA ShapesAgree ==
  ASSUME NEW old \in Documents, NEW new \in Documents,
         NEW o \in SchemasOf(old), NEW n \in SchemasOf(new), NEW request \in BOOLEAN,
         ShapeCompatible(<<old, new>>, o, n, request)
  PROVE  Agree(<<old, new>>, o, n, request)
BY AgreeMeans DEF ShapeCompatible

LEMMA CompatibleAnswers ==
  ASSUME NEW old \in Documents, NEW new \in Documents, Compatible(old, new)
  PROVE  Answers(old, new)
<1> DEFINE docs == <<old, new>>
<1> SUFFICES ASSUME NEW e \in DOMAIN old.ops \cap DOMAIN new.ops,
                    NEW s \in DOMAIN old.ops[e].responses
             PROVE  /\ s \in DOMAIN new.ops[e].responses
                    /\ \A i \in DOMAIN old.ops[e].responses[s] \cap DOMAIN new.ops[e].responses[s] :
                         Reads(docs, old.ops[e].responses[s][i], new.ops[e].responses[s][i], Depth)
  BY DEF Answers
<1>1. OperationCompatible(docs, e)
  BY DEF Compatible
<1>2. s \in DOMAIN new.ops[e].responses
  BY <1>1 DEF OperationCompatible
<1>3. ASSUME NEW i \in DOMAIN old.ops[e].responses[s] \cap DOMAIN new.ops[e].responses[s]
      PROVE  Reads(docs, old.ops[e].responses[s][i], new.ops[e].responses[s][i], Depth)
  <2> DEFINE o == old.ops[e].responses[s][i]
             n == new.ops[e].responses[s][i]
  <2>1. o \in SchemasOf(old) /\ n \in SchemasOf(new)
    BY <1>2, DocumentsAssumption DEF IsDocument, OperationSchemas
  <2>2. ShapeCompatible(docs, o, n, FALSE)
    BY <1>1, <1>2 DEF OperationCompatible
  <2>3. Compared(docs, o, n)
    BY <2>1, <2>2, ShapesAgree DEF Compared
  <2> QED BY <2>1, <2>3, StillRead, DocumentsAssumption DEF Compatible
<1> QED BY <1>2, <1>3

-----------------------------------------------------------------------------
(* Requests.                                                               *)

\* What two schemas mean was compared as a request, and all it names below.
AgreeDeep(docs, o, n) ==
  /\ Agree(docs, o, n, TRUE)
  /\ \A i \in DOMAIN Resolved(docs[2], n) :
       Refs(Resolved(docs[2], n)[i]) \subseteq RequestSchemas(docs[2])

LEMMA RequestsClosed ==
  ASSUME NEW new \in Documents, NEW n \in SchemasOf(new), Refs(n) \subseteq RequestSchemas(new),
         NEW i \in DOMAIN Resolved(new, n)
  PROVE  Refs(Resolved(new, n)[i]) \subseteq RequestSchemas(new)
<1>1. CASE IsRef(n)
  <2>1. n.ref \in RequestSchemas(new)
    BY <1>1, RecursionAssumption DEF CollectRefs
  <2>2. n.ref \in DOMAIN new.schemas /\ Resolved(new, n)[i] = new.schemas[n.ref]
    BY <1>1 DEF Resolved
  <2>3. Refs(new.schemas[n.ref]) \subseteq Named(new, RequestSchemas(new))
    BY <2>1, <2>2 DEF Named, RefsIn
  <2>4. Named(new, RequestSchemas(new)) \subseteq RequestSchemas(new)
    BY ReachableClosed DEF RequestSchemas
  <2> QED BY <2>2, <2>3, <2>4
<1>2. CASE ~IsRef(n)
  BY <1>2 DEF Resolved
<1> QED BY <1>1, <1>2

LEMMA ComparedDeep ==
  ASSUME NEW old \in Documents, NEW new \in Documents, ComponentsCompatible(old, new),
         NEW o \in SchemasOf(old), NEW n \in SchemasOf(new),
         Refs(n) \subseteq RequestSchemas(new), SubschemaCompatible(<<old, new>>, o, n, TRUE)
  PROVE  AgreeDeep(<<old, new>>, o, n)
<1>1. Agree(<<old, new>>, o, n, TRUE)
  <2>1. ASSUME IsRef(o), IsRef(n) PROVE Agree(<<old, new>>, o, n, TRUE)
    <3>1. n.ref = o.ref /\ Agree(<<old, new>>, o, n, o.ref \in RequestSchemas(new))
      BY <2>1, PartsAgree
    <3>2. (o.ref \in RequestSchemas(new)) = TRUE
      BY <2>1, <3>1, RecursionAssumption DEF CollectRefs
    <3> QED BY <3>1, <3>2
  <2> QED BY <2>1, PartsAgree
<1> QED BY <1>1, RequestsClosed DEF AgreeDeep

\* Values of one kind: how each is built and taken.
LEMMA ObjectServed ==
  ASSUME NEW old \in Documents, NEW new \in Documents, ComponentsCompatible(old, new),
         NEW depth \in 1 .. Depth, NEW s \in SchemasOf(old), NEW t \in SchemasOf(new),
         ~IsRef(s), ~IsRef(t), s.kind = "object", t.kind = "object",
         Refs(t) \subseteq RequestSchemas(new), CheckSchema(<<old, new>>, s, t, TRUE),
         \A o \in SchemasOf(old), n \in SchemasOf(new) : AgreeDeep(<<old, new>>, o, n) =>
           \A v \in Built(old, o, depth - 1) : Accepts(new, n, v),
         NEW v, NEW D \in SUBSET DOMAIN s.props, s.required \subseteq D,
         NEW f \in [D -> UNION {Built(old, s.props[p], depth - 1) : p \in D}],
         \A p \in D : f[p] \in Built(old, s.props[p], depth - 1),
         v = <<"object", f>>
  PROVE  /\ v[1] = "object"
         /\ t.required \subseteq DOMAIN v[2]
         /\ \A p \in DOMAIN v[2] \cap DOMAIN t.props : Accepts(new, t.props[p], v[2][p])
<1>1. t.required \subseteq s.required
  BY DEF CheckSchema
<1>2. v[1] = "object" /\ v[2] = f /\ DOMAIN f = D
  OBVIOUS
<1>3. ASSUME NEW p \in D \cap DOMAIN t.props
      PROVE  Accepts(new, t.props[p], f[p])
  <2>1. SubschemaCompatible(<<old, new>>, s.props[p], t.props[p], TRUE)
    BY DEF CheckSchema
  <2>2. s.props[p] \in Parts(s) /\ t.props[p] \in Parts(t)
    BY DEF Parts
  <2>3. s.props[p] \in SchemasOf(old) /\ t.props[p] \in SchemasOf(new) /\ Refs(t.props[p]) \subseteq Refs(t)
    BY <2>2, RefsOfParts
  <2>4. AgreeDeep(<<old, new>>, s.props[p], t.props[p])
    BY <2>1, <2>3, ComparedDeep
  <2> QED BY <2>3, <2>4
<1> QED BY <1>1, <1>2, <1>3

LEMMA StillServed ==
  ASSUME NEW old \in Documents, NEW new \in Documents, ComponentsCompatible(old, new)
  PROVE  \A depth \in 0 .. Depth : \A o \in SchemasOf(old), n \in SchemasOf(new) :
           AgreeDeep(<<old, new>>, o, n) => \A v \in Built(old, o, depth) : Accepts(new, n, v)
<1> DEFINE docs == <<old, new>>
           Holds(depth) == \A o \in SchemasOf(old), n \in SchemasOf(new) :
                             AgreeDeep(docs, o, n) => \A v \in Built(old, o, depth) : Accepts(new, n, v)
<1>1. ASSUME NEW depth \in 0 .. Depth, depth = 0 \/ Holds(depth - 1) PROVE Holds(depth)
  <2> SUFFICES ASSUME NEW o \in SchemasOf(old), NEW n \in SchemasOf(new), AgreeDeep(docs, o, n),
                      NEW v \in Built(old, o, depth)
               PROVE  Accepts(new, n, v)
    OBVIOUS
  <2>1. v \in Values
    BY DEF Values
  <2>2. v \in BuildValues(old, o, depth)
    BY RecursionAssumption
  <2> DEFINE ro == Resolved(old, o)
             rn == Resolved(new, n)
             s  == ro[1]
             t  == rn[1]
  <2>3. ro # <<>> /\ depth # 0
    BY <2>2 DEF BuildValues
  <2> SUFFICES ASSUME rn # <<>> PROVE AcceptValue(new, n, v)
    BY <2>1, RecursionAssumption DEF AcceptValue
  <2>4. /\ ro = <<s>> /\ s \in SchemasOf(old) /\ ~IsRef(s)
        /\ rn = <<t>> /\ t \in SchemasOf(new) /\ ~IsRef(t)
    BY <2>3, ResolvedIsInline
  <2>5. SchemaCompatible(docs, s, t, TRUE) /\ Refs(t) \subseteq RequestSchemas(new)
    <3>1. Agree(docs, o, n, TRUE) /\ \A i \in DOMAIN rn : Refs(rn[i]) \subseteq RequestSchemas(new)
      BY DEF AgreeDeep
    <3>2. SchemaCompatible(docs, s, t, TRUE)
      BY <2>3, <3>1, AgreeMeans
    <3>3. 1 \in DOMAIN rn
      BY <2>4
    <3> QED BY <3>1, <3>2, <3>3
  <2>6. CheckSchema(docs, s, t, TRUE)
    BY <2>4, <2>5, RecursionAssumption
  <2>7. depth \in 1 .. Depth
    BY <2>3, DocumentsAssumption
  <2>8. Holds(depth - 1)
    BY <1>1, <2>3
  <2> HIDE DEF ro, rn, s, t, Holds
  <2>9. CASE s.kind = "unknown"
    BY <2>2, <2>3, <2>9 DEF BuildValues, ro, s
  <2>10. CASE t.kind = "unknown"
    BY <2>10 DEF AcceptValue, rn, t
  <2>11. CASE s.kind # "unknown" /\ t.kind # "unknown" /\ s.kind = "object"
    <3>1. t.kind = "object"
      BY <2>6, <2>11 DEF CheckSchema, SameKind
    <3>2. PICK D \in {E \in SUBSET DOMAIN s.props : s.required \subseteq E} :
            v \in {<<"object", f>> :
                    f \in {g \in [D -> UNION {Built(old, s.props[p], depth - 1) : p \in D}] :
                             \A p \in D : g[p] \in Built(old, s.props[p], depth - 1)}}
      BY <2>2, <2>3, <2>11 DEF BuildValues, ro, s
    <3>3. PICK f \in {g \in [D -> UNION {Built(old, s.props[p], depth - 1) : p \in D}] :
                        \A p \in D : g[p] \in Built(old, s.props[p], depth - 1)} :
            v = <<"object", f>>
      BY <3>2
    <3>4. /\ v[1] = "object"
          /\ t.required \subseteq DOMAIN v[2]
          /\ \A p \in DOMAIN v[2] \cap DOMAIN t.props : Accepts(new, t.props[p], v[2][p])
      BY <2>4, <2>5, <2>6, <2>7, <2>8, <2>11, <3>1, <3>2, <3>3, ObjectServed DEF Holds
    <3> QED BY <3>1, <3>4 DEF AcceptValue, rn, t
  <2>12. CASE s.kind # "unknown" /\ t.kind # "unknown" /\ s.kind = "array"
    <3>1. t.kind = "array"
      BY <2>6, <2>12 DEF CheckSchema, SameKind
    <3>2. v \in {<<"array", <<>>>>}
               \cup UNION {{<<"array", <<w>>>> : w \in Built(old, s.items[i], depth - 1)}
                           : i \in DOMAIN s.items}
      BY <2>2, <2>3, <2>12 DEF BuildValues, ro, s
    <3>3. ASSUME NEW i \in DOMAIN s.items, NEW j \in DOMAIN t.items,
                 NEW w \in Built(old, s.items[i], depth - 1)
          PROVE  Accepts(new, t.items[j], w)
      <4>1. /\ i = 1 /\ s.items # <<>> /\ s.items[1] \in Parts(s)
            /\ j = 1 /\ t.items # <<>> /\ t.items[1] \in Parts(t)
        BY <2>4, ItemsTyped
      <4>2. SubschemaCompatible(docs, s.items[1], t.items[1], TRUE)
        BY <2>6, <4>1 DEF CheckSchema
      <4>3. /\ s.items[1] \in SchemasOf(old) /\ t.items[1] \in SchemasOf(new)
            /\ Refs(t.items[1]) \subseteq Refs(t)
        BY <2>4, <4>1, RefsOfParts
      <4>4. AgreeDeep(docs, s.items[1], t.items[1])
        BY <2>5, <4>2, <4>3, ComparedDeep
      <4> QED BY <2>8, <3>3, <4>1, <4>3, <4>4 DEF Holds
    <3>4. v[1] = "array" /\ \A i \in DOMAIN v[2] : \A j \in DOMAIN t.items : Accepts(new, t.items[j], v[2][i])
      <4>1. CASE v = <<"array", <<>>>>
        BY <4>1
      <4>2. ASSUME NEW i \in DOMAIN s.items, NEW w \in Built(old, s.items[i], depth - 1),
                   v = <<"array", <<w>>>>
            PROVE  v[1] = "array" /\ \A k \in DOMAIN v[2] : \A j \in DOMAIN t.items : Accepts(new, t.items[j], v[2][k])
        <5>1. v[1] = "array" /\ v[2] = <<w>>
          BY <4>2
        <5>2. \A k \in DOMAIN <<w>> : <<w>>[k] = w
          OBVIOUS
        <5> QED BY <3>3, <4>2, <5>1, <5>2
      <4> QED BY <3>2, <4>1, <4>2
    <3> QED BY <3>1, <3>4 DEF AcceptValue, rn, t
  <2>13. CASE s.kind \notin {"unknown", "object", "array"} /\ t.kind # "unknown"
    <3>1. t.kind = s.kind /\ (t.enum # {} => s.enum # {} /\ s.enum \subseteq t.enum)
      BY <2>6, <2>13 DEF CheckSchema, SameKind, EnumNotNarrowed
    <3>2. v \in {<<s.kind, w>> : w \in IF s.enum = {} THEN {"a", "b"} ELSE s.enum}
      BY <2>2, <2>3, <2>13 DEF BuildValues, ro, s
    <3>3. v[1] = t.kind /\ (t.enum = {} \/ v[2] \in t.enum)
      BY <3>1, <3>2
    <3> QED BY <2>13, <3>1, <3>3 DEF AcceptValue, rn, t
  <2> QED BY <2>9, <2>10, <2>11, <2>12, <2>13
<1> DEFINE S == {depth \in 0 .. Depth : ~Holds(depth)}
<1>2. S = {}
  <2>1. ASSUME NEW depth \in 0 .. Depth, depth = 0 \/ depth - 1 \notin S PROVE depth \notin S
    <3>1. depth = 0 \/ depth - 1 \in 0 .. Depth
      BY DocumentsAssumption
    <3> HIDE DEF Holds
    <3> QED BY <1>1, <2>1, <3>1
  <2> HIDE DEF S
  <2> QED BY <2>1, DepthInduction DEF S
<1> QED BY <1>2

LEMMA BodySchemasRequested ==
  ASSUME NEW new \in Documents, NEW e \in DOMAIN new.ops, NEW m \in DOMAIN new.ops[e].body
  PROVE  /\ new.ops[e].body[m] \in SchemasOf(new)
         /\ Refs(new.ops[e].body[m]) \subseteq RequestSchemas(new)
<1>1. new.ops[e].body[m] \in BodySchemas(new.ops[e])
  BY DEF BodySchemas
<1>2. BodySchemas(new.ops[e]) \subseteq SchemasOf(new)
  BY DocumentsAssumption DEF IsDocument, OperationSchemas
<1>3. Refs(new.ops[e].body[m]) \subseteq RefsIn(UNION {BodySchemas(new.ops[x]) : x \in DOMAIN new.ops})
  BY <1>1 DEF RefsIn
<1> QED BY <1>1, <1>2, <1>3, ReachableClosed DEF RequestSchemas

LEMMA CompatibleServes ==
  ASSUME NEW old \in Documents, NEW new \in Documents, Compatible(old, new)
  PROVE  Serves(old, new)
<1> DEFINE docs == <<old, new>>
<1> SUFFICES ASSUME NEW e \in DOMAIN old.ops, e \in DOMAIN new.ops
             PROVE  LET o == Parameters(old, e)
                        n == Parameters(new, e)
                    IN /\ \A k \in DOMAIN n : n[k].required /\ k[1] # "path"
                                               => k \in DOMAIN o /\ o[k].required
                       /\ \A k \in DOMAIN o \cap DOMAIN n : CheckedDeep(new, n[k].schema) =>
                            \A v \in Built(old, o[k].schema, Depth) : Accepts(new, n[k].schema, v)
                       /\ \A m \in DOMAIN old.ops[e].body \cap DOMAIN new.ops[e].body :
                            \A v \in Built(old, old.ops[e].body[m], Depth) :
                              Accepts(new, new.ops[e].body[m], v)
  BY DEF Serves, Compatible
<1> DEFINE o == Parameters(old, e)
           n == Parameters(new, e)
<1>1. OperationCompatible(docs, e) /\ ComponentsCompatible(old, new) /\ Depth \in 0 .. Depth
  BY DocumentsAssumption DEF Compatible
<1>2. ParametersCompatible(docs, e)
  BY <1>1 DEF OperationCompatible
<1>3. ASSUME NEW k \in DOMAIN n, n[k].required, k[1] # "path"
      PROVE  k \in DOMAIN o /\ o[k].required
  BY <1>2, <1>3 DEF ParametersCompatible
<1>4. ASSUME NEW k \in DOMAIN o \cap DOMAIN n, CheckedDeep(new, n[k].schema),
             NEW v \in Built(old, o[k].schema, Depth)
      PROVE  Accepts(new, n[k].schema, v)
  <2>1. o[k].schema \in SchemasOf(old) /\ n[k].schema \in SchemasOf(new)
    BY ParametersAreTyped
  <2>2. ShapeCompatible(docs, o[k].schema, n[k].schema, TRUE)
    BY <1>2 DEF ParametersCompatible
  <2>3. AgreeDeep(docs, o[k].schema, n[k].schema)
    BY <1>4, <2>1, <2>2, ShapesAgree DEF AgreeDeep, CheckedDeep
  <2> QED BY <1>1, <1>4, <2>1, <2>3, StillServed
<1>5. ASSUME NEW m \in DOMAIN old.ops[e].body \cap DOMAIN new.ops[e].body,
             NEW v \in Built(old, old.ops[e].body[m], Depth)
      PROVE  Accepts(new, new.ops[e].body[m], v)
  <2>1. old.ops[e].body[m] \in SchemasOf(old)
    BY BodySchemasRequested
  <2>2. /\ new.ops[e].body[m] \in SchemasOf(new)
        /\ Refs(new.ops[e].body[m]) \subseteq RequestSchemas(new)
    BY BodySchemasRequested
  <2>3. ShapeCompatible(docs, old.ops[e].body[m], new.ops[e].body[m], TRUE)
    BY <1>1 DEF OperationCompatible
  <2>4. AgreeDeep(docs, old.ops[e].body[m], new.ops[e].body[m])
    BY <2>1, <2>2, <2>3, ShapesAgree, RequestsClosed DEF AgreeDeep
  <2> QED BY <1>1, <1>5, <2>1, <2>2, <2>4, StillServed
<1> QED BY <1>3, <1>4, <1>5

-----------------------------------------------------------------------------
(* Bundles.                                                                *)

\* What the fragments of the first endpoints come to.
Cut(doc, q, k) ==
  [ops     |-> Only(doc.ops, {q[i] : i \in 1 .. k}),
   shared  |-> <<>>,
   schemas |-> Only(doc.schemas,
                    UNION {Reachable(doc, RefsIn(OperationSchemas(doc.ops[q[i]]))) : i \in 1 .. k})]

LEMMA SelectionsTyped ==
  ASSUME NEW doc \in Documents, NEW q \in Selections(doc)
  PROVE  /\ Len(q) \in Nat \ {0}
         /\ DOMAIN q = 1 .. Len(q)
         /\ \A i \in 1 .. Len(q) : q[i] \in DOMAIN doc.ops
<1>1. IsFiniteSet(DOMAIN doc.ops)
  BY DocumentsAssumption DEF IsDocument
<1>2. Cardinality(DOMAIN doc.ops) \in Nat
  BY <1>1, FS_CardinalityType
<1>3. PICK n \in 1 .. Cardinality(DOMAIN doc.ops) : q \in [1 .. n -> DOMAIN doc.ops]
  BY DEF Selections
<1>4. n \in Nat \ {0}
  BY <1>2
<1>5. q \in Seq(DOMAIN doc.ops) /\ Len(q) = n
  BY <1>3, <1>4
<1> QED BY <1>3, <1>4, <1>5

LEMMA CutFirst ==
  ASSUME NEW doc \in Documents, NEW q \in Selections(doc)
  PROVE  Cut(doc, q, 1) = Fragment(doc, q[1])
<1>1. {q[i] : i \in 1 .. 1} = {q[1]}
  OBVIOUS
<1>2. UNION {Reachable(doc, RefsIn(OperationSchemas(doc.ops[q[i]]))) : i \in 1 .. 1}
        = Reachable(doc, RefsIn(OperationSchemas(doc.ops[q[1]])))
  OBVIOUS
<1> QED BY <1>1, <1>2 DEF Cut, Fragment

LEMMA OverOnly ==
  ASSUME NEW f, NEW A, NEW B
  PROVE  Over(Only(f, A), Only(f, B)) = Only(f, A \cup B)
BY DEF Over, Only

LEMMA CutNext ==
  ASSUME NEW doc \in Documents, NEW q \in Selections(doc), NEW k \in 2 .. Len(q)
  PROVE  Cut(doc, q, k) = Merged(Cut(doc, q, k - 1), Fragment(doc, q[k]))
<1> DEFINE R(i) == Reachable(doc, RefsIn(OperationSchemas(doc.ops[q[i]])))
<1>1. 1 .. k = (1 .. k - 1) \cup {k}
  BY SelectionsTyped
<1>2. {q[i] : i \in 1 .. k} = {q[k]} \cup {q[i] : i \in 1 .. k - 1}
  BY <1>1
<1>3. UNION {R(i) : i \in 1 .. k} = (UNION {R(i) : i \in 1 .. k - 1}) \cup R(k)
  <2> HIDE DEF R
  <2> QED BY <1>1
<1>4. Only(doc.ops, {q[i] : i \in 1 .. k})
        = Over(Only(doc.ops, {q[k]}), Only(doc.ops, {q[i] : i \in 1 .. k - 1}))
  BY <1>2, OverOnly
<1>5. Only(doc.schemas, UNION {R(i) : i \in 1 .. k})
        = Over(Only(doc.schemas, UNION {R(i) : i \in 1 .. k - 1}), Only(doc.schemas, R(k)))
  BY <1>3, OverOnly
<1> QED BY <1>4, <1>5 DEF Cut, Merged, Fragment

LEMMA BundleIsCut ==
  ASSUME NEW doc \in Documents, NEW q \in Selections(doc)
  PROVE  Bundle(doc, q) = Cut(doc, q, Len(q))
<1> DEFINE Step(f) == [i \in 1 .. Len(q) |-> IF i = 1 THEN Fragment(doc, q[1])
                                             ELSE Merged(f[i - 1], Fragment(doc, q[i]))]
           merged == CHOOSE f : f = Step(f)
           cut == [i \in 1 .. Len(q) |-> Cut(doc, q, i)]
<1>1. cut = Step(cut)
  <2>1. ASSUME NEW i \in 1 .. Len(q), i # 1 PROVE cut[i] = Merged(cut[i - 1], Fragment(doc, q[i]))
    <3>1. i \in 2 .. Len(q) /\ i - 1 \in 1 .. Len(q)
      BY <2>1, SelectionsTyped
    <3> QED BY <3>1, CutNext
  <2>2. ASSUME NEW i \in 1 .. Len(q), i = 1 PROVE cut[i] = Fragment(doc, q[1])
    BY <2>2, CutFirst
  <2> HIDE DEF cut
  <2>3. ASSUME NEW i \in 1 .. Len(q) PROVE cut[i] = Step(cut)[i]
    BY <2>1, <2>2
  <2>4. cut = [i \in 1 .. Len(q) |-> cut[i]]
    BY DEF cut
  <2>5. Step(cut) = [i \in 1 .. Len(q) |-> Step(cut)[i]]
    OBVIOUS
  <2> HIDE DEF Step
  <2> QED BY <2>3, <2>4, <2>5
<1>2. merged = Step(merged)
  <2> HIDE DEF Step, cut
  <2> QED BY <1>1
<1>3. Bundle(doc, q) = merged[Len(q)]
  BY DEF Bundle
<1> HIDE DEF merged
<1> DEFINE S == {i \in 1 .. Len(q) : merged[i] # Cut(doc, q, i)}
<1>4. S = {}
  <2> SUFFICES ASSUME S # {} PROVE FALSE
    OBVIOUS
  <2>1. PICK d \in S : \A e \in S : ~(e < d)
    <3>1. S \in SUBSET Nat
      BY SelectionsTyped
    <3> HIDE DEF S
    <3> QED BY <3>1, LeastNumber
  <2>2. CASE d = 1
    BY <1>2, <2>1, <2>2, CutFirst
  <2>3. CASE d # 1
    <3>1. d \in 2 .. Len(q) /\ d - 1 \in 1 .. Len(q) /\ d - 1 \notin S
      BY <2>1, <2>3, SelectionsTyped
    <3>2. merged[d] = Merged(merged[d - 1], Fragment(doc, q[d]))
      BY <1>2, <2>3, <3>1
    <3> QED BY <2>1, <3>1, <3>2, CutNext
  <2> QED BY <2>2, <2>3
<1> QED BY <1>3, <1>4, SelectionsTyped

\* A bundle has the operations picked, and of the components all they lead to.
LEMMA BundleHasAll ==
  ASSUME NEW doc \in Documents, NEW q \in Selections(doc), NEW k \in 1 .. Len(q)
  PROVE  /\ q[k] \in DOMAIN Bundle(doc, q).ops
         /\ Bundle(doc, q).ops[q[k]] = doc.ops[q[k]]
         /\ \A n \in Reachable(doc, RefsIn(OperationSchemas(doc.ops[q[k]]))) :
              /\ n \in DOMAIN Bundle(doc, q).schemas <=> n \in DOMAIN doc.schemas
              /\ n \in DOMAIN doc.schemas => Bundle(doc, q).schemas[n] = doc.schemas[n]
<1> DEFINE R(i) == Reachable(doc, RefsIn(OperationSchemas(doc.ops[q[i]])))
           used == UNION {R(i) : i \in 1 .. Len(q)}
<1>1. k \in 1 .. Len(q) /\ q[k] \in DOMAIN doc.ops
  BY SelectionsTyped
<1>2. /\ Bundle(doc, q).ops = Only(doc.ops, {q[i] : i \in 1 .. Len(q)})
      /\ Bundle(doc, q).schemas = Only(doc.schemas, used)
  <2>1. Bundle(doc, q) = Cut(doc, q, Len(q))
    BY BundleIsCut
  <2>2. /\ Cut(doc, q, Len(q)).ops = Only(doc.ops, {q[i] : i \in 1 .. Len(q)})
        /\ Cut(doc, q, Len(q)).schemas = Only(doc.schemas, used)
    BY DEF Cut
  <2> QED BY <2>1, <2>2
<1>3. q[k] \in {q[i] : i \in 1 .. Len(q)}
  OBVIOUS
<1>4. R(k) \subseteq used
  <2> HIDE DEF R
  <2> QED OBVIOUS
<1> HIDE DEF used
<1> QED BY <1>1, <1>2, <1>3, <1>4 DEF Only

\* Below the schemas of an endpoint the bundle has all the document has.
LEMMA SameExpansion ==
  ASSUME NEW doc \in Documents, NEW q \in Selections(doc), NEW k \in 1 .. Len(q)
  PROVE  \A depth \in 0 .. Depth : \A s \in SchemasOf(doc) :
           Refs(s) \subseteq Reachable(doc, RefsIn(OperationSchemas(doc.ops[q[k]]))) =>
             Expanded(Bundle(doc, q), s, depth) = Expanded(doc, s, depth)
<1> DEFINE bundle == Bundle(doc, q)
           R == Reachable(doc, RefsIn(OperationSchemas(doc.ops[q[k]])))
           Holds(depth) == \A s \in SchemasOf(doc) : Refs(s) \subseteq R =>
                             Expanded(bundle, s, depth) = Expanded(doc, s, depth)
<1>1. bundle \in Bundles(doc)
  BY DEF Bundles
<1>2. ASSUME NEW s \in SchemasOf(doc), Refs(s) \subseteq R
      PROVE  /\ Resolved(bundle, s) = Resolved(doc, s)
             /\ Resolved(doc, s) # <<>> => Refs(Resolved(doc, s)[1]) \subseteq R
  <2>1. CASE IsRef(s)
    <3>1. s.ref \in R
      BY <1>2, <2>1, RecursionAssumption DEF CollectRefs
    <3>2. Resolved(bundle, s) = Resolved(doc, s)
      BY <2>1, <3>1, BundleHasAll DEF Resolved
    <3>3. ASSUME s.ref \in DOMAIN doc.schemas PROVE Refs(doc.schemas[s.ref]) \subseteq Named(doc, R)
      BY <3>1, <3>3 DEF Named, RefsIn
    <3>4. Named(doc, R) \subseteq R
      BY ReachableClosed
    <3> QED BY <2>1, <3>2, <3>3, <3>4 DEF Resolved
  <2>2. CASE ~IsRef(s)
    BY <1>2, <2>2 DEF Resolved
  <2> QED BY <2>1, <2>2
<1>3. ASSUME NEW depth \in 0 .. Depth, depth = 0 \/ Holds(depth - 1) PROVE Holds(depth)
  <2> SUFFICES ASSUME NEW s \in SchemasOf(doc), Refs(s) \subseteq R
               PROVE  Expanded(bundle, s, depth) = Expanded(doc, s, depth)
    OBVIOUS
  <2>1. /\ Expanded(bundle, s, depth) = ExpandSchema(bundle, s, depth)
        /\ Expanded(doc, s, depth) = ExpandSchema(doc, s, depth)
    BY <1>1, RecursionAssumption
  <2>2. Resolved(bundle, s) = Resolved(doc, s)
    BY <1>2
  <2>3. CASE depth = 0 \/ Resolved(doc, s) = <<>>
    BY <2>1, <2>2, <2>3 DEF ExpandSchema
  <2>4. CASE depth # 0 /\ Resolved(doc, s) # <<>>
    <3> DEFINE r == Resolved(doc, s)[1]
    <3>1. r \in SchemasOf(doc) /\ ~IsRef(r) /\ Refs(r) \subseteq R
      BY <1>2, <2>4, ResolvedIsInline
    <3>2. ASSUME NEW part \in Parts(r)
          PROVE  Expanded(bundle, part, depth - 1) = Expanded(doc, part, depth - 1)
      BY <1>3, <2>4, <3>1, RefsOfParts
    <3>3. [p \in DOMAIN r.props |-> Expanded(bundle, r.props[p], depth - 1)]
            = [p \in DOMAIN r.props |-> Expanded(doc, r.props[p], depth - 1)]
      BY <3>1, <3>2 DEF Parts
    <3>4. [i \in DOMAIN r.items |-> Expanded(bundle, r.items[i], depth - 1)]
            = [i \in DOMAIN r.items |-> Expanded(doc, r.items[i], depth - 1)]
      BY <3>1, <3>2 DEF Parts
    <3>5. \A read \in {doc, bundle} : ExpandSchema(read, s, depth) =
            [r EXCEPT !.props = [p \in DOMAIN r.props |-> Expanded(read, r.props[p], depth - 1)],
                      !.items = [i \in DOMAIN r.items |-> Expanded(read, r.items[i], depth - 1)]]
      BY <2>2, <2>4 DEF ExpandSchema
    <3> QED BY <2>1, <3>3, <3>4, <3>5
  <2> QED BY <2>3, <2>4
<1> DEFINE S == {depth \in 0 .. Depth : ~Holds(depth)}
<1>4. S = {}
  <2>1. ASSUME NEW depth \in 0 .. Depth, depth = 0 \/ depth - 1 \notin S PROVE depth \notin S
    <3>1. depth = 0 \/ depth - 1 \in 0 .. Depth
      BY DocumentsAssumption
    <3> HIDE DEF Holds
    <3> QED BY <1>3, <2>1, <3>1
  <2> HIDE DEF S
  <2> QED BY <2>1, DepthInduction DEF S
<1> QED BY <1>4

LEMMA BundlesAreFaithful ==
  ASSUME NEW doc \in Documents
  PROVE  Faithful(doc)
<1> SUFFICES ASSUME NEW q \in Selections(doc), NEW k \in DOMAIN q
             PROVE  /\ q[k] \in DOMAIN Bundle(doc, q).ops
                    /\ Meaning(Bundle(doc, q), q[k]) = Meaning(doc, q[k])
  BY DEF Faithful
<1> DEFINE bundle == Bundle(doc, q)
           op == doc.ops[q[k]]
<1>1. k \in 1 .. Len(q) /\ q[k] \in DOMAIN doc.ops
  BY SelectionsTyped
<1>2. q[k] \in DOMAIN bundle.ops /\ bundle.ops[q[k]] = op
  BY <1>1, BundleHasAll
<1>3. ASSUME NEW s \in OperationSchemas(op)
      PROVE  Expanded(bundle, s, Depth) = Expanded(doc, s, Depth)
  <2>1. s \in SchemasOf(doc) /\ Depth \in 0 .. Depth
    BY <1>1, DocumentsAssumption DEF IsDocument
  <2>2. Refs(s) \subseteq RefsIn(OperationSchemas(op))
    BY DEF RefsIn
  <2>3. Refs(s) \subseteq Reachable(doc, RefsIn(OperationSchemas(op)))
    BY <2>2, ReachableClosed
  <2> QED BY <1>1, <2>1, <2>3, SameExpansion
<1>4. [p \in DOMAIN op.params |-> Expanded(bundle, op.params[p].schema, Depth)]
        = [p \in DOMAIN op.params |-> Expanded(doc, op.params[p].schema, Depth)]
  BY <1>3 DEF OperationSchemas
<1>5. [m \in DOMAIN op.body |-> Expanded(bundle, op.body[m], Depth)]
        = [m \in DOMAIN op.body |-> Expanded(doc, op.body[m], Depth)]
  BY <1>3 DEF OperationSchemas, BodySchemas
<1>6. ASSUME NEW s \in DOMAIN op.responses
      PROVE  [i \in DOMAIN op.responses[s] |-> Expanded(bundle, op.responses[s][i], Depth)]
               = [i \in DOMAIN op.responses[s] |-> Expanded(doc, op.responses[s][i], Depth)]
  BY <1>3 DEF OperationSchemas
<1>7. [s \in DOMAIN op.responses |-> [i \in DOMAIN op.responses[s] |-> Expanded(bundle, op.responses[s][i], Depth)]]
        = [s \in DOMAIN op.responses |-> [i \in DOMAIN op.responses[s] |-> Expanded(doc, op.responses[s][i], Depth)]]
  BY <1>6
<1> QED BY <1>2, <1>4, <1>5, <1>7 DEF Meaning

-----------------------------------------------------------------------------
(* The line.                                                               *)

LEMMA AcceptedPairs ==
  ASSUME NEW b, NEW c, <<b, c>> \in Accepted
  PROVE  /\ DocOf[b] \in Documents /\ DocOf[c] \in Documents
         /\ Compatible(DocOf[b], DocOf[c])
         /\ b \in Contents /\ c \in Contents
<1>1. PICK p \in {q \in Contents \X Contents : Compatible(DocOf[q[1]], DocOf[q[2]])} :
        <<b, c>> = <<p[1], p[2]>>
  BY ContentsAssumption DEF Pairs
<1> QED BY <1>1, ContentsAssumption

LEMMA AcceptedIsServed == Accepted \subseteq Served
<1> SUFFICES ASSUME NEW b, NEW c, <<b, c>> \in Accepted PROVE <<b, c>> \in Served
  BY ContentsAssumption DEF Pairs
<1>1. <<b, c>> \in {q \in Contents \X Contents : Serves(DocOf[q[1]], DocOf[q[2]])}
  BY AcceptedPairs, CompatibleServes
<1> QED BY <1>1 DEF Served, Pairs

LEMMA AcceptedIsReadable == Accepted \subseteq Readable
<1> SUFFICES ASSUME NEW b, NEW c, <<b, c>> \in Accepted PROVE <<b, c>> \in Readable
  BY ContentsAssumption DEF Pairs
<1>1. <<b, c>> \in {q \in Contents \X Contents : Answers(DocOf[q[1]], DocOf[q[2]])}
  BY AcceptedPairs, CompatibleAnswers
<1> QED BY <1>1 DEF Readable, Pairs

\* A release that keeps the major takes every request a client built against
\* the release it was checked with may send: what the check compares by shape,
\* by name and component by component covers whatever is nested below, for any
\* documents, to any depth.
THEOREM ReleasesTakeOldRequests == Spec => []RequestsStillServed
<1>1. BasesWereAccepted => RequestsStillServed
  BY AcceptedIsServed DEF BasesWereAccepted, RequestsStillServed
<1> QED BY <1>1, BasesInvariant, PTL

\* And no property or type such a client reads of a response, at any depth, is
\* gone, though references are compared by their names alone.
THEOREM ReleasesAnswerOldReaders == Spec => []ResponsesStillRead
<1>1. BasesWereAccepted => ResponsesStillRead
  BY AcceptedIsReadable DEF BasesWereAccepted, ResponsesStillRead
<1> QED BY <1>1, BasesInvariant, PTL

\* The fragments of a document on the line, merged in any order, mean for each
\* of their endpoints what the document means: the split takes along all the
\* components an endpoint leads to, and a merge loses none of them.
THEOREM BundlesMeanTheDocument == Spec => []BundleSaysTheSame
<1>1. TypeOK => BundleSaysTheSame
  <2> SUFFICES ASSUME TypeOK, NEW x \in line PROVE x.content \in Bundled
    BY DEF BundleSaysTheSame
  <2>1. x.content \in Contents
    BY DEF TypeOK, IsLine, Entry
  <2>2. Faithful(DocOf[x.content])
    BY <2>1, BundlesAreFaithful, ContentsAssumption
  <2> QED BY <2>1, <2>2 DEF Bundled
<1> QED BY <1>1, TypeCorrect, PTL
=============================================================================
