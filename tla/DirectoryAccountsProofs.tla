---------------------- MODULE DirectoryAccountsProofs ----------------------
(***************************************************************************)
(* What holds of accounts and sign-ins for every directory, every set of   *)
(* names and roots and every number of concurrent sign-ins.                *)
(*                                                                         *)
(* The argument: a row read earlier stays a true description of its        *)
(* account in the two respects that matter, whose it is and whether its    *)
(* name is a root name, for as long as the account lives.  Ids are never   *)
(* reused, and every rename stays within the names of one entry and away   *)
(* from the roots.  "Fits" says this of one row, "CallOK" of all that a    *)
(* sign-in holds, and "Grows" is the kind of step that keeps it.           *)
(*                                                                         *)
(* A sign-in nobody disturbs knows more: at each step it holds every       *)
(* account of its person that is left to fold, in a way or in its rest,    *)
(* which is "FoldInv".  And no step but an administrator's deletion takes  *)
(* anything away from a person or touches a root account, which is "Kept". *)
(***************************************************************************)
EXTENDS DirectoryAccounts, TLAPS

\* The accounts of a store, as Live is of the current one.
At(a) == {i \in Ids : a[i] # NoOne}

\* Types, unique names and ids, and nobody else's account, of a store a whose
\* next id is n.
StoreOK(a, n) ==
  /\ a \in [Ids -> Account \cup {NoOne}]
  /\ n \in 1 .. MaxId + 1
  /\ \A i \in At(a) : i < n
  /\ \A i, j \in At(a) : i # j => /\ a[i].name # a[j].name
                                  /\ a[i].did = a[j].did => a[i].did = NoOne
  /\ \A i \in At(a), e \in Entries :
       a[i].did = e \/ e \in a[i].sessions => a[i].name \in Own[e]

\* The row x, read earlier by a sign-in of e, against the store.
Fits(x, e, a, n) ==
  /\ x.id < n
  /\ x.id \in At(a) => /\ a[x.id].name \in Own[e]
                       /\ a[x.id].name \in Roots <=> x.name \in Roots

Working == Steps \ {"idle", "done"}

CallOK(s, a, n) ==
  s.at \in Working =>
    /\ s.entry \in Entries
    /\ s.canonical # NoOne => s.canonical \in Own[s.entry]
    /\ s.at \notin {"bind", "session"} => s.canonical # NoOne
    /\ \A w \in Ways : s.cand[w] # NoOne => Fits(s.cand[w], s.entry, a, n)
    /\ s.target # NoOne => Fits(s.target, s.entry, a, n)
    /\ s.at \in {"merge", "namecheck", "rename", "holder", "setid", "grant", "session"}
         => s.target # NoOne
    /\ \A i \in s.rest : /\ i < n
                         /\ i \in At(a) => /\ a[i].name \in Own[s.entry]
                                           /\ a[i].name \notin Roots
    /\ s.at = "rename" => s.target.name \notin Roots /\ s.canonical \notin Roots

Inv ==
  /\ StoreOK(accounts, nextId)
  /\ called \in [Entries -> Names]
  /\ \A e \in Entries : called[e] \in Own[e]
  /\ others \in 0 .. MaxOthers
  /\ call \in [Calls -> CallStates]
  /\ \A c \in Calls : CallOK(call[c], accounts, nextId)

\* A step of the store that keeps what rows read before it say.
Grows(a, n, b, m) ==
  /\ n \in Nat /\ m \in Nat /\ n <= m
  /\ \A i \in Ids : i < n /\ i \in At(b) =>
       /\ i \in At(a)
       /\ \A e \in Entries : a[i].name \in Own[e] => b[i].name \in Own[e]
       /\ a[i].name \in Roots <=> b[i].name \in Roots

-----------------------------------------------------------------------------
\* The part of Inv the runs check.
LEMMA InvGivesProperties == Inv => TypeOK /\ NobodyElsesAccount
<1>1. SUFFICES ASSUME Inv PROVE TypeOK /\ NobodyElsesAccount
  OBVIOUS
<1>2. Live = At(accounts)
  BY DEF Live, At
<1>3. NobodyElsesAccount
  BY <1>1, <1>2 DEF Inv, StoreOK, NobodyElsesAccount
<1>4. Unique
  BY <1>1, <1>2 DEF Inv, StoreOK, Unique
<1> QED
  BY <1>1, <1>2, <1>3, <1>4 DEF Inv, StoreOK, TypeOK

\* Rows read before a growing step still fit after it.
LEMMA FitsStays ==
  ASSUME NEW a, NEW n, NEW b, NEW m, Grows(a, n, b, m),
         NEW e \in Entries, NEW x \in Snapshot, Fits(x, e, a, n)
  PROVE  Fits(x, e, b, m)
<1>1. x.id \in Ids /\ x.id \in Nat /\ x.id < n
  BY BoundsAssumption DEF Snapshot, Ids, Fits
<1>2. x.id < m
  BY <1>1 DEF Grows
<1>3. ASSUME x.id \in At(b)
      PROVE  b[x.id].name \in Own[e] /\ (b[x.id].name \in Roots <=> x.name \in Roots)
  <2>1. /\ x.id \in At(a)
        /\ a[x.id].name \in Own[e] => b[x.id].name \in Own[e]
        /\ a[x.id].name \in Roots <=> b[x.id].name \in Roots
    BY <1>1, <1>3 DEF Grows
  <2> QED
    BY <2>1 DEF Fits
<1> QED
  BY <1>2, <1>3 DEF Fits

\* So does all that a sign-in holds.
LEMMA CallStays ==
  ASSUME NEW a, NEW n, NEW b, NEW m, Grows(a, n, b, m),
         NEW s \in CallStates, CallOK(s, a, n)
  PROVE  CallOK(s, b, m)
<1> SUFFICES ASSUME s.at \in Working PROVE CallOK(s, b, m)
  BY DEF CallOK
<1>1. s.entry \in Entries
  BY DEF CallOK
<1>2. \A w \in Ways : s.cand[w] # NoOne => Fits(s.cand[w], s.entry, b, m)
  <2>1. SUFFICES ASSUME NEW w \in Ways, s.cand[w] # NoOne
                 PROVE  Fits(s.cand[w], s.entry, b, m)
    OBVIOUS
  <2>2. s.cand[w] \in Snapshot
    BY <2>1 DEF CallStates
  <2>3. Fits(s.cand[w], s.entry, a, n)
    BY <2>1 DEF CallOK
  <2> QED
    BY <1>1, <2>2, <2>3, FitsStays
<1>3. s.target # NoOne => Fits(s.target, s.entry, b, m)
  <2>1. s.target # NoOne => s.target \in Snapshot
    BY DEF CallStates
  <2>2. s.target # NoOne => Fits(s.target, s.entry, a, n)
    BY DEF CallOK
  <2> QED
    BY <1>1, <2>1, <2>2, FitsStays
<1>4. \A i \in s.rest : /\ i < m
                        /\ i \in At(b) => b[i].name \in Own[s.entry] /\ b[i].name \notin Roots
  <2>1. SUFFICES ASSUME NEW i \in s.rest
                 PROVE  /\ i < m
                        /\ i \in At(b) => b[i].name \in Own[s.entry] /\ b[i].name \notin Roots
    OBVIOUS
  <2>2. i \in Ids /\ i \in Nat
    BY BoundsAssumption DEF CallStates, Ids
  <2>3. /\ i < n
        /\ i \in At(a) => a[i].name \in Own[s.entry] /\ a[i].name \notin Roots
    BY DEF CallOK
  <2>4. i < m
    BY <2>2, <2>3 DEF Grows
  <2>5. i \in At(b) => /\ i \in At(a)
                       /\ a[i].name \in Own[s.entry] => b[i].name \in Own[s.entry]
                       /\ a[i].name \in Roots <=> b[i].name \in Roots
    BY <1>1, <2>2, <2>3 DEF Grows
  <2> QED
    BY <2>3, <2>4, <2>5
<1> QED
  BY <1>1, <1>2, <1>3, <1>4 DEF CallOK

\* A disturbed sign-in differs only in its history.
LEMMA DisturbedOK ==
  ASSUME NEW d \in Calls, call \in [Calls -> CallStates], NEW a, NEW n,
         CallOK(call[d], a, n)
  PROVE  Disturbed(d) \in CallStates /\ CallOK(Disturbed(d), a, n)
<1>1. call[d] \in CallStates
  OBVIOUS
<1>2. CASE Disturbed(d) = call[d]
  BY <1>1, <1>2
<1>3. CASE Disturbed(d) = [call[d] EXCEPT !.alone = FALSE]
  <2> DEFINE s == call[d]
             t == [s EXCEPT !.alone = FALSE]
  <2>1. /\ t.at = s.at /\ t.entry = s.entry /\ t.canonical = s.canonical
        /\ t.cand = s.cand /\ t.target = s.target /\ t.rest = s.rest
    BY <1>1 DEF CallStates
  <2>2. t \in CallStates
    BY <1>1 DEF CallStates
  <2>3. CallOK(t, a, n)
    BY <2>1 DEF CallOK
  <2> QED
    BY <1>3, <2>2, <2>3
<1> QED
  BY <1>2, <1>3 DEF Disturbed

\* A step of a sign-in that only reads.
LEMMA ReadsKeeps ==
  ASSUME Inv, NEW c \in Calls, NEW s \in CallStates,
         CallOK(s, accounts, nextId), Reads(c, s)
  PROVE  Inv'
<1>1. /\ accounts' = accounts /\ nextId' = nextId /\ called' = called /\ others' = others
      /\ call' = [call EXCEPT ![c] = s]
  BY DEF Reads
<1>2. call' \in [Calls -> CallStates]
  BY <1>1 DEF Inv
<1>3. ASSUME NEW d \in Calls PROVE CallOK(call'[d], accounts, nextId)
  <2>1. CASE d = c
    BY <1>1, <2>1 DEF Inv
  <2>2. CASE d # c
    BY <1>1, <2>2 DEF Inv
  <2> QED
    BY <2>1, <2>2
<1>4. \A d \in Calls : CallOK(call'[d], accounts', nextId')
  BY <1>1, <1>3
<1> QED
  BY <1>1, <1>2, <1>4 DEF Inv

\* A step of a sign-in that writes.
LEMMA WritesKeeps ==
  ASSUME Inv, NEW c \in Calls, NEW s \in CallStates, NEW to,
         Writes(c, s, to), StoreOK(to, nextId'),
         Grows(accounts, nextId, to, nextId'), CallOK(s, to, nextId')
  PROVE  Inv'
<1>1. /\ accounts' = to /\ called' = called /\ others' = others
      /\ call' = [d \in Calls |-> IF d = c THEN s
                                  ELSE IF to = accounts THEN call[d] ELSE Disturbed(d)]
  BY DEF Writes
<1>2. ASSUME NEW d \in Calls PROVE call'[d] \in CallStates /\ CallOK(call'[d], to, nextId')
  <2>1. CASE d = c
    BY <1>1, <2>1
  <2>2. CASE d # c
    <3>1. call[d] \in CallStates /\ CallOK(call[d], accounts, nextId)
      BY DEF Inv
    <3>2. CallOK(call[d], to, nextId')
      BY <3>1, CallStays
    <3>3. Disturbed(d) \in CallStates /\ CallOK(Disturbed(d), to, nextId')
      BY <3>2, DisturbedOK DEF Inv
    <3> QED
      BY <1>1, <2>2, <3>1, <3>2, <3>3
  <2> QED
    BY <2>1, <2>2
<1>3. call' \in [Calls -> CallStates]
  BY <1>1, <1>2
<1>4. \A d \in Calls : CallOK(call'[d], accounts', nextId')
  BY <1>1, <1>2
<1> QED
  BY <1>1, <1>3, <1>4 DEF Inv

\* A step of anyone else.
LEMMA ElsewhereKeeps ==
  ASSUME Inv, Elsewhere, StoreOK(accounts', nextId'),
         Grows(accounts, nextId, accounts', nextId'),
         called' \in [Entries -> Names], \A e \in Entries : called'[e] \in Own[e]
  PROVE  Inv'
<1>1. call' = [d \in Calls |-> Disturbed(d)]
  BY DEF Elsewhere
<1>2. others' \in 0 .. MaxOthers
  BY BoundsAssumption DEF Elsewhere, Inv
<1>3. ASSUME NEW d \in Calls
      PROVE  call'[d] \in CallStates /\ CallOK(call'[d], accounts', nextId')
  <2>1. call[d] \in CallStates /\ CallOK(call[d], accounts, nextId)
    BY DEF Inv
  <2>2. CallOK(call[d], accounts', nextId')
    BY <2>1, CallStays
  <2>3. Disturbed(d) \in CallStates /\ CallOK(Disturbed(d), accounts', nextId')
    BY <2>2, DisturbedOK DEF Inv
  <2> QED
    BY <1>1, <2>3
<1>4. call' \in [Calls -> CallStates]
  BY <1>1, <1>3
<1>5. \A d \in Calls : CallOK(call'[d], accounts', nextId')
  BY <1>3
<1> QED
  BY <1>2, <1>4, <1>5 DEF Inv

-----------------------------------------------------------------------------
(* The edits of the store.                                                 *)

\* A new row under a name nobody has.
LEMMA AddedKeeps ==
  ASSUME NEW a, NEW n, StoreOK(a, n), n <= MaxId,
         NEW x \in Names, NEW k \in {"person", "service"},
         \A i \in At(a) : a[i].name # x
  PROVE  LET b == [a EXCEPT ![n] = NewAccount(x, k)]
         IN StoreOK(b, n + 1) /\ Grows(a, n, b, n + 1)
<1> DEFINE b == [a EXCEPT ![n] = NewAccount(x, k)]
           r == NewAccount(x, k)
<1>1. n \in Ids /\ n \in Nat /\ n + 1 \in 1 .. MaxId + 1
  BY BoundsAssumption DEF StoreOK, Ids
<1>2. r \in Account /\ r # NoOne /\ r.name = x /\ r.did = NoOne /\ r.sessions = {}
  <2>1. r \in Account
    BY DEF NewAccount, Account
  <2>2. \A y \in Account : y # NoOne
    BY NoOneAssumption
  <2> QED
    BY <2>1, <2>2 DEF NewAccount
<1>3. b \in [Ids -> Account \cup {NoOne}] /\ b[n] = r /\ \A i \in Ids : i # n => b[i] = a[i]
  BY <1>1, <1>2 DEF StoreOK
<1>4. At(b) = At(a) \cup {n} /\ n \notin At(a)
  BY <1>1, <1>2, <1>3 DEF At, StoreOK
<1>5. \A i \in At(a) : i \in Ids /\ i \in Nat /\ i < n /\ b[i] = a[i]
  BY <1>3, <1>4 DEF At, StoreOK, Ids
<1>6. \A i \in At(b) : i < n + 1
  BY <1>1, <1>4, <1>5
<1>7. \A i, j \in At(b) : i # j => /\ b[i].name # b[j].name
                                   /\ b[i].did = b[j].did => b[i].did = NoOne
  BY <1>2, <1>3, <1>4, <1>5 DEF StoreOK
<1>8. \A i \in At(b), e \in Entries :
        b[i].did = e \/ e \in b[i].sessions => b[i].name \in Own[e]
  BY <1>2, <1>3, <1>4, <1>5, NoOneAssumption DEF StoreOK
<1>9. StoreOK(b, n + 1)
  BY <1>1, <1>3, <1>6, <1>7, <1>8 DEF StoreOK
<1>10. Grows(a, n, b, n + 1)
  <2>1. \A i \in Ids : i < n /\ i \in At(b) => i \in At(a) /\ b[i] = a[i]
    BY <1>1, <1>4, <1>5 DEF Ids
  <2>2. n + 1 \in Nat /\ n <= n + 1
    BY <1>1
  <2> HIDE DEF b
  <2> QED
    BY <1>1, <2>1, <2>2 DEF Grows
<1> QED
  BY <1>9, <1>10

\* A row rewritten: its new name and id are free, and its person the same.
LEMMA UpdatedKeeps ==
  ASSUME NEW a, NEW n, StoreOK(a, n), NEW i \in At(a), NEW r \in Account,
         \A j \in At(a) : j # i => /\ a[j].name # r.name
                                   /\ a[j].did = r.did => r.did = NoOne,
         \A e \in Entries : r.did = e \/ e \in r.sessions => r.name \in Own[e],
         \A e \in Entries : a[i].name \in Own[e] => r.name \in Own[e],
         a[i].name \in Roots <=> r.name \in Roots
  PROVE  LET b == [a EXCEPT ![i] = r]
         IN StoreOK(b, n) /\ Grows(a, n, b, n)
<1> DEFINE b == [a EXCEPT ![i] = r]
<1>1. i \in Ids /\ n \in Nat /\ n \in 1 .. MaxId + 1
  BY BoundsAssumption DEF StoreOK, At
<1>2. r # NoOne
  BY NoOneAssumption
<1>3. b \in [Ids -> Account \cup {NoOne}] /\ b[i] = r /\ \A j \in Ids : j # i => b[j] = a[j]
  BY <1>1 DEF StoreOK
<1>4. At(b) = At(a) /\ At(a) \subseteq Ids
  BY <1>1, <1>2, <1>3 DEF At
<1>5. \A j \in At(b) : j < n
  BY <1>4 DEF StoreOK
<1>6. \A j, l \in At(b) : j # l => /\ b[j].name # b[l].name
                                   /\ b[j].did = b[l].did => b[j].did = NoOne
  BY <1>3, <1>4 DEF StoreOK
<1>7. \A j \in At(b), e \in Entries :
        b[j].did = e \/ e \in b[j].sessions => b[j].name \in Own[e]
  BY <1>3, <1>4 DEF StoreOK
<1>8. StoreOK(b, n)
  BY <1>1, <1>3, <1>5, <1>6, <1>7 DEF StoreOK
<1>9. Grows(a, n, b, n)
  BY <1>1, <1>3, <1>4 DEF Grows
<1> QED
  BY <1>8, <1>9

\* A row deleted, if it is there.
LEMMA RemovedKeeps ==
  ASSUME NEW a, NEW n, StoreOK(a, n), NEW i \in Ids
  PROVE  LET b == [a EXCEPT ![i] = NoOne]
         IN StoreOK(b, n) /\ Grows(a, n, b, n)
<1> DEFINE b == [a EXCEPT ![i] = NoOne]
<1>1. n \in Nat /\ n \in 1 .. MaxId + 1
  BY BoundsAssumption DEF StoreOK
<1>2. b \in [Ids -> Account \cup {NoOne}] /\ b[i] = NoOne /\ \A j \in Ids : j # i => b[j] = a[j]
  BY DEF StoreOK
<1>3. At(b) = At(a) \ {i} /\ At(a) \subseteq Ids /\ \A j \in At(b) : b[j] = a[j]
  BY <1>2 DEF At
<1>4. StoreOK(b, n)
  BY <1>1, <1>2, <1>3 DEF StoreOK
<1>5. Grows(a, n, b, n)
  <2> HIDE DEF b
  <2>1. \A j \in Ids : j \in At(b) => j \in At(a) /\ b[j] = a[j]
    BY <1>3
  <2> QED
    BY <1>1, <2>1 DEF Grows
<1> QED
  BY <1>4, <1>5

\* Growing composes.
LEMMA GrowsTwice ==
  ASSUME NEW a, NEW b, NEW d, NEW n, Grows(a, n, b, n), Grows(b, n, d, n)
  PROVE  Grows(a, n, d, n)
  BY DEF Grows

\* What a merge may find: two accounts of one entry.
LEMMA MergedKeeps ==
  ASSUME Inv, NEW from \in Ids, NEW into \in Ids, NEW e \in Entries,
         from \in Live => accounts[from].name \in Own[e],
         into \in Live => accounts[into].name \in Own[e]
  PROVE  /\ StoreOK(Merged(from, into), nextId)
         /\ Grows(accounts, nextId, Merged(from, into), nextId)
<1>1. StoreOK(accounts, nextId) /\ Live = At(accounts)
  BY DEF Inv, Live, At
<1>2. accounts \in [Ids -> Account \cup {NoOne}]
  BY <1>1 DEF StoreOK
<1>3. CASE from \in Live /\ into \in Live /\ from # into
  <2> DEFINE f == accounts[from]
             t == accounts[into]
             r == [t EXCEPT !.owns = t.owns \cup f.owns,
                            !.sessions = t.sessions \cup f.sessions]
             mid == [accounts EXCEPT ![into] = r]
  <2>1. f \in Account /\ t \in Account
    BY <1>2, <1>3 DEF Live
  <2>2. /\ r \in Account /\ r.name = t.name /\ r.did = t.did
        /\ r.sessions = t.sessions \cup f.sessions
    BY <2>1 DEF Account
  <2>3. [t EXCEPT !.owns = @ \cup f.owns, !.sessions = @ \cup f.sessions] = r
    OBVIOUS
  <2>4. Merged(from, into) = [mid EXCEPT ![from] = NoOne]
    BY <1>2, <1>3, <2>3 DEF Merged
  <2>5. \A g \in Entries : g \in f.sessions => g = e
    <3>1. SUFFICES ASSUME NEW g \in Entries, g \in f.sessions PROVE g = e
      OBVIOUS
    <3>2. f.name \in Own[g] /\ f.name \in Own[e]
      BY <1>1, <1>3, <3>1 DEF StoreOK
    <3> QED
      BY <3>2, NamesAssumption
  <2>6. \A g \in Entries : r.did = g \/ g \in r.sessions => r.name \in Own[g]
    <3> HIDE DEF r
    <3>1. SUFFICES ASSUME NEW g \in Entries, r.did = g \/ g \in r.sessions
                   PROVE  r.name \in Own[g]
      OBVIOUS
    <3>2. CASE t.did = g \/ g \in t.sessions
      BY <1>1, <1>3, <2>2, <3>2 DEF StoreOK
    <3>3. CASE g \in f.sessions
      BY <1>3, <2>2, <2>5, <3>3
    <3> QED
      BY <2>2, <3>1, <3>2, <3>3
  <2>7. \A j \in At(accounts) : j # into =>
          accounts[j].name # r.name /\ (accounts[j].did = r.did => r.did = NoOne)
    <3> HIDE DEF r
    <3> QED
      BY <1>1, <1>3, <2>2 DEF StoreOK
  <2>8. StoreOK(mid, nextId) /\ Grows(accounts, nextId, mid, nextId)
    <3> HIDE DEF r
    <3> QED
      BY <1>1, <1>3, <2>2, <2>6, <2>7, UpdatedKeeps
  <2> HIDE DEF mid
  <2>9. StoreOK([mid EXCEPT ![from] = NoOne], nextId)
        /\ Grows(mid, nextId, [mid EXCEPT ![from] = NoOne], nextId)
    BY <2>8, RemovedKeeps
  <2> QED
    BY <2>4, <2>8, <2>9, GrowsTwice
<1>4. CASE ~(from \in Live /\ into \in Live /\ from # into)
  <2>1. Merged(from, into) = [accounts EXCEPT ![from] = NoOne]
    BY <1>2, <1>4 DEF Merged
  <2>2. /\ StoreOK([accounts EXCEPT ![from] = NoOne], nextId)
        /\ Grows(accounts, nextId, [accounts EXCEPT ![from] = NoOne], nextId)
    BY <1>1, RemovedKeeps
  <2> QED
    BY <2>1, <2>2
<1> QED
  BY <1>3, <1>4

\* A row just read fits.
LEMMA SeenFits ==
  ASSUME Inv, NEW e \in Entries, NEW F \in SUBSET Live,
         \A i \in F : accounts[i].name \in Own[e]
  PROVE  /\ Seen(F) \in Snapshot \cup {NoOne}
         /\ Seen(F) # NoOne => Fits(Seen(F), e, accounts, nextId) /\ Seen(F).id \in F
<1>1. CASE F = {}
  BY <1>1 DEF Seen
<1>2. CASE F # {}
  <2> DEFINE i == CHOOSE i \in F : TRUE
  <2>1. i \in F
    BY <1>2
  <2> HIDE DEF i
  <2>2. i \in Ids /\ i \in At(accounts) /\ accounts[i] \in Account /\ i < nextId
    BY <2>1 DEF Live, At, Inv, StoreOK
  <2>3. Seen(F) = [id |-> i, name |-> accounts[i].name]
    BY <1>2 DEF Seen, i
  <2>4. Seen(F) \in Snapshot
    BY <2>2, <2>3 DEF Snapshot, Account
  <2> QED
    BY <2>1, <2>2, <2>3, <2>4 DEF Fits
<1> QED
  BY <1>1, <1>2

-----------------------------------------------------------------------------
(* The steps of a sign-in.                                                 *)

\* The sign-in at work, as its step finds it.
LEMMA CallFacts ==
  ASSUME Inv, NEW c \in Calls
  PROVE  /\ call[c] \in CallStates /\ CallOK(call[c], accounts, nextId)
         /\ StoreOK(accounts, nextId) /\ Live = At(accounts)
         /\ accounts \in [Ids -> Account \cup {NoOne}]
  BY DEF Inv, StoreOK, Live, At

LEMMA StartsAndEnds ==
  /\ Idle \in CallStates /\ Done \in CallStates /\ Done.at = "done"
  /\ Idle.cand = Unseen /\ Idle.target = NoOne /\ Idle.rest = {} /\ Idle.canonical = NoOne
<1>1. Unseen \in [Ways -> Snapshot \cup {NoOne}]
  BY DEF Unseen
<1>2. Idle \in CallStates
  BY <1>1 DEF Idle, CallStates, Steps
<1> QED
  BY <1>2 DEF Idle, Done, CallStates, Steps

\* A refused statement ends the sign-in.
LEMMA FailsKeeps ==
  ASSUME Inv, NEW c \in Calls, Fails(c)
  PROVE  Inv'
<1>1. Done \in CallStates /\ CallOK(Done, accounts, nextId)
  BY StartsAndEnds DEF CallOK, Working
<1> QED
  BY <1>1, ReadsKeeps DEF Fails

LEMMA BeginKeeps ==
  ASSUME Inv, NEW c \in Calls, NEW e \in Entries, NEW n \in Names, Begin(c, e, n)
  PROVE  Inv'
<1> DEFINE x == Seen(Named(n))
           k == [Unseen EXCEPT !["typed"] = x]
           s == [Idle EXCEPT !.at = "bind", !.entry = e, !.typed = n, !.cand = k]
<1>1. n \in Own[e]
  BY NamesAssumption DEF Begin, Inv
<1>2. x \in Snapshot \cup {NoOne} /\ (x # NoOne => Fits(x, e, accounts, nextId))
  <2>1. Named(n) \in SUBSET Live /\ \A i \in Named(n) : accounts[i].name \in Own[e]
    BY <1>1 DEF Named
  <2> QED
    BY <2>1, SeenFits
<1> HIDE DEF x
<1>3. /\ k \in [Ways -> Snapshot \cup {NoOne}]
      /\ \A w \in Ways : k[w] = x \/ k[w] = NoOne
  BY <1>2 DEF Unseen, Ways
<1> HIDE DEF k
<1>4. /\ s \in CallStates /\ s.at = "bind" /\ s.entry = e /\ s.canonical = NoOne
      /\ s.cand = k /\ s.target = NoOne /\ s.rest = {}
  BY <1>3, StartsAndEnds DEF CallStates, Steps, Idle
<1>5. CallOK(s, accounts, nextId)
  <2> HIDE DEF s
  <2> QED
    BY <1>2, <1>3, <1>4 DEF CallOK
<1> QED
  BY <1>4, <1>5, ReadsKeeps DEF Begin, x, k

LEMMA LocalPasswordKeeps ==
  ASSUME Inv, NEW c \in Calls, LocalPassword(c)
  PROVE  Inv'
<1> DEFINE s == call[c]
           x == s.cand["typed"]
           t == [s EXCEPT !.at = "session", !.target = x, !.cand = Unseen]
<1>1. /\ s \in CallStates /\ CallOK(s, accounts, nextId) /\ s.at = "bind" /\ x # NoOne
      /\ x \in Snapshot
  BY CallFacts DEF LocalPassword, CallStates, Ways
<1>2. /\ t \in CallStates /\ t.at = "session" /\ t.entry = s.entry /\ t.canonical = s.canonical
      /\ t.cand = Unseen /\ t.target = x /\ t.rest = s.rest
  BY <1>1, StartsAndEnds DEF CallStates, Steps, Unseen
<1>3. s.at \in Working /\ "typed" \in Ways /\ "session" # "rename"
  BY <1>1 DEF Working, Steps, Ways
<1>4. CallOK(t, accounts, nextId)
  <2>1. Fits(x, s.entry, accounts, nextId)
    BY <1>1, <1>3 DEF CallOK
  <2> HIDE DEF s, t, x
  <2> QED
    BY <1>1, <1>2, <1>3, <2>1 DEF CallOK, Unseen
<1> QED
  BY <1>2, <1>4, ReadsKeeps DEF LocalPassword

LEMMA DirectoryAcceptsKeeps ==
  ASSUME Inv, NEW c \in Calls, DirectoryAccepts(c)
  PROVE  Inv'
<1> DEFINE s == call[c]
           t == [s EXCEPT !.at = "byid", !.canonical = called[s.entry]]
<1>1. s \in CallStates /\ CallOK(s, accounts, nextId) /\ s.at = "bind" /\ s.at \in Working
  BY CallFacts DEF DirectoryAccepts, Working, Steps
<1>2. s.entry \in Entries
  BY <1>1 DEF CallOK
<1>3. called[s.entry] \in Names /\ called[s.entry] \in Own[s.entry]
  BY <1>2 DEF Inv
<1>4. /\ t \in CallStates /\ t.at = "byid" /\ t.entry = s.entry
      /\ t.canonical = called[s.entry] /\ t.cand = s.cand /\ t.target = s.target
      /\ t.rest = s.rest
  BY <1>1, <1>3 DEF CallStates, Steps
<1>5. CallOK(t, accounts, nextId)
  <2>1. called[s.entry] # NoOne
    BY <1>3, NoOneAssumption
  <2> HIDE DEF s, t
  <2> QED
    BY <1>1, <1>3, <1>4, <2>1 DEF CallOK
<1> QED
  BY <1>4, <1>5, ReadsKeeps DEF DirectoryAccepts

\* Looking one more candidate up.
LEMMA ConsideredFits ==
  ASSUME Inv, NEW e \in Entries, NEW F \in SUBSET Live,
         \A i \in F : accounts[i].name \in Own[e]
  PROVE  /\ Considered(F) \in Snapshot \cup {NoOne}
         /\ Considered(F) # NoOne => Fits(Considered(F), e, accounts, nextId)
<1> DEFINE G == {i \in F : accounts[i].kind # "service"}
<1>1. G \in SUBSET Live /\ \A i \in G : accounts[i].name \in Own[e]
  OBVIOUS
<1> QED
  BY <1>1, SeenFits DEF Considered

LEMMA CandidateKeeps ==
  ASSUME Inv, NEW c \in Calls, call[c].at \in {"byid", "byname", "bymail"},
         NEW w \in Ways, NEW x \in Snapshot \cup {NoOne},
         x # NoOne => Fits(x, call[c].entry, accounts, nextId),
         NEW p \in {"byname", "bymail"}
  PROVE  /\ [call[c] EXCEPT !.at = p, !.cand[w] = x] \in CallStates
         /\ CallOK([call[c] EXCEPT !.at = p, !.cand[w] = x], accounts, nextId)
         /\ \A v \in Ways : [call[c].cand EXCEPT ![w] = x][v] # NoOne =>
               Fits([call[c].cand EXCEPT ![w] = x][v], call[c].entry, accounts, nextId)
<1> DEFINE s == call[c]
           k == [s.cand EXCEPT ![w] = x]
           t == [s EXCEPT !.at = p, !.cand[w] = x]
<1>1. s \in CallStates /\ CallOK(s, accounts, nextId) /\ s.at \in Working
  BY CallFacts DEF Working, Steps
<1>2. /\ k \in [Ways -> Snapshot \cup {NoOne}]
      /\ \A v \in Ways : (k[v] = x /\ v = w) \/ k[v] = s.cand[v]
  BY <1>1 DEF CallStates
<1>3. \A v \in Ways : k[v] # NoOne => Fits(k[v], s.entry, accounts, nextId)
  <2> HIDE DEF k, s
  <2>1. \A v \in Ways : s.cand[v] # NoOne => Fits(s.cand[v], s.entry, accounts, nextId)
    BY <1>1 DEF CallOK
  <2>2. x # NoOne => Fits(x, s.entry, accounts, nextId)
    BY DEF s
  <2> QED
    BY <1>2, <2>1, <2>2
<1>4. /\ t \in CallStates /\ t.at = p /\ t.entry = s.entry /\ t.canonical = s.canonical
      /\ t.cand = k /\ t.target = s.target /\ t.rest = s.rest
  BY <1>1, <1>2 DEF CallStates, Steps
<1>5. CallOK(t, accounts, nextId)
  <2>1. s.at \notin {"bind", "session"} /\ p \notin {"bind", "session", "rename"}
    OBVIOUS
  <2>2. p \notin {"merge", "namecheck", "rename", "holder", "setid", "grant", "session"}
    OBVIOUS
  <2> HIDE DEF s, t, k
  <2> QED
    BY <1>1, <1>3, <1>4, <2>1, <2>2 DEF CallOK
<1> QED
  BY <1>3, <1>4, <1>5

LEMMA FindByIdKeeps ==
  ASSUME Inv, NEW c \in Calls, FindById(c)
  PROVE  Inv'
<1> DEFINE s == call[c]
           x == IF s.entry \in WithId THEN Considered(Holding(s.entry)) ELSE NoOne
<1>1. s.at = "byid" /\ s.entry \in Entries
  BY CallFacts DEF FindById, CallOK, Working, Steps
<1>2. Holding(s.entry) \in SUBSET Live /\ \A i \in Holding(s.entry) : accounts[i].name \in Own[s.entry]
  BY <1>1, CallFacts DEF Holding, StoreOK
<1>3. x \in Snapshot \cup {NoOne} /\ (x # NoOne => Fits(x, s.entry, accounts, nextId))
  BY <1>1, <1>2, ConsideredFits
<1> HIDE DEF x
<1>4. /\ [s EXCEPT !.at = "byname", !.cand["id"] = x] \in CallStates
      /\ CallOK([s EXCEPT !.at = "byname", !.cand["id"] = x], accounts, nextId)
  <2>1. "id" \in Ways /\ "byname" \in {"byname", "bymail"}
        /\ s.at \in {"byid", "byname", "bymail"}
    BY <1>1 DEF Ways
  <2> QED
    BY <1>3, <2>1, CandidateKeeps, Zenon
<1> QED
  BY <1>4, ReadsKeeps DEF FindById, x

LEMMA FindByNameKeeps ==
  ASSUME Inv, NEW c \in Calls, FindByName(c)
  PROVE  Inv'
<1> DEFINE s == call[c]
           x == Considered(Named(s.canonical))
<1>1. s.at = "byname" /\ s.entry \in Entries /\ s.canonical \in Own[s.entry]
  BY CallFacts DEF FindByName, CallOK, Working, Steps
<1>2. Named(s.canonical) \in SUBSET Live
      /\ \A i \in Named(s.canonical) : accounts[i].name \in Own[s.entry]
  BY <1>1 DEF Named
<1>3. x \in Snapshot \cup {NoOne} /\ (x # NoOne => Fits(x, s.entry, accounts, nextId))
  BY <1>1, <1>2, ConsideredFits
<1> HIDE DEF x
<1>4. /\ [s EXCEPT !.at = "bymail", !.cand["name"] = x] \in CallStates
      /\ CallOK([s EXCEPT !.at = "bymail", !.cand["name"] = x], accounts, nextId)
  <2>1. "name" \in Ways /\ "bymail" \in {"byname", "bymail"}
        /\ s.at \in {"byid", "byname", "bymail"}
    BY <1>1 DEF Ways
  <2> QED
    BY <1>3, <2>1, CandidateKeeps, Zenon
<1> QED
  BY <1>4, ReadsKeeps DEF FindByName, x

\* The target is one of the candidates.
LEMMA TargetIsCandidate ==
  ASSUME NEW k \in [Ways -> Snapshot \cup {NoOne}], NEW n
  PROVE  \/ Target(k, n) = NoOne /\ Pushed(k) = {}
         \/ \E w \in Ways : w \in Pushed(k) /\ k[w] # NoOne /\ Target(k, n) = k[w]
<1> DEFINE named == {w \in Pushed(k) : k[w].name = n}
           pool  == IF named # {} THEN named ELSE Pushed(k)
           best(w) == w \in pool /\ \A v \in pool : ~Precedes(v, w)
<1>1. pool \subseteq Ways /\ \A w \in pool : w \in Pushed(k) /\ k[w] # NoOne
  BY DEF Pushed
<1>2. CASE pool = {}
  BY <1>2 DEF Target
<1>3. CASE pool # {}
  <2>1. \E w \in pool : \A v \in pool : ~Precedes(v, w)
    <3> HIDE DEF pool
    <3>1. CASE "id" \in pool
      BY <1>1, <3>1 DEF Ways, Precedes
    <3>2. CASE "id" \notin pool /\ "name" \in pool
      BY <1>1, <3>2 DEF Ways, Precedes
    <3>3. CASE "id" \notin pool /\ "name" \notin pool /\ "typed" \in pool
      BY <1>1, <3>3 DEF Ways, Precedes
    <3>4. CASE pool = {"mail"}
      BY <3>4 DEF Precedes
    <3> QED
      BY <1>1, <1>3, <3>1, <3>2, <3>3, <3>4 DEF Ways
  <2> DEFINE w == CHOOSE w \in pool : \A v \in pool : ~Precedes(v, w)
  <2>2. w \in pool
    BY <2>1
  <2>3. Target(k, n) = k[w]
    BY <1>3 DEF Target
  <2> QED
    BY <1>1, <2>2, <2>3
<1> QED
  BY <1>2, <1>3

LEMMA FindByMailKeeps ==
  ASSUME Inv, NEW c \in Calls, FindByMail(c)
  PROVE  Inv'
<1> DEFINE s == call[c]
           x == Considered(Named(Mail[s.entry]))
           k == [s.cand EXCEPT !["mail"] = x]
           target == Target(k, s.canonical)
           rest == IF target = NoOne THEN {} ELSE Others(k, target)
           p == IF target = NoOne THEN "create" ELSE IF rest # {} THEN "merge" ELSE "namecheck"
           t == [s EXCEPT !.cand = Unseen, !.target = target, !.rest = rest, !.at = p]
<1>1. /\ s \in CallStates /\ CallOK(s, accounts, nextId) /\ s.at = "bymail"
      /\ s.entry \in Entries /\ s.canonical \in Own[s.entry] /\ s.at \in Working
  BY CallFacts DEF FindByMail, CallOK, Working, Steps
<1>2. Named(Mail[s.entry]) \in SUBSET Live
      /\ \A i \in Named(Mail[s.entry]) : accounts[i].name \in Own[s.entry]
  BY <1>1, NamesAssumption DEF Named
<1>3. x \in Snapshot \cup {NoOne} /\ (x # NoOne => Fits(x, s.entry, accounts, nextId))
  BY <1>1, <1>2, ConsideredFits
<1> HIDE DEF x
<1>4. \A v \in Ways : k[v] # NoOne => Fits(k[v], s.entry, accounts, nextId)
  <2>1. "mail" \in Ways /\ "bymail" \in {"byname", "bymail"}
        /\ s.at \in {"byid", "byname", "bymail"}
    BY <1>1 DEF Ways
  <2> QED
    BY <1>3, <2>1, CandidateKeeps, Zenon
<1>5. k \in [Ways -> Snapshot \cup {NoOne}]
  BY <1>1, <1>3 DEF CallStates
<1> HIDE DEF k
<1>6. target # NoOne => target \in Snapshot /\ Fits(target, s.entry, accounts, nextId)
  <2> HIDE DEF s
  <2> QED
    BY <1>4, <1>5, TargetIsCandidate
<1> HIDE DEF target
<1>7. \A i \in rest : /\ i \in Ids /\ i < nextId
                      /\ i \in At(accounts) => /\ accounts[i].name \in Own[s.entry]
                                               /\ accounts[i].name \notin Roots
  <2>1. SUFFICES ASSUME NEW i \in rest
                 PROVE  /\ i \in Ids /\ i < nextId
                        /\ i \in At(accounts) => /\ accounts[i].name \in Own[s.entry]
                                                 /\ accounts[i].name \notin Roots
    OBVIOUS
  <2>2. PICK w \in Ways : k[w] # NoOne /\ i = k[w].id /\ k[w].name \notin Roots
    BY <2>1 DEF Others, Pushed
  <2>3. k[w] \in Snapshot /\ Fits(k[w], s.entry, accounts, nextId)
    BY <1>4, <1>5, <2>2
  <2> HIDE DEF s
  <2> QED
    BY <2>2, <2>3 DEF Fits, Snapshot
<1>8. rest \in SUBSET Ids
  BY <1>7
<1> HIDE DEF rest
<1>9. /\ t \in CallStates /\ t.at = p /\ t.entry = s.entry /\ t.canonical = s.canonical
      /\ t.cand = Unseen /\ t.target = target /\ t.rest = rest
  <2>1. p \in Steps
    BY DEF Steps
  <2>2. target \in Snapshot \cup {NoOne}
    BY <1>6
  <2>3. Unseen \in [Ways -> Snapshot \cup {NoOne}]
    BY DEF Unseen
  <2> HIDE DEF p
  <2> QED
    BY <1>1, <1>8, <2>1, <2>2, <2>3 DEF CallStates
<1>10. CallOK(t, accounts, nextId)
  <2>1. s.canonical # NoOne
    BY <1>1 DEF CallOK
  <2>2. p # "rename" /\ (p # "create" => target # NoOne) /\ p \in {"create", "merge", "namecheck"}
    OBVIOUS
  <2> HIDE DEF s, t, p
  <2> QED
    BY <1>1, <1>6, <1>7, <1>9, <2>1, <2>2 DEF CallOK, Unseen
<1>11. Reads(c, t)
  BY DEF FindByMail, rest, target, k, x
<1> QED
  BY <1>9, <1>10, <1>11, ReadsKeeps

\* Moving on with the same target.
LEMMA MovesOn ==
  ASSUME NEW a, NEW n, NEW s \in CallStates, CallOK(s, a, n), s.at \in Working,
         s.target # NoOne, s.at \notin {"bind"},
         NEW p \in {"holder", "setid", "grant", "session", "namecheck", "merge"},
         s.canonical # NoOne \/ p = "session"
  PROVE  [s EXCEPT !.at = p] \in CallStates /\ CallOK([s EXCEPT !.at = p], a, n)
<1> DEFINE t == [s EXCEPT !.at = p]
<1>1. /\ t \in CallStates /\ t.at = p /\ t.entry = s.entry /\ t.canonical = s.canonical
      /\ t.cand = s.cand /\ t.target = s.target /\ t.rest = s.rest
  BY DEF CallStates, Steps
<1> HIDE DEF t
<1>2. CallOK(t, a, n)
  BY <1>1 DEF CallOK
<1> QED
  BY <1>1, <1>2 DEF t

LEMMA NameCheckKeeps ==
  ASSUME Inv, NEW c \in Calls, NameCheck(c)
  PROVE  Inv'
<1> DEFINE s == call[c]
           ok == /\ s.target.name # s.canonical
                 /\ ~(Named(s.canonical) \ {s.target.id} # {})
                 /\ s.target.name \notin Roots
                 /\ s.canonical \notin Roots
           t == [s EXCEPT !.at = "rename"]
<1>1. /\ s \in CallStates /\ CallOK(s, accounts, nextId) /\ s.at = "namecheck"
      /\ s.at \in Working /\ s.target # NoOne /\ s.canonical # NoOne
  BY CallFacts DEF NameCheck, CallOK, Working, Steps
<1>2. CASE ok
  <2>1. /\ t \in CallStates /\ t.at = "rename" /\ t.entry = s.entry /\ t.canonical = s.canonical
        /\ t.cand = s.cand /\ t.target = s.target /\ t.rest = s.rest
    BY <1>1 DEF CallStates, Steps
  <2>2. CallOK(t, accounts, nextId)
    <3>1. s.target.name \notin Roots /\ s.canonical \notin Roots
      BY <1>2
    <3> HIDE DEF s, t
    <3> QED
      BY <1>1, <2>1, <3>1 DEF CallOK
  <2>3. Reads(c, t)
    BY <1>2 DEF NameCheck
  <2> QED
    BY <2>1, <2>2, <2>3, ReadsKeeps
<1>3. CASE ~ok
  <2>1. Reads(c, [s EXCEPT !.at = "holder"])
    BY <1>3 DEF NameCheck
  <2>2. [s EXCEPT !.at = "holder"] \in CallStates
        /\ CallOK([s EXCEPT !.at = "holder"], accounts, nextId)
    <3> HIDE DEF s
    <3> QED
      BY <1>1, MovesOn
  <2> QED
    BY <2>1, <2>2, ReadsKeeps
<1> QED
  BY <1>2, <1>3

LEMMA HolderCheckKeeps ==
  ASSUME Inv, NEW c \in Calls, HolderCheck(c)
  PROVE  Inv'
<1> DEFINE s == call[c]
<1>1. /\ s \in CallStates /\ CallOK(s, accounts, nextId) /\ s.at = "holder"
      /\ s.at \in Working /\ s.target # NoOne /\ s.canonical # NoOne
  BY CallFacts DEF HolderCheck, CallOK, Working, Steps
<1>2. PICK p \in {"setid", "session"} : Reads(c, [s EXCEPT !.at = p])
  BY DEF HolderCheck
<1>3. [s EXCEPT !.at = p] \in CallStates /\ CallOK([s EXCEPT !.at = p], accounts, nextId)
  <2> HIDE DEF s
  <2> QED
    BY <1>1, MovesOn
<1> QED
  BY <1>2, <1>3, ReadsKeeps

LEMMA MergeKeeps ==
  ASSUME Inv, NEW c \in Calls, NEW from \in Ids, Merge(c, from)
  PROVE  Inv'
<1> DEFINE s == call[c]
           into == s.target.id
           to == Merged(from, into)
           p == IF s.rest = {from} THEN "namecheck" ELSE "merge"
           t == [s EXCEPT !.rest = s.rest \ {from}, !.at = p]
<1>1. /\ s \in CallStates /\ CallOK(s, accounts, nextId) /\ s.at = "merge"
      /\ s.at \in Working /\ s.target # NoOne /\ s.canonical # NoOne /\ s.entry \in Entries
  BY CallFacts DEF Merge, CallOK, Working, Steps
<1>2. CASE MergeRefused(from, into)
  BY <1>2, FailsKeeps DEF Merge
<1>3. CASE ~MergeRefused(from, into)
  <2>1. Writes(c, t, to) /\ nextId' = nextId /\ from \in s.rest
    BY <1>3 DEF Merge
  <2>2. /\ from \in Live => accounts[from].name \in Own[s.entry]
        /\ into \in Live => accounts[into].name \in Own[s.entry]
        /\ into \in Ids
    <3>1. Live = At(accounts) /\ s.target \in Snapshot
      BY <1>1, CallFacts DEF CallStates
    <3> QED
      BY <1>1, <2>1, <3>1 DEF CallOK, Fits, Snapshot
  <2>3. StoreOK(to, nextId) /\ Grows(accounts, nextId, to, nextId)
    <3> HIDE DEF s, into
    <3> QED
      BY <1>1, <2>2, MergedKeeps
  <2>4. CallOK(s, to, nextId)
    BY <1>1, <2>3, CallStays
  <2>5. /\ t \in CallStates /\ t.at = p /\ t.entry = s.entry /\ t.canonical = s.canonical
        /\ t.cand = s.cand /\ t.target = s.target /\ t.rest = s.rest \ {from}
    <3> HIDE DEF p
    <3>1. p \in Steps /\ s.rest \ {from} \in SUBSET Ids
      BY <1>1 DEF CallStates, Steps, p
    <3> HIDE DEF s
    <3> QED
      BY <1>1, <3>1 DEF CallStates
  <2>6. CallOK(t, to, nextId)
    <3>1. p \in {"namecheck", "merge"}
      OBVIOUS
    <3> HIDE DEF s, t, p, to
    <3> QED
      BY <1>1, <2>4, <2>5, <3>1 DEF CallOK
  <2> QED
    <3> HIDE DEF s, t, to
    <3> QED
      BY <2>1, <2>3, <2>5, <2>6, WritesKeeps
<1> QED
  BY <1>2, <1>3

LEMMA RenameKeeps ==
  ASSUME Inv, NEW c \in Calls, Rename(c)
  PROVE  Inv'
<1> DEFINE s == call[c]
           i == s.target.id
           t == [s EXCEPT !.at = "holder", !.target.name = s.canonical]
           to == IF i \in Live THEN [accounts EXCEPT ![i].name = s.canonical] ELSE accounts
<1>1. /\ s \in CallStates /\ CallOK(s, accounts, nextId) /\ s.at = "rename"
      /\ s.at \in Working /\ s.target # NoOne /\ s.canonical # NoOne /\ s.entry \in Entries
      /\ s.canonical \in Own[s.entry] /\ s.canonical \notin Roots
      /\ s.target.name \notin Roots
  BY CallFacts DEF Rename, CallOK, Working, Steps
<1>2. s.target \in Snapshot /\ s.canonical \in Names /\ i \in Ids
  BY <1>1 DEF CallStates, Snapshot
<1>3. CASE i \in Live /\ Named(s.canonical) \ {i} # {}
  BY <1>3, FailsKeeps DEF Rename
<1>4. CASE ~(i \in Live /\ Named(s.canonical) \ {i} # {})
  <2>1. Writes(c, t, to) /\ nextId' = nextId
    BY <1>4 DEF Rename
  <2>2. StoreOK(to, nextId) /\ Grows(accounts, nextId, to, nextId)
    <3>1. CASE i \in Live
      <4> DEFINE r == [accounts[i] EXCEPT !.name = s.canonical]
      <4>1. accounts[i] \in Account /\ StoreOK(accounts, nextId) /\ i \in At(accounts)
        BY <1>2, <3>1, CallFacts DEF At
      <4>2. /\ r \in Account /\ r.name = s.canonical /\ r.did = accounts[i].did
            /\ r.sessions = accounts[i].sessions
        BY <1>2, <4>1 DEF Account
      <4>3. to = [accounts EXCEPT ![i] = r]
        BY <3>1
      <4>4. \A j \in At(accounts) : j # i => /\ accounts[j].name # r.name
                                             /\ accounts[j].did = r.did => r.did = NoOne
        <5>1. \A j \in At(accounts) : j # i => accounts[j].name # s.canonical
          BY <1>4, <3>1, CallFacts DEF Named
        <5> HIDE DEF r
        <5> QED
          BY <4>1, <4>2, <5>1 DEF StoreOK
      <4>5. accounts[i].name \in Own[s.entry] /\ accounts[i].name \notin Roots
        BY <1>1, <4>1 DEF CallOK, Fits
      <4>6. \A e \in Entries : accounts[i].name \in Own[e] => r.name \in Own[e]
        <5> HIDE DEF r
        <5>1. \A e \in Entries : accounts[i].name \in Own[e] => e = s.entry
          BY <1>1, <4>5, NamesAssumption
        <5> QED
          BY <1>1, <4>2, <5>1
      <4>7. \A e \in Entries : r.did = e \/ e \in r.sessions => r.name \in Own[e]
        <5> HIDE DEF r
        <5>1. \A e \in Entries : accounts[i].did = e \/ e \in accounts[i].sessions
                                  => accounts[i].name \in Own[e]
          BY <4>1 DEF StoreOK
        <5> QED
          BY <4>2, <4>6, <5>1
      <4> HIDE DEF r
      <4>8. StoreOK([accounts EXCEPT ![i] = r], nextId)
            /\ Grows(accounts, nextId, [accounts EXCEPT ![i] = r], nextId)
        BY <1>1, <4>1, <4>2, <4>4, <4>5, <4>6, <4>7, UpdatedKeeps
      <4> QED
        BY <4>3, <4>8
    <3>2. CASE i \notin Live
      <4>1. to = accounts /\ StoreOK(accounts, nextId)
        BY <3>2, CallFacts
      <4>2. nextId \in Nat
        BY <4>1, BoundsAssumption DEF StoreOK
      <4>3. Grows(accounts, nextId, accounts, nextId)
        BY <4>2 DEF Grows
      <4> QED
        BY <4>1, <4>3
    <3> QED
      BY <3>1, <3>2
  <2>3. CallOK(s, to, nextId)
    BY <1>1, <2>2, CallStays
  <2>4. /\ t \in CallStates /\ t.at = "holder" /\ t.entry = s.entry /\ t.canonical = s.canonical
        /\ t.cand = s.cand /\ t.rest = s.rest
        /\ t.target \in Snapshot /\ t.target.id = i /\ t.target.name = s.canonical
    BY <1>1, <1>2 DEF CallStates, Steps, Snapshot
  <2>5. CallOK(t, to, nextId)
    <3>1. Fits(t.target, s.entry, to, nextId)
      <4> HIDE DEF t, to
      <4> QED
        BY <1>1, <2>3, <2>4 DEF CallOK, Fits
    <3>2. t.target # NoOne
      BY <2>4, NoOneAssumption
    <3> HIDE DEF s, t, to
    <3> QED
      BY <1>1, <2>3, <2>4, <3>1, <3>2 DEF CallOK
  <2> QED
    <3> HIDE DEF t, to
    <3> QED
      BY <2>1, <2>2, <2>4, <2>5, WritesKeeps
<1> QED
  BY <1>3, <1>4

\* A row that keeps its name.
LEMMA SameNameKeeps ==
  ASSUME Inv, NEW i \in Live, NEW r \in Account, r.name = accounts[i].name,
         \A j \in Live : j # i => (accounts[j].did = r.did => r.did = NoOne),
         \A e \in Entries : r.did = e \/ e \in r.sessions => r.name \in Own[e]
  PROVE  /\ StoreOK([accounts EXCEPT ![i] = r], nextId)
         /\ Grows(accounts, nextId, [accounts EXCEPT ![i] = r], nextId)
<1>1. StoreOK(accounts, nextId) /\ Live = At(accounts) /\ i \in At(accounts)
  BY DEF Inv, Live, At
<1>2. \A j \in At(accounts) : j # i => /\ accounts[j].name # r.name
                                       /\ accounts[j].did = r.did => r.did = NoOne
  BY <1>1 DEF StoreOK
<1> QED
  BY <1>1, <1>2, UpdatedKeeps

\* The target's row, as a sign-in of its entry finds it.
LEMMA TargetFacts ==
  ASSUME Inv, NEW c \in Calls, call[c].at \in Working, call[c].target # NoOne
  PROVE  /\ call[c].entry \in Entries /\ call[c].target \in Snapshot
         /\ call[c].target.id \in Ids
         /\ call[c].target.id \in Live =>
              /\ accounts[call[c].target.id].name \in Own[call[c].entry]
              /\ accounts[call[c].target.id] \in Account
<1>1. call[c] \in CallStates /\ CallOK(call[c], accounts, nextId) /\ Live = At(accounts)
      /\ accounts \in [Ids -> Account \cup {NoOne}]
  BY CallFacts
<1>2. call[c].target \in Snapshot
  BY <1>1 DEF CallStates
<1> QED
  BY <1>1, <1>2 DEF CallOK, Fits, Snapshot, At

LEMMA SetDirectoryIdKeeps ==
  ASSUME Inv, NEW c \in Calls, SetDirectoryId(c)
  PROVE  Inv'
<1> DEFINE s == call[c]
           i == s.target.id
           r == [accounts[i] EXCEPT !.did = s.entry]
           to == [accounts EXCEPT ![i] = r]
<1>1. /\ s \in CallStates /\ CallOK(s, accounts, nextId) /\ s.at = "setid"
      /\ s.at \in Working /\ s.target # NoOne /\ s.canonical # NoOne
  BY CallFacts DEF SetDirectoryId, CallOK, Working, Steps
<1>2. CASE i \notin Live \/ Holding(s.entry) \ {i} # {}
  BY <1>2, FailsKeeps DEF SetDirectoryId
<1>3. CASE ~(i \notin Live \/ Holding(s.entry) \ {i} # {})
  <2>1. Writes(c, [s EXCEPT !.at = "session"], to) /\ nextId' = nextId
    BY <1>3 DEF SetDirectoryId
  <2>2. s.entry \in Entries /\ accounts[i].name \in Own[s.entry] /\ accounts[i] \in Account
    BY <1>1, <1>3, TargetFacts
  <2>3. /\ r \in Account /\ r.name = accounts[i].name /\ r.did = s.entry
        /\ r.sessions = accounts[i].sessions
    BY <2>2 DEF Account
  <2> HIDE DEF r
  <2>4. \A j \in Live : j # i => accounts[j].did # r.did
    BY <1>3, <2>3 DEF Holding
  <2>5. \A e \in Entries : r.did = e \/ e \in r.sessions => r.name \in Own[e]
    BY <1>3, <2>2, <2>3, CallFacts DEF StoreOK
  <2>6. StoreOK(to, nextId) /\ Grows(accounts, nextId, to, nextId)
    BY <1>3, <2>3, <2>4, <2>5, SameNameKeeps
  <2>7. CallOK(s, to, nextId)
    BY <1>1, <2>6, CallStays
  <2> HIDE DEF s, to
  <2>8. [s EXCEPT !.at = "session"] \in CallStates
        /\ CallOK([s EXCEPT !.at = "session"], to, nextId)
    BY <1>1, <2>7, MovesOn
  <2> QED
    BY <2>1, <2>6, <2>8, WritesKeeps
<1> QED
  BY <1>2, <1>3

LEMMA OidcBeginKeeps ==
  ASSUME Inv, NEW c \in Calls, NEW e \in Entries, OidcBegin(c, e)
  PROVE  Inv'
<1> DEFINE s == [Idle EXCEPT !.at = "oidc", !.entry = e, !.canonical = called[e]]
<1>1. called[e] \in Own[e] /\ called[e] \in Names
  BY DEF Inv
<1>2. /\ s \in CallStates /\ s.at = "oidc" /\ s.entry = e /\ s.canonical = called[e]
      /\ s.cand = Unseen /\ s.target = NoOne /\ s.rest = {}
  BY <1>1, StartsAndEnds DEF CallStates, Steps, Idle
<1>3. CallOK(s, accounts, nextId)
  <2>1. called[e] # NoOne
    BY <1>1, NoOneAssumption
  <2> HIDE DEF s
  <2> QED
    BY <1>1, <1>2, <2>1 DEF CallOK, Unseen
<1> QED
  BY <1>2, <1>3, ReadsKeeps DEF OidcBegin

\* The row found under the canonical name becomes the target.
LEMMA FoundKeeps ==
  ASSUME Inv, NEW c \in Calls, call[c].at \in {"oidc", "created"},
         NEW p \in {"create", "grant", "setid", "session"},
         p # "create" => Seen(Named(call[c].canonical)) # NoOne
  PROVE  LET t == [call[c] EXCEPT !.target = Seen(Named(call[c].canonical)), !.at = p]
         IN t \in CallStates /\ CallOK(t, accounts, nextId)
<1> DEFINE s == call[c]
           x == Seen(Named(s.canonical))
           t == [s EXCEPT !.target = x, !.at = p]
<1>1. /\ s \in CallStates /\ CallOK(s, accounts, nextId)
      /\ s.entry \in Entries /\ s.canonical \in Own[s.entry] /\ s.at \in Working
      /\ s.canonical # NoOne
  BY CallFacts DEF CallOK, Working, Steps
<1>2. Named(s.canonical) \in SUBSET Live
      /\ \A i \in Named(s.canonical) : accounts[i].name \in Own[s.entry]
  BY <1>1 DEF Named
<1>3. x \in Snapshot \cup {NoOne} /\ (x # NoOne => Fits(x, s.entry, accounts, nextId))
  BY <1>1, <1>2, SeenFits
<1>4. p # "create" => x # NoOne
  OBVIOUS
<1> HIDE DEF x
<1>5. /\ t \in CallStates /\ t.at = p /\ t.entry = s.entry /\ t.canonical = s.canonical
      /\ t.cand = s.cand /\ t.target = x /\ t.rest = s.rest
  <2>1. p \in Steps
    BY DEF Steps
  <2> HIDE DEF s
  <2> QED
    BY <1>1, <1>3, <2>1 DEF CallStates
<1>6. CallOK(t, accounts, nextId)
  <2> HIDE DEF s, t
  <2> QED
    BY <1>1, <1>3, <1>4, <1>5 DEF CallOK
<1> QED
  BY <1>5, <1>6 DEF x

LEMMA OidcFindKeeps ==
  ASSUME Inv, NEW c \in Calls, OidcFind(c)
  PROVE  Inv'
<1> DEFINE x == Seen(Named(call[c].canonical))
<1>1. CASE x # NoOne /\ accounts[x.id].kind = "service"
  BY <1>1, FailsKeeps DEF OidcFind
<1>2. CASE ~(x # NoOne /\ accounts[x.id].kind = "service")
  <2> DEFINE p == IF x = NoOne THEN "create" ELSE "grant"
  <2>0. Reads(c, [call[c] EXCEPT !.target = x, !.at = p])
    BY <1>2, Zenon DEF OidcFind
  <2>1. p \in {"create", "grant", "setid", "session"} /\ (p # "create" => x # NoOne)
    OBVIOUS
  <2> HIDE DEF p
  <2>2. call[c].at \in {"oidc", "created"}
    BY DEF OidcFind
  <2>3. /\ [call[c] EXCEPT !.target = x, !.at = p] \in CallStates
        /\ CallOK([call[c] EXCEPT !.target = x, !.at = p], accounts, nextId)
    BY <2>1, <2>2, FoundKeeps, Zenon
  <2> QED
    BY <2>0, <2>3, ReadsKeeps
<1> QED
  BY <1>1, <1>2

LEMMA CreatedKeeps ==
  ASSUME Inv, NEW c \in Calls, Created(c)
  PROVE  Inv'
<1> DEFINE x == Seen(Named(call[c].canonical))
<1>1. CASE x = NoOne
  BY <1>1, FailsKeeps DEF Created
<1>2. CASE x # NoOne
  <2> DEFINE p == IF call[c].typed = NoOne THEN "grant"
                  ELSE IF call[c].entry \in WithId THEN "setid" ELSE "session"
  <2>0. Reads(c, [call[c] EXCEPT !.target = x, !.at = p])
    BY <1>2, Zenon DEF Created
  <2>1. p \in {"create", "grant", "setid", "session"}
    OBVIOUS
  <2> HIDE DEF p
  <2>2. call[c].at \in {"oidc", "created"}
    BY DEF Created
  <2>3. /\ [call[c] EXCEPT !.target = x, !.at = p] \in CallStates
        /\ CallOK([call[c] EXCEPT !.target = x, !.at = p], accounts, nextId)
    BY <1>2, <2>1, <2>2, FoundKeeps, Zenon
  <2> QED
    BY <2>0, <2>3, ReadsKeeps
<1> QED
  BY <1>1, <1>2

LEMMA CreateKeeps ==
  ASSUME Inv, NEW c \in Calls, Create(c)
  PROVE  Inv'
<1> DEFINE s == call[c]
           t == [s EXCEPT !.at = "created"]
           to == [accounts EXCEPT ![nextId] = NewAccount(s.canonical, "person")]
<1>1. /\ s \in CallStates /\ CallOK(s, accounts, nextId) /\ s.at = "create"
      /\ s.at \in Working /\ s.canonical # NoOne
  BY CallFacts DEF Create, CallOK, Working, Steps
<1>2. CASE Named(s.canonical) # {}
  BY <1>2, FailsKeeps DEF Create
<1>3. CASE Named(s.canonical) = {}
  <2>1. Writes(c, t, to) /\ nextId' = nextId + 1 /\ nextId <= MaxId
    BY <1>3 DEF Create, FreshId
  <2>2. StoreOK(to, nextId + 1) /\ Grows(accounts, nextId, to, nextId + 1)
    <3>1. s.canonical \in Names /\ \A i \in At(accounts) : accounts[i].name # s.canonical
      BY <1>1, <1>3, CallFacts DEF CallStates, Named
    <3> HIDE DEF s
    <3> QED
      BY <2>1, <3>1, AddedKeeps, CallFacts
  <2>3. CallOK(s, to, nextId + 1)
    BY <1>1, <2>2, CallStays
  <2>4. /\ t \in CallStates /\ t.at = "created" /\ t.entry = s.entry /\ t.canonical = s.canonical
        /\ t.cand = s.cand /\ t.target = s.target /\ t.rest = s.rest
    BY <1>1 DEF CallStates, Steps
  <2>5. CallOK(t, to, nextId + 1)
    <3> HIDE DEF s, t, to
    <3> QED
      BY <1>1, <2>3, <2>4 DEF CallOK
  <2> HIDE DEF t, to
  <2> QED
    BY <2>1, <2>2, <2>4, <2>5, WritesKeeps
<1> QED
  BY <1>2, <1>3

LEMMA GrantKeeps ==
  ASSUME Inv, NEW c \in Calls, NEW inGroup \in BOOLEAN, Grant(c, inGroup)
  PROVE  Inv'
<1> DEFINE s == call[c]
           i == s.target.id
           t == [s EXCEPT !.at = "session"]
           r == [accounts[i] EXCEPT !.owns = @ \cup {Admin}]
           to == [accounts EXCEPT ![i] = r]
<1>1. /\ s \in CallStates /\ CallOK(s, accounts, nextId) /\ s.at = "grant"
      /\ s.at \in Working /\ s.target # NoOne /\ s.canonical # NoOne
  BY CallFacts DEF Grant, CallOK, Working, Steps
<1>2. t \in CallStates /\ CallOK(t, accounts, nextId)
  <2> HIDE DEF s
  <2> QED
    BY <1>1, MovesOn
<1>3. CASE ~inGroup
  BY <1>2, <1>3, ReadsKeeps DEF Grant
<1>4. CASE inGroup /\ i \notin Live
  BY <1>4, FailsKeeps DEF Grant
<1>5. CASE inGroup /\ i \in Live
  <2>1. Writes(c, t, to) /\ nextId' = nextId
    BY <1>5 DEF Grant
  <2>2. accounts[i] \in Account
    BY <1>1, <1>5, TargetFacts
  <2>3. /\ r \in Account /\ r.name = accounts[i].name /\ r.did = accounts[i].did
        /\ r.sessions = accounts[i].sessions
    BY <2>2, NamesAssumption DEF Account
  <2> HIDE DEF r
  <2>4. \A j \in Live : j # i => (accounts[j].did = r.did => r.did = NoOne)
    BY <1>5, <2>3, CallFacts DEF StoreOK
  <2>5. \A e \in Entries : r.did = e \/ e \in r.sessions => r.name \in Own[e]
    BY <1>5, <2>3, CallFacts DEF StoreOK
  <2>6. StoreOK(to, nextId) /\ Grows(accounts, nextId, to, nextId)
    BY <1>5, <2>3, <2>4, <2>5, SameNameKeeps
  <2>7. CallOK(t, to, nextId)
    BY <1>2, <2>6, CallStays
  <2> HIDE DEF t, to
  <2> QED
    BY <1>2, <2>1, <2>6, <2>7, WritesKeeps
<1> QED
  BY <1>3, <1>4, <1>5

LEMMA SessionKeeps ==
  ASSUME Inv, NEW c \in Calls, Session(c)
  PROVE  Inv'
<1> DEFINE s == call[c]
           i == s.target.id
           r == [accounts[i] EXCEPT !.sessions = @ \cup {s.entry}]
           to == [accounts EXCEPT ![i] = r]
<1>1. /\ s \in CallStates /\ CallOK(s, accounts, nextId) /\ s.at = "session"
      /\ s.at \in Working /\ s.target # NoOne
  BY CallFacts DEF Session, CallOK, Working, Steps
<1>2. CASE i \notin Live
  BY <1>2, FailsKeeps DEF Session
<1>3. CASE i \in Live
  <2>1. Writes(c, Done, to) /\ nextId' = nextId
    BY <1>3 DEF Session
  <2>2. s.entry \in Entries /\ accounts[i].name \in Own[s.entry] /\ accounts[i] \in Account
    BY <1>1, <1>3, TargetFacts
  <2>3. /\ r \in Account /\ r.name = accounts[i].name /\ r.did = accounts[i].did
        /\ r.sessions = accounts[i].sessions \cup {s.entry}
    BY <2>2 DEF Account
  <2> HIDE DEF r
  <2>4. \A j \in Live : j # i => (accounts[j].did = r.did => r.did = NoOne)
    BY <1>3, <2>3, CallFacts DEF StoreOK
  <2>5. \A e \in Entries : r.did = e \/ e \in r.sessions => r.name \in Own[e]
    BY <1>3, <2>2, <2>3, CallFacts DEF StoreOK
  <2>6. StoreOK(to, nextId) /\ Grows(accounts, nextId, to, nextId)
    BY <1>3, <2>3, <2>4, <2>5, SameNameKeeps
  <2>7. Done \in CallStates /\ CallOK(Done, to, nextId)
    BY StartsAndEnds DEF CallOK, Working
  <2> HIDE DEF to
  <2> QED
    BY <2>1, <2>6, <2>7, WritesKeeps
<1> QED
  BY <1>2, <1>3

-----------------------------------------------------------------------------
(* The steps of everyone else.                                             *)

LEMMA RegisterKeeps ==
  ASSUME Inv, NEW n \in Names, NEW k \in {"person", "service"}, Register(n, k)
  PROVE  Inv'
<1>1. /\ accounts' = [accounts EXCEPT ![nextId] = NewAccount(n, k)]
      /\ nextId' = nextId + 1 /\ nextId <= MaxId /\ Elsewhere /\ called' = called
  BY DEF Register, FreshId
<1>2. StoreOK(accounts, nextId) /\ \A i \in At(accounts) : accounts[i].name # n
  BY DEF Register, Named, Live, At, Inv
<1>3. StoreOK(accounts', nextId') /\ Grows(accounts, nextId, accounts', nextId')
  BY <1>1, <1>2, AddedKeeps
<1> QED
  BY <1>1, <1>3, ElsewhereKeeps DEF Inv

LEMMA DeleteUserKeeps ==
  ASSUME Inv, NEW i \in Ids, DeleteUser(i)
  PROVE  Inv'
<1>1. /\ accounts' = [accounts EXCEPT ![i] = NoOne] /\ nextId' = nextId /\ Elsewhere
      /\ called' = called
  BY DEF DeleteUser
<1>2. StoreOK(accounts', nextId') /\ Grows(accounts, nextId, accounts', nextId')
  BY <1>1, RemovedKeeps DEF Inv
<1> QED
  BY <1>1, <1>2, ElsewhereKeeps DEF Inv

LEMMA AcquireKeeps ==
  ASSUME Inv, NEW i \in Ids, NEW x \in Things, Acquire(i, x)
  PROVE  Inv'
<1> DEFINE r == [accounts[i] EXCEPT !.owns = @ \cup {x}]
<1>1. /\ accounts' = [accounts EXCEPT ![i] = r] /\ nextId' = nextId /\ Elsewhere
      /\ called' = called /\ i \in Live
  BY DEF Acquire
<1>2. accounts[i] \in Account /\ StoreOK(accounts, nextId) /\ Live = At(accounts)
  BY <1>1 DEF Inv, StoreOK, Live, At
<1>3. /\ r \in Account /\ r.name = accounts[i].name /\ r.did = accounts[i].did
      /\ r.sessions = accounts[i].sessions
  BY <1>2 DEF Account
<1> HIDE DEF r
<1>4. \A j \in Live : j # i => (accounts[j].did = r.did => r.did = NoOne)
  BY <1>1, <1>2, <1>3 DEF StoreOK
<1>5. \A e \in Entries : r.did = e \/ e \in r.sessions => r.name \in Own[e]
  BY <1>1, <1>2, <1>3 DEF StoreOK
<1>6. StoreOK(accounts', nextId') /\ Grows(accounts, nextId, accounts', nextId')
  BY <1>1, <1>3, <1>4, <1>5, SameNameKeeps
<1> QED
  BY <1>1, <1>6, ElsewhereKeeps DEF Inv

LEMMA DirectoryRenamesKeeps ==
  ASSUME Inv, NEW e \in Entries, NEW n \in Names, DirectoryRenames(e, n)
  PROVE  Inv'
<1>1. /\ accounts' = accounts /\ nextId' = nextId /\ Elsewhere /\ n \in Own[e]
      /\ called' = [called EXCEPT ![e] = n]
  BY DEF DirectoryRenames
<1>2. called' \in [Entries -> Names] /\ \A f \in Entries : called'[f] \in Own[f]
  BY <1>1 DEF Inv
<1>3. StoreOK(accounts', nextId') /\ Grows(accounts, nextId, accounts', nextId')
  <2>1. nextId \in Nat
    BY BoundsAssumption DEF Inv, StoreOK
  <2> QED
    BY <1>1, <2>1 DEF Inv, Grows
<1> QED
  BY <1>1, <1>2, <1>3, ElsewhereKeeps

-----------------------------------------------------------------------------
(* The theorems.                                                           *)

LEMMA InitGivesInv == Init => Inv
<1>1. SUFFICES ASSUME Init PROVE Inv
  OBVIOUS
<1>2. accounts \in [Ids -> Account \cup {NoOne}] /\ accounts \in Earlier
  BY <1>1 DEF Init, Earlier
<1>3. \A i \in At(accounts) : i \in Ids /\ accounts[i] \in Account /\ accounts[i] # NoOne
                              /\ accounts[i].sessions = {}
  BY <1>2, NoOneAssumption DEF At, Earlier
<1>4. \A i \in At(accounts) : i < nextId
  BY <1>1, <1>2, BoundsAssumption DEF At, Earlier, Init, Ids
<1>5. nextId \in 1 .. MaxId + 1
  BY <1>1, BoundsAssumption DEF Init
<1>6. \A i, j \in At(accounts) : i # j =>
        /\ accounts[i].name # accounts[j].name
        /\ accounts[i].did = accounts[j].did => accounts[i].did = NoOne
  BY <1>2, <1>3 DEF Earlier
<1>7. \A i \in At(accounts), e \in Entries :
        accounts[i].did = e \/ e \in accounts[i].sessions => accounts[i].name \in Own[e]
  <2>1. \A e \in Entries : e # NoOne
    BY NoOneAssumption
  <2> QED
    BY <1>2, <1>3, <2>1 DEF Earlier
<1>8. StoreOK(accounts, nextId)
  BY <1>2, <1>4, <1>5, <1>6, <1>7 DEF StoreOK
<1>9. ASSUME NEW c \in Calls PROVE call[c] = Idle /\ CallOK(Idle, accounts, nextId)
  BY <1>1 DEF Init, CallOK, Working, Idle
<1>10. call \in [Calls -> CallStates]
  BY <1>1, StartsAndEnds DEF Init
<1>11. others \in 0 .. MaxOthers
  BY <1>1, BoundsAssumption DEF Init
<1> QED
  BY <1>1, <1>8, <1>9, <1>10, <1>11 DEF Init, Inv

LEMMA SignInKeeps ==
  ASSUME Inv, NEW c \in Calls, SignInStep(c)
  PROVE  Inv'
<1>1. CASE \E e \in Entries, n \in Names : Begin(c, e, n)
  BY <1>1, BeginKeeps
<1>2. CASE LocalPassword(c) \/ DirectoryAccepts(c)
  BY <1>2, LocalPasswordKeeps, DirectoryAcceptsKeeps
<1>3. CASE FindById(c) \/ FindByName(c) \/ FindByMail(c)
  BY <1>3, FindByIdKeeps, FindByNameKeeps, FindByMailKeeps
<1>4. CASE \E i \in Ids : Merge(c, i)
  BY <1>4, MergeKeeps
<1>5. CASE NameCheck(c) \/ Rename(c) \/ HolderCheck(c) \/ SetDirectoryId(c)
  BY <1>5, NameCheckKeeps, RenameKeeps, HolderCheckKeeps, SetDirectoryIdKeeps
<1>6. CASE \E e \in Entries : OidcBegin(c, e)
  BY <1>6, OidcBeginKeeps
<1>7. CASE OidcFind(c) \/ Create(c) \/ Created(c) \/ Session(c)
  BY <1>7, OidcFindKeeps, CreateKeeps, CreatedKeeps, SessionKeeps
<1>8. CASE \E inGroup \in BOOLEAN : Grant(c, inGroup)
  BY <1>8, GrantKeeps
<1> QED
  BY <1>1, <1>2, <1>3, <1>4, <1>5, <1>6, <1>7, <1>8 DEF SignInStep

LEMMA OtherKeeps ==
  ASSUME Inv, Other
  PROVE  Inv'
<1>1. CASE \E n \in Names, k \in {"person", "service"} : Register(n, k)
  BY <1>1, RegisterKeeps
<1>2. CASE \E i \in Ids : DeleteUser(i)
  BY <1>2, DeleteUserKeeps
<1>3. CASE \E i \in Ids, x \in Things : Acquire(i, x)
  BY <1>3, AcquireKeeps
<1>4. CASE \E e \in Entries, n \in Names : DirectoryRenames(e, n)
  BY <1>4, DirectoryRenamesKeeps
<1> QED
  BY <1>1, <1>2, <1>3, <1>4 DEF Other

LEMMA InvInductive == Spec => []Inv
<1>1. Init => Inv
  BY InitGivesInv
<1>2. Inv /\ [Next]_vars => Inv'
  <2>1. SUFFICES ASSUME Inv, [Next]_vars PROVE Inv'
    OBVIOUS
  <2>2. CASE Other
    BY <2>1, <2>2, OtherKeeps
  <2>3. CASE \E c \in Calls : SignInStep(c)
    BY <2>1, <2>3, SignInKeeps
  <2>4. CASE UNCHANGED vars
    <3>1. /\ accounts' = accounts /\ nextId' = nextId /\ called' = called
          /\ others' = others /\ call' = call
      BY <2>4 DEF vars
    <3> QED
      BY <2>1, <3>1 DEF Inv
  <2> QED
    BY <2>1, <2>2, <2>3, <2>4 DEF Next
<1> QED
  BY <1>1, <1>2, PTL DEF Spec

\* Types and the unique indexes hold whatever interleaves.
THEOREM TypeCorrect == Spec => []TypeOK
<1>1. Inv => TypeOK
  BY InvGivesProperties
<1> QED
  BY <1>1, InvInductive, PTL

\* No sign-in mixes two people, for every directory and any number of
\* concurrent sign-ins.
THEOREM PeopleStayApart == Spec => []NobodyElsesAccount
<1>1. Inv => NobodyElsesAccount
  BY InvGivesProperties
<1> QED
  BY <1>1, InvInductive, PTL

-----------------------------------------------------------------------------
(* One account per person.  A sign-in nobody disturbs knows, at every step  *)
(* of directory_account, which accounts are the person's: the candidates   *)
(* it has found, then the target and what is still to be folded into it.   *)

\* The rows a query finds in a store.
HoldingIn(e, a) == {i \in At(a) : a[i].did = e}

NamedIn(n, a) == {i \in At(a) : a[i].name = n}

\* The accounts of the person that signs in.
MineIn(s, a) ==
  {i \in At(a) : a[i].did = s.entry \/ a[i].name \in {s.canonical, s.typed, Mail[s.entry]}}

\* A root name or a service account is in the way.
InTheWay(s, a) ==
  \/ s.canonical \in Roots
  \/ \E i \in MineIn(s, a) : a[i].name \in Roots \/ a[i].kind = "service"

\* The candidate x is what there is among the accounts found.
Shows(x, found, a) ==
  /\ x = NoOne => \A i \in found : a[i].kind = "service"
  /\ x # NoOne => found = {x.id} /\ a[x.id].name = x.name /\ a[x.id].kind # "service"

\* Before the candidates are complete.
Looking(s, a) ==
  /\ s.typed # NoOne => Shows(s.cand["typed"], NamedIn(s.typed, a), a)
  /\ s.at = "bind" => s.canonical = NoOne
  /\ s.at \in {"byname", "bymail"} =>
       IF s.entry \in WithId THEN Shows(s.cand["id"], HoldingIn(s.entry, a), a)
       ELSE s.cand["id"] = NoOne
  /\ s.at = "bymail" => Shows(s.cand["name"], NamedIn(s.canonical, a), a)

\* From then on, when nothing is in the way.
Knows(s, a) ==
  /\ s.at = "create" => MineIn(s, a) = {}
  /\ s.at = "created" => \E i \in At(a) : MineIn(s, a) = {i} /\ a[i].name = s.canonical
  /\ s.at \in {"merge", "namecheck", "rename"} =>
       MineIn(s, a) = s.rest \cup {s.target.id} /\ a[s.target.id].name = s.target.name
  /\ s.at \in {"holder", "setid", "session"} =>
       MineIn(s, a) = {s.target.id} /\ a[s.target.id].name = s.canonical
  /\ s.at = "session" /\ s.entry \in WithId => a[s.target.id].did = s.entry

Folding(s, a) ==
  /\ s.at \in {"bind", "byid", "byname", "bymail"} => s.typed # NoOne /\ Looking(s, a)
  /\ s.at \notin {"bind", "byid", "byname", "bymail"} /\ s.typed # NoOne /\ s.canonical # NoOne =>
       /\ \A i \in s.rest : i \in At(a) => a[i].kind # "service"
       /\ InTheWay(s, a) \/ Knows(s, a)

\* What a sign-in knows whatever others do: nothing is folded into itself, only
\* an entry with an id is stamped, and an OIDC sign-in has no typed name.
Apart(s) ==
  /\ s.at # "merge" => s.rest = {}
  /\ s.target # NoOne => s.target.id \notin s.rest
  /\ s.at = "setid" => s.entry \in WithId
  /\ s.at \in {"oidc", "grant"} => s.typed = NoOne

Stamped(a) == \A i \in At(a) : a[i].did # NoOne => a[i].did \in WithId

FoldInv ==
  /\ Stamped(accounts)
  /\ \A c \in Calls : Apart(call[c])
  /\ \A c \in Calls : call[c].alone /\ call[c].at \in Working => Folding(call[c], accounts)

LEMMA AtIsLive == Live = At(accounts)
  BY DEF Live, At

\* A step of sign-in c that only reads.
LEMMA ReadsFold ==
  ASSUME Inv, FoldInv, NEW c \in Calls, NEW s \in CallStates, Reads(c, s), Apart(s),
         s.alone /\ s.at \in Working => Folding(s, accounts)
  PROVE  FoldInv'
<1>1. accounts' = accounts /\ call' = [call EXCEPT ![c] = s] /\ call \in [Calls -> CallStates]
  BY DEF Reads, Inv
<1>2. \A d \in Calls : call'[d] = IF d = c THEN s ELSE call[d]
  BY <1>1
<1> QED
  BY <1>1, <1>2 DEF FoldInv

\* Whoever is disturbed is alone no more.
LEMMA DisturbedFold ==
  ASSUME Inv, FoldInv, NEW d \in Calls
  PROVE  Apart(Disturbed(d)) /\ ~(Disturbed(d).alone /\ Disturbed(d).at \in Working)
<1> DEFINE s == call[d]
           t == [s EXCEPT !.alone = FALSE]
<1>1. s \in CallStates /\ Apart(s)
  BY DEF Inv, FoldInv
<1>2. CASE s.at \in {"idle", "done"}
  BY <1>1, <1>2 DEF Disturbed, Working
<1>3. CASE s.at \notin {"idle", "done"}
  <2>1. Disturbed(d) = t
    BY <1>3 DEF Disturbed
  <2>2. /\ t.alone = FALSE /\ t.at = s.at /\ t.rest = s.rest /\ t.target = s.target
        /\ t.entry = s.entry /\ t.typed = s.typed
    BY <1>1 DEF CallStates
  <2> HIDE DEF t, s
  <2> QED
    BY <1>1, <2>1, <2>2 DEF Apart
<1> QED
  BY <1>2, <1>3

\* A step of sign-in c that writes.
LEMMA WritesFold ==
  ASSUME Inv, FoldInv, NEW c \in Calls, NEW s \in CallStates, NEW to, Writes(c, s, to),
         Stamped(to), Apart(s), s.alone /\ s.at \in Working => Folding(s, to)
  PROVE  FoldInv'
<1>1. /\ accounts' = to
      /\ call' = [d \in Calls |-> IF d = c THEN s
                                  ELSE IF to = accounts THEN call[d] ELSE Disturbed(d)]
  BY DEF Writes
<1>2. ASSUME NEW d \in Calls
      PROVE  Apart(call'[d]) /\ (call'[d].alone /\ call'[d].at \in Working => Folding(call'[d], to))
  <2>1. CASE d = c
    BY <1>1, <2>1
  <2>2. CASE d # c /\ to = accounts
    BY <1>1, <2>2 DEF FoldInv
  <2>3. CASE d # c /\ to # accounts
    <3>1. call'[d] = Disturbed(d)
      BY <1>1, <2>3
    <3> QED
      BY <3>1, DisturbedFold
  <2> QED
    BY <2>1, <2>2, <2>3
<1>3. \A d \in Calls : /\ Apart(call'[d])
                       /\ call'[d].alone /\ call'[d].at \in Working => Folding(call'[d], accounts')
  BY <1>1, <1>2
<1>4. Stamped(accounts')
  BY <1>1
<1> QED
  BY <1>3, <1>4 DEF FoldInv

\* A step of anyone else.
LEMMA ElsewhereFold ==
  ASSUME Inv, FoldInv, Elsewhere, Stamped(accounts')
  PROVE  FoldInv'
<1>1. \A d \in Calls : call'[d] = Disturbed(d)
  BY DEF Elsewhere
<1>2. \A d \in Calls : Apart(call'[d]) /\ ~(call'[d].alone /\ call'[d].at \in Working)
  BY <1>1, DisturbedFold
<1> QED
  BY <1>2 DEF FoldInv

LEMMA FailsFold ==
  ASSUME Inv, FoldInv, NEW c \in Calls, Fails(c)
  PROVE  FoldInv'
<1>1. Done \in CallStates /\ Done.at = "done" /\ Done.rest = {} /\ Done.target = NoOne
  BY StartsAndEnds DEF Done, Idle
<1>2. Apart(Done) /\ Done.at \notin Working
  BY <1>1 DEF Apart, Working
<1> QED
  BY <1>1, <1>2, ReadsFold DEF Fails

\* Names and ids are unique: a query finds at most one row.
LEMMA OneRow ==
  ASSUME Inv, NEW n
  PROVE  /\ \A i, j \in NamedIn(n, accounts) : i = j
         /\ n # NoOne => \A i, j \in HoldingIn(n, accounts) : i = j
         /\ Named(n) = NamedIn(n, accounts) /\ Holding(n) = HoldingIn(n, accounts)
<1>1. Named(n) = NamedIn(n, accounts) /\ Holding(n) = HoldingIn(n, accounts)
  BY AtIsLive DEF Named, Holding, NamedIn, HoldingIn
<1>2. StoreOK(accounts, nextId)
  BY DEF Inv
<1>3. \A i, j \in NamedIn(n, accounts) : i = j
  BY <1>2 DEF StoreOK, NamedIn
<1>4. n # NoOne => \A i, j \in HoldingIn(n, accounts) : i = j
  BY <1>2 DEF StoreOK, HoldingIn
<1> QED
  BY <1>1, <1>3, <1>4

\* What Seen and Considered return shows what was found.
LEMMA SeenShows ==
  ASSUME Inv, NEW found \in SUBSET Live, \A i, j \in found : i = j
  PROVE  /\ (\A i \in found : accounts[i].kind # "service") => Shows(Seen(found), found, accounts)
         /\ Shows(Considered(found), found, accounts)
<1>1. ASSUME NEW S \in SUBSET found, \A i \in S : accounts[i].kind # "service",
             \A i \in found \ S : accounts[i].kind = "service"
      PROVE  Shows(Seen(S), found, accounts)
  <2>1. CASE S = {}
    <3>1. Seen(S) = NoOne
      BY <2>1 DEF Seen
    <3> QED
      BY <1>1, <2>1, <3>1 DEF Shows
  <2>2. CASE S # {}
    <3> DEFINE i == CHOOSE i \in S : TRUE
    <3>1. i \in S /\ found = {i} /\ i \in Ids /\ i \in At(accounts)
      BY <2>2, AtIsLive DEF At
    <3>2. Seen(S) = [id |-> i, name |-> accounts[i].name]
      BY <2>2 DEF Seen
    <3>3. accounts[i].name \in Names
      BY <3>1 DEF Inv, StoreOK, At, Account
    <3>4. Seen(S) \in Snapshot /\ Seen(S).id = i /\ Seen(S).name = accounts[i].name
      BY <3>1, <3>2, <3>3 DEF Snapshot
    <3>5. Seen(S) # NoOne
      BY <3>4, NoOneAssumption
    <3> HIDE DEF i
    <3> QED
      BY <1>1, <3>1, <3>4, <3>5 DEF Shows
  <2> QED
    BY <2>1, <2>2
<1>2. (\A i \in found : accounts[i].kind # "service") => Shows(Seen(found), found, accounts)
  BY <1>1
<1>3. Shows(Considered(found), found, accounts)
  <2> DEFINE S == {i \in found : accounts[i].kind # "service"}
  <2>1. Shows(Seen(S), found, accounts)
    BY <1>1
  <2> QED
    BY <2>1 DEF Considered
<1> QED
  BY <1>2, <1>3

\* Every account found is among the candidates that are kept.
LEMMA FoundTogether ==
  ASSUME NEW k \in [Ways -> Snapshot \cup {NoOne}], NEW w \in Ways, k[w] # NoOne
  PROVE  \E v \in Pushed(k) : k[w].id = k[v].id
<1> DEFINE same == {v \in Ways : k[v] # NoOne /\ k[v].id = k[w].id}
<1>1. w \in same /\ same \subseteq Ways
  OBVIOUS
<1>2. \E v \in same : \A u \in same : ~Precedes(u, v)
  <2> HIDE DEF same
  <2>1. CASE "id" \in same
    BY <1>1, <2>1 DEF Ways, Precedes
  <2>2. CASE "id" \notin same /\ "name" \in same
    BY <1>1, <2>2 DEF Ways, Precedes
  <2>3. CASE "id" \notin same /\ "name" \notin same /\ "typed" \in same
    BY <1>1, <2>3 DEF Ways, Precedes
  <2>4. CASE same = {"mail"}
    BY <2>4 DEF Precedes
  <2> QED
    BY <1>1, <2>1, <2>2, <2>3, <2>4 DEF Ways
<1>3. PICK v \in same : \A u \in same : ~Precedes(u, v)
  BY <1>2
<1>4. v \in Pushed(k)
  BY <1>3 DEF Pushed
<1> QED
  BY <1>3, <1>4

\* What was found by all the ways together, and what the candidates show of it.
Together(F) == UNION {F[w] : w \in Ways}

AllShown(k, F, a) == \A w \in Ways : Shows(k[w], F[w], a)

SortedOut(mine, target, rest, a) ==
  /\ \A i \in rest : a[i].kind # "service"
  /\ (\A i \in mine : a[i].name \notin Roots /\ a[i].kind # "service") =>
       IF target = NoOne THEN mine = {}
       ELSE mine = rest \cup {target.id} /\ a[target.id].name = target.name

RestOf(k, target) == IF target = NoOne THEN {} ELSE Others(k, target)

\* Out of the candidates of a person come the target and the rest.
LEMMA Sorted ==
  ASSUME NEW k \in [Ways -> Snapshot \cup {NoOne}], NEW F, NEW a, NEW n,
         AllShown(k, F, a), NEW mine, mine = Together(F),
         NEW target, target = Target(k, n),
         NEW rest, rest = RestOf(k, target)
  PROVE  SortedOut(mine, target, rest, a)
<1>1. \/ target = NoOne /\ Pushed(k) = {}
      \/ \E w \in Ways : w \in Pushed(k) /\ k[w] # NoOne /\ target = k[w]
  BY TargetIsCandidate
<1>2. \A w \in Pushed(k) : w \in Ways /\ a[k[w].id].name = k[w].name
                           /\ a[k[w].id].kind # "service" /\ k[w].id \in mine
  <2>1. \A w \in Pushed(k) : w \in Ways
    BY DEF Pushed
  <2>2. \A w \in Pushed(k) : /\ a[k[w].id].name = k[w].name /\ a[k[w].id].kind # "service"
                            /\ k[w].id \in F[w]
    BY <2>1 DEF Pushed, Shows, AllShown
  <2>3. \A w \in Ways : F[w] \subseteq mine
    BY Zenon DEF Together
  <2> QED
    BY <2>1, <2>2, <2>3
<1>3. \A i \in rest : \E w \in Pushed(k) : i = k[w].id
  BY DEF Others, RestOf
<1>4. \A i \in rest : a[i].kind # "service"
  BY <1>2, <1>3
<1>6. ASSUME \A i \in mine : a[i].name \notin Roots /\ a[i].kind # "service"
      PROVE  IF target = NoOne THEN mine = {}
             ELSE mine = rest \cup {target.id} /\ a[target.id].name = target.name
  <2>0. \A w \in Ways : F[w] \subseteq mine
    BY Zenon DEF Together
  <2>1. \A i \in mine : \E v \in Pushed(k) : i = k[v].id
    <3>1. \A i \in mine : \E w \in Ways : i \in F[w]
      BY Zenon DEF Together
    <3>2. \A w \in Ways : \A i \in F[w] : a[i].kind # "service"
      BY <1>6, <2>0
    <3>3. \A w \in Ways : \A i \in F[w] : k[w] # NoOne /\ i = k[w].id
      BY <3>2 DEF Shows, AllShown
    <3> QED
      BY <3>1, <3>3, FoundTogether
  <2>2. CASE target = NoOne
    <3>1. Pushed(k) = {}
      BY <1>1, <2>2
    <3> QED
      BY <2>1, <2>2, <3>1
  <2>3. CASE target # NoOne
    <3>1. PICK t \in Pushed(k) : target = k[t]
      BY <1>1, <2>3
    <3>2. \A w \in Pushed(k) : k[w].name \notin Roots
      BY <1>2, <1>6
    <3>3. rest = {k[w].id : w \in {v \in Pushed(k) : k[v].id # target.id}}
      BY <2>3, <3>1, <3>2 DEF Others, RestOf
    <3>4. mine = rest \cup {target.id}
      BY <1>2, <2>1, <3>1, <3>3
    <3> QED
      BY <1>2, <2>3, <3>1, <3>4
  <2> QED
    BY <2>2, <2>3
<1> QED
  BY <1>4, <1>6 DEF SortedOut

LEMMA BeginFold ==
  ASSUME Inv, FoldInv, NEW c \in Calls, NEW e \in Entries, NEW n \in Names, Begin(c, e, n)
  PROVE  FoldInv'
<1> DEFINE x == Seen(Named(n))
           k == [Unseen EXCEPT !["typed"] = x]
           s == [Idle EXCEPT !.at = "bind", !.entry = e, !.typed = n, !.cand = k]
<1>1. n \in Own[e]
  BY NamesAssumption DEF Begin, Inv
<1>2. x \in Snapshot \cup {NoOne}
  <2>1. Named(n) \in SUBSET Live /\ \A i \in Named(n) : accounts[i].name \in Own[e]
    BY <1>1 DEF Named
  <2> QED
    BY <2>1, SeenFits
<1>3. Shows(x, NamedIn(n, accounts), accounts)
  <2>1. Named(n) \in SUBSET Live /\ \A i \in Named(n) : accounts[i].kind # "service"
    BY DEF Begin, Named
  <2> QED
    BY <2>1, OneRow, SeenShows
<1> HIDE DEF x
<1>4. k \in [Ways -> Snapshot \cup {NoOne}] /\ k["typed"] = x
  BY <1>2 DEF Unseen, Ways
<1> HIDE DEF k
<1>5. /\ s \in CallStates /\ s.at = "bind" /\ s.entry = e /\ s.canonical = NoOne /\ s.typed = n
      /\ s.cand = k /\ s.target = NoOne /\ s.rest = {}
  BY <1>4, StartsAndEnds DEF CallStates, Steps, Idle
<1>6. n # NoOne
  BY NoOneAssumption
<1>7. Reads(c, s)
  BY DEF Begin, x, k
<1> HIDE DEF s
<1>8. Apart(s) /\ Folding(s, accounts)
  BY <1>3, <1>4, <1>5, <1>6 DEF Apart, Folding, Looking
<1> QED
  BY <1>5, <1>7, <1>8, ReadsFold

LEMMA FoldFacts ==
  ASSUME Inv, FoldInv, NEW c \in Calls
  PROVE  /\ Apart(call[c]) /\ Stamped(accounts)
         /\ call[c].alone /\ call[c].at \in Working => Folding(call[c], accounts)
  BY DEF FoldInv

LEMMA LocalPasswordFold ==
  ASSUME Inv, FoldInv, NEW c \in Calls, LocalPassword(c)
  PROVE  FoldInv'
<1> DEFINE s == call[c]
           x == s.cand["typed"]
           t == [s EXCEPT !.at = "session", !.target = x, !.cand = Unseen]
<1>1. s \in CallStates /\ s.at = "bind" /\ x # NoOne /\ x \in Snapshot /\ s.at \in Working
  BY CallFacts DEF LocalPassword, CallStates, Ways, Working, Steps
<1>2. /\ t \in CallStates /\ t.at = "session" /\ t.entry = s.entry /\ t.canonical = s.canonical
      /\ t.target = x /\ t.rest = s.rest /\ t.alone = s.alone
  BY <1>1, StartsAndEnds DEF CallStates, Steps, Unseen
<1>3. Reads(c, t)
  BY DEF LocalPassword
<1> HIDE DEF t, x
<1>4. Apart(t)
  BY <1>1, <1>2, FoldFacts DEF Apart
<1>5. t.alone => Folding(t, accounts)
  BY <1>1, <1>2, FoldFacts DEF Folding, Looking
<1> QED
  BY <1>2, <1>3, <1>4, <1>5, ReadsFold

LEMMA DirectoryAcceptsFold ==
  ASSUME Inv, FoldInv, NEW c \in Calls, DirectoryAccepts(c)
  PROVE  FoldInv'
<1> DEFINE s == call[c]
           t == [s EXCEPT !.at = "byid", !.canonical = called[s.entry]]
<1>1. s \in CallStates /\ s.at = "bind" /\ s.at \in Working /\ s.entry \in Entries
  BY CallFacts DEF DirectoryAccepts, Working, Steps, CallOK
<1>2. called[s.entry] \in Names
  BY <1>1 DEF Inv
<1>3. /\ t \in CallStates /\ t.at = "byid" /\ t.entry = s.entry /\ t.typed = s.typed
      /\ t.cand = s.cand /\ t.target = s.target /\ t.rest = s.rest /\ t.alone = s.alone
  BY <1>1, <1>2 DEF CallStates, Steps
<1>4. Reads(c, t)
  BY DEF DirectoryAccepts
<1> HIDE DEF t
<1>5. Apart(t)
  BY <1>1, <1>3, FoldFacts DEF Apart
<1>6. t.alone => Folding(t, accounts)
  BY <1>1, <1>3, FoldFacts DEF Folding, Looking
<1> QED
  BY <1>3, <1>4, <1>5, <1>6, ReadsFold

LEMMA FindByIdFold ==
  ASSUME Inv, FoldInv, NEW c \in Calls, FindById(c)
  PROVE  FoldInv'
<1> DEFINE s == call[c]
           x == IF s.entry \in WithId THEN Considered(Holding(s.entry)) ELSE NoOne
           k == [s.cand EXCEPT !["id"] = x]
           t == [s EXCEPT !.at = "byname", !.cand = k]
<1>1. s \in CallStates /\ s.at = "byid" /\ s.at \in Working /\ s.entry \in Entries
  BY CallFacts DEF FindById, CallOK, Working, Steps
<1>2. /\ Holding(s.entry) \in SUBSET Live
      /\ \A i \in Holding(s.entry) : accounts[i].name \in Own[s.entry]
  BY <1>1, CallFacts DEF Holding, StoreOK
<1>3. x \in Snapshot \cup {NoOne}
  BY <1>1, <1>2, ConsideredFits
<1>4. s.entry \in WithId => Shows(x, HoldingIn(s.entry, accounts), accounts)
  <2>1. s.entry # NoOne
    BY <1>1, NoOneAssumption
  <2> QED
    BY <1>2, <2>1, OneRow, SeenShows
<1>5. s.entry \notin WithId => x = NoOne
  OBVIOUS
<1> HIDE DEF x
<1>6. /\ t \in CallStates /\ t.at = "byname" /\ t.entry = s.entry /\ t.typed = s.typed
      /\ t.canonical = s.canonical /\ t.target = s.target /\ t.rest = s.rest
      /\ t.alone = s.alone /\ t.cand["id"] = x /\ t.cand["typed"] = s.cand["typed"]
  <2>1. /\ k \in [Ways -> Snapshot \cup {NoOne}] /\ k["id"] = x
        /\ \A v \in Ways : v # "id" => k[v] = s.cand[v]
    BY <1>1, <1>3 DEF CallStates, Ways
  <2> HIDE DEF k
  <2>2. /\ t \in CallStates /\ t.at = "byname" /\ t.entry = s.entry /\ t.typed = s.typed
        /\ t.canonical = s.canonical /\ t.target = s.target /\ t.rest = s.rest
        /\ t.alone = s.alone /\ t.cand = k
    BY <1>1, <2>1 DEF CallStates, Steps
  <2> HIDE DEF t, s
  <2> QED
    BY <2>1, <2>2 DEF Ways
<1>7. Reads(c, t)
  <2>1. [s EXCEPT !.at = "byname", !.cand["id"] = x] = t
    BY <1>1 DEF CallStates
  <2> HIDE DEF t
  <2> QED
    BY <2>1 DEF FindById, x
<1> HIDE DEF t, s
<1>8. Apart(t)
  BY <1>1, <1>6, FoldFacts DEF Apart, s
<1>9. t.alone => Folding(t, accounts)
  <2>1. t.alone => Folding(s, accounts)
    BY <1>1, <1>6, FoldFacts DEF s
  <2> QED
    BY <1>1, <1>4, <1>5, <1>6, <2>1 DEF Folding, Looking
<1> QED
  BY <1>6, <1>7, <1>8, <1>9, ReadsFold

LEMMA FindByNameFold ==
  ASSUME Inv, FoldInv, NEW c \in Calls, FindByName(c)
  PROVE  FoldInv'
<1> DEFINE s == call[c]
           x == Considered(Named(s.canonical))
           k == [s.cand EXCEPT !["name"] = x]
           t == [s EXCEPT !.at = "bymail", !.cand = k]
<1>1. /\ s \in CallStates /\ s.at = "byname" /\ s.at \in Working /\ s.entry \in Entries
      /\ s.canonical \in Own[s.entry]
  BY CallFacts DEF FindByName, CallOK, Working, Steps
<1>2. /\ Named(s.canonical) \in SUBSET Live
      /\ \A i \in Named(s.canonical) : accounts[i].name \in Own[s.entry]
  BY <1>1 DEF Named
<1>3. x \in Snapshot \cup {NoOne}
  BY <1>1, <1>2, ConsideredFits
<1>4. Shows(x, NamedIn(s.canonical, accounts), accounts)
  BY <1>2, OneRow, SeenShows
<1> HIDE DEF x
<1>5. /\ t \in CallStates /\ t.at = "bymail" /\ t.entry = s.entry /\ t.typed = s.typed
      /\ t.canonical = s.canonical /\ t.target = s.target /\ t.rest = s.rest
      /\ t.alone = s.alone /\ t.cand["name"] = x /\ t.cand["typed"] = s.cand["typed"]
      /\ t.cand["id"] = s.cand["id"]
  <2>1. /\ k \in [Ways -> Snapshot \cup {NoOne}] /\ k["name"] = x
        /\ \A v \in Ways : v # "name" => k[v] = s.cand[v]
    BY <1>1, <1>3 DEF CallStates, Ways
  <2> HIDE DEF k
  <2>2. /\ t \in CallStates /\ t.at = "bymail" /\ t.entry = s.entry /\ t.typed = s.typed
        /\ t.canonical = s.canonical /\ t.target = s.target /\ t.rest = s.rest
        /\ t.alone = s.alone /\ t.cand = k
    BY <1>1, <2>1 DEF CallStates, Steps
  <2> HIDE DEF t, s
  <2> QED
    BY <2>1, <2>2 DEF Ways
<1>6. Reads(c, t)
  <2>1. [s EXCEPT !.at = "bymail", !.cand["name"] = x] = t
    BY <1>1 DEF CallStates
  <2> HIDE DEF t
  <2> QED
    BY <2>1 DEF FindByName, x
<1> HIDE DEF t, s
<1>7. Apart(t)
  BY <1>1, <1>5, FoldFacts DEF Apart, s
<1>8. t.alone => Folding(t, accounts)
  <2>1. t.alone => Folding(s, accounts)
    BY <1>1, <1>5, FoldFacts DEF s
  <2> QED
    BY <1>1, <1>4, <1>5, <2>1 DEF Folding, Looking
<1> QED
  BY <1>5, <1>6, <1>7, <1>8, ReadsFold

\* The candidates are complete: the accounts found are the person's.
LEMMA FindByMailFold ==
  ASSUME Inv, FoldInv, NEW c \in Calls, FindByMail(c)
  PROVE  FoldInv'
<1> DEFINE s == call[c]
           x == Considered(Named(Mail[s.entry]))
           k == [s.cand EXCEPT !["mail"] = x]
           target == Target(k, s.canonical)
           rest == IF target = NoOne THEN {} ELSE Others(k, target)
           p == IF target = NoOne THEN "create" ELSE IF rest # {} THEN "merge" ELSE "namecheck"
           t == [s EXCEPT !.cand = Unseen, !.target = target, !.rest = rest, !.at = p]
           F == [w \in Ways |-> IF w = "id" THEN HoldingIn(s.entry, accounts)
                                ELSE IF w = "name" THEN NamedIn(s.canonical, accounts)
                                ELSE IF w = "typed" THEN NamedIn(s.typed, accounts)
                                ELSE NamedIn(Mail[s.entry], accounts)]
           mine == Together(F)
<1>1. /\ s \in CallStates /\ s.at = "bymail" /\ s.entry \in Entries /\ s.at \in Working
      /\ s.canonical \in Own[s.entry]
  BY CallFacts DEF FindByMail, CallOK, Working, Steps
<1>2. /\ Named(Mail[s.entry]) \in SUBSET Live
      /\ \A i \in Named(Mail[s.entry]) : accounts[i].name \in Own[s.entry]
  BY <1>1, NamesAssumption DEF Named
<1>3. x \in Snapshot \cup {NoOne} /\ Shows(x, NamedIn(Mail[s.entry], accounts), accounts)
  BY <1>1, <1>2, ConsideredFits, OneRow, SeenShows
<1>4. mine = MineIn(s, accounts)
  BY DEF Together, MineIn, NamedIn, HoldingIn, Ways
<1>5. Reads(c, t)
  BY DEF FindByMail
<1> HIDE DEF x
<1>6. k \in [Ways -> Snapshot \cup {NoOne}]
  BY <1>1, <1>3 DEF CallStates
<1>7. s.alone => s.typed # NoOne /\ AllShown(k, F, accounts)
  <2>1. SUFFICES ASSUME s.alone
                 PROVE  s.typed # NoOne /\ AllShown(k, F, accounts)
    OBVIOUS
  <2>2. Folding(s, accounts)
    BY <1>1, <2>1, FoldFacts
  <2>3. s.typed # NoOne /\ Looking(s, accounts)
    BY <1>1, <2>2 DEF Folding
  <2>4. k["mail"] = x /\ \A w \in Ways : w # "mail" => k[w] = s.cand[w]
    BY <1>1 DEF CallStates, Ways
  <2>5. s.entry \notin WithId => HoldingIn(s.entry, accounts) = {}
    <3>1. Stamped(accounts) /\ s.entry # NoOne
      BY <1>1, FoldFacts, NoOneAssumption
    <3> QED
      BY <3>1 DEF Stamped, HoldingIn
  <2>6. Shows(s.cand["id"], HoldingIn(s.entry, accounts), accounts)
    <3>1. CASE s.entry \in WithId
      BY <1>1, <2>3, <3>1 DEF Looking
    <3>2. CASE s.entry \notin WithId
      BY <1>1, <2>3, <2>5, <3>2 DEF Looking, Shows
    <3> QED
      BY <3>1, <3>2
  <2>7. /\ Shows(s.cand["typed"], NamedIn(s.typed, accounts), accounts)
        /\ Shows(s.cand["name"], NamedIn(s.canonical, accounts), accounts)
    BY <1>1, <2>3 DEF Looking
  <2>8. /\ Shows(k["id"], F["id"], accounts) /\ Shows(k["name"], F["name"], accounts)
        /\ Shows(k["typed"], F["typed"], accounts) /\ Shows(k["mail"], F["mail"], accounts)
    <3> HIDE DEF k, s
    <3> QED
      BY <1>3, <2>4, <2>6, <2>7 DEF Ways
  <2> QED
    BY <2>3, <2>8 DEF Ways, AllShown
<1> HIDE DEF k, F
<1>8. target \in Snapshot \cup {NoOne}
  BY <1>6, TargetIsCandidate
<1>9. rest \in SUBSET Ids
  BY <1>6 DEF Others, Pushed, Snapshot
<1>10. target # NoOne => target.id \notin rest
  BY DEF Others
<1>11. s.alone => SortedOut(mine, target, rest, accounts)
  <2>1. /\ mine = Together(F) /\ target = Target(k, s.canonical)
        /\ rest = RestOf(k, target)
    BY DEF RestOf
  <2> HIDE DEF mine, target, rest
  <2> DEFINE n == s.canonical
  <2> HIDE DEF n, s
  <2> QED
    BY <1>6, <1>7, <2>1, Sorted
<1> HIDE DEF target
<1>12. rest # {} <=> p = "merge"
  OBVIOUS
<1>13. target = NoOne <=> p = "create"
  OBVIOUS
<1>14. p \in {"create", "merge", "namecheck"}
  OBVIOUS
<1> HIDE DEF rest, p, mine
<1>15. /\ t \in CallStates /\ t.at = p /\ t.entry = s.entry /\ t.canonical = s.canonical
       /\ t.target = target /\ t.rest = rest /\ t.typed = s.typed /\ t.alone = s.alone
  <2>1. p \in Steps /\ Unseen \in [Ways -> Snapshot \cup {NoOne}]
    BY <1>14 DEF Steps, Unseen
  <2> QED
    BY <1>1, <1>8, <1>9, <2>1 DEF CallStates
<1> HIDE DEF t
<1>16. Apart(t)
  BY <1>10, <1>12, <1>14, <1>15 DEF Apart
<1>17. MineIn(t, accounts) = mine
  BY <1>4, <1>15 DEF MineIn
<1>18. t.alone => InTheWay(t, accounts) \/ Knows(t, accounts)
  <2>1. SUFFICES ASSUME t.alone, ~InTheWay(t, accounts) PROVE Knows(t, accounts)
    OBVIOUS
  <2>2. \A i \in mine : accounts[i].name \notin Roots /\ accounts[i].kind # "service"
    BY <1>17, <2>1 DEF InTheWay
  <2>3. IF target = NoOne THEN mine = {}
        ELSE mine = rest \cup {target.id} /\ accounts[target.id].name = target.name
    BY <1>11, <1>15, <2>1, <2>2 DEF SortedOut
  <2> QED
    BY <1>13, <1>14, <1>15, <1>17, <2>3 DEF Knows
<1>19. t.alone => Folding(t, accounts)
  BY <1>11, <1>14, <1>15, <1>18 DEF Folding, SortedOut
<1> QED
  BY <1>5, <1>15, <1>16, <1>19, ReadsFold

-----------------------------------------------------------------------------
(* Folding, renaming and stamping.                                         *)

\* Whose accounts they are depends on the names alone.
LEMMA SamePerson ==
  ASSUME NEW s, NEW t, NEW a,
         t.entry = s.entry /\ t.canonical = s.canonical /\ t.typed = s.typed
  PROVE  MineIn(t, a) = MineIn(s, a) /\ (InTheWay(t, a) <=> InTheWay(s, a))
  BY DEF MineIn, InTheWay

\* What is in the way stays there when its row stays under its name.
LEMMA StaysInTheWay ==
  ASSUME NEW s, NEW a, NEW b, InTheWay(s, a),
         \A i \in MineIn(s, a) : a[i].name \in Roots \/ a[i].kind = "service" =>
           /\ i \in MineIn(s, b) /\ b[i].kind = a[i].kind
           /\ a[i].name \in Roots => b[i].name = a[i].name
  PROVE  InTheWay(s, b)
  BY DEF InTheWay

\* One row rewritten.
LEMMA Rewritten ==
  ASSUME Inv, NEW i \in Live, NEW r \in Account
  PROVE  LET b == [accounts EXCEPT ![i] = r]
         IN /\ At(b) = At(accounts) /\ b[i] = r /\ i \in At(accounts)
            /\ accounts[i] \in Account
            /\ \A j \in At(accounts) : j # i => b[j] = accounts[j]
<1>1. i \in Ids /\ accounts \in [Ids -> Account \cup {NoOne}] /\ r # NoOne
  BY NoOneAssumption, CallFacts DEF Live, Inv, StoreOK
<1> QED
  BY <1>1 DEF At, Live

LEMMA StampedStays ==
  ASSUME NEW a, NEW b, Stamped(a),
         \A i \in At(b) : i \in At(a) /\ b[i].did = a[i].did
  PROVE  Stamped(b)
  BY DEF Stamped

\* The state of a sign-in that has its target, one step on.
LEMMA Onward ==
  ASSUME NEW s \in CallStates, NEW p \in Steps, NEW t, t = [s EXCEPT !.at = p]
  PROVE  /\ t \in CallStates /\ t.at = p /\ t.entry = s.entry /\ t.canonical = s.canonical
         /\ t.typed = s.typed /\ t.target = s.target /\ t.rest = s.rest /\ t.alone = s.alone
  BY DEF CallStates

\* What an undisturbed sign-in past its candidates knows.
LEMMA KnownThen ==
  ASSUME Inv, FoldInv, NEW c \in Calls, call[c].alone,
         call[c].at \in Working \ {"bind", "byid", "byname", "bymail"},
         call[c].typed # NoOne, call[c].canonical # NoOne
  PROVE  /\ \A i \in call[c].rest : i \in At(accounts) => accounts[i].kind # "service"
         /\ InTheWay(call[c], accounts) \/ Knows(call[c], accounts)
  BY FoldFacts DEF Folding

LEMMA MergeFold ==
  ASSUME Inv, FoldInv, NEW c \in Calls, NEW from \in Ids, Merge(c, from)
  PROVE  FoldInv'
<1> DEFINE s == call[c]
           into == s.target.id
           to == Merged(from, into)
           p == IF s.rest = {from} THEN "namecheck" ELSE "merge"
           t == [s EXCEPT !.rest = s.rest \ {from}, !.at = p]
<1>1. /\ s \in CallStates /\ s.at = "merge" /\ s.at \in Working /\ s.target # NoOne
      /\ s.target \in Snapshot /\ from \in s.rest
      /\ CallOK(s, accounts, nextId)
  BY CallFacts DEF Merge, CallOK, Working, Steps, CallStates
<1>2. CASE MergeRefused(from, into)
  BY <1>2, FailsFold DEF Merge
<1>3. CASE ~MergeRefused(from, into)
  <2>1. Writes(c, t, to)
    BY <1>3 DEF Merge
  <2>2. into \notin s.rest /\ into # from /\ into \in Ids
    BY <1>1, FoldFacts DEF Apart, Snapshot
  <2>3. /\ At(to) = At(accounts) \ {from}
        /\ \A i \in At(to) : /\ to[i].name = accounts[i].name /\ to[i].did = accounts[i].did
                             /\ to[i].kind = accounts[i].kind
    <3> HIDE DEF s, into
    <3> DEFINE r == [accounts[into] EXCEPT !.owns = @ \cup accounts[from].owns,
                                           !.sessions = @ \cup accounts[from].sessions]
               both == into \in Live /\ from \in Live
    <3>1. \A i \in Ids : to[i] = IF i = from THEN NoOne
                                ELSE IF i = into /\ both THEN r ELSE accounts[i]
      BY DEF Merged
    <3>2. \A i \in At(accounts) : accounts[i] \in Account /\ i \in Ids
      BY CallFacts DEF At
    <3>3. both => /\ r \in Account /\ r.name = accounts[into].name
                  /\ r.did = accounts[into].did /\ r.kind = accounts[into].kind
      BY <3>2, AtIsLive DEF Account
    <3> HIDE DEF r, to
    <3>4. At(to) = At(accounts) \ {from}
      BY <2>2, <3>1, <3>3, NoOneAssumption, AtIsLive DEF At
    <3>5. ASSUME NEW i \in At(to)
          PROVE  /\ to[i].name = accounts[i].name /\ to[i].did = accounts[i].did
                 /\ to[i].kind = accounts[i].kind
      BY <3>1, <3>2, <3>3, <3>4
    <3> QED
      BY <3>4, <3>5
  <2>4. /\ t \in CallStates /\ t.at = p /\ t.entry = s.entry /\ t.canonical = s.canonical
        /\ t.typed = s.typed /\ t.target = s.target /\ t.rest = s.rest \ {from}
        /\ t.alone = s.alone
    <3>1. p \in Steps /\ s.rest \ {from} \in SUBSET Ids
      BY <1>1 DEF Steps, CallStates
    <3> HIDE DEF p
    <3> QED
      BY <1>1, <3>1 DEF CallStates
  <2>5. p \in {"namecheck", "merge"} /\ (p = "namecheck" => t.rest = {})
    BY <2>4
  <2> HIDE DEF p, t, to
  <2>6. Apart(t)
    BY <2>2, <2>4, <2>5 DEF Apart
  <2>7. Stamped(to)
    BY <2>3, FoldFacts, StampedStays
  <2>8. t.alone => Folding(t, to)
    <3>1. SUFFICES ASSUME t.alone, t.typed # NoOne, t.canonical # NoOne
                   PROVE  /\ \A i \in t.rest : i \in At(to) => to[i].kind # "service"
                          /\ InTheWay(t, to) \/ Knows(t, to)
      BY <2>4, <2>5 DEF Folding
    <3>2. /\ \A i \in s.rest : i \in At(accounts) => accounts[i].kind # "service"
          /\ InTheWay(s, accounts) \/ Knows(s, accounts)
      BY <1>1, <2>4, <3>1, KnownThen
    <3>3. \A i \in t.rest : i \in At(to) => to[i].kind # "service"
      BY <2>3, <2>4, <3>2
    <3>4. MineIn(t, to) = MineIn(s, accounts) \ {from}
      BY <2>3, <2>4 DEF MineIn
    <3>5. CASE InTheWay(s, accounts)
      <4>1. from \in At(accounts) => /\ accounts[from].name \notin Roots
                                     /\ accounts[from].kind # "service"
        BY <1>1, <3>2 DEF CallOK
      <4>2. InTheWay(t, accounts)
        BY <2>4, <3>5, SamePerson
      <4>3. MineIn(t, accounts) = MineIn(s, accounts) /\ MineIn(s, accounts) \subseteq At(accounts)
        BY <2>4, SamePerson DEF MineIn
      <4>4. \A i \in MineIn(t, accounts) :
              accounts[i].name \in Roots \/ accounts[i].kind = "service" =>
                /\ i \in MineIn(t, to) /\ to[i].kind = accounts[i].kind
                /\ to[i].name = accounts[i].name
        BY <2>3, <3>4, <4>1, <4>3
      <4> QED
        BY <3>3, <4>2, <4>4, StaysInTheWay
    <3>6. CASE Knows(s, accounts)
      <4>1. /\ MineIn(s, accounts) = s.rest \cup {into}
            /\ accounts[into].name = s.target.name
        BY <1>1, <3>6 DEF Knows
      <4>2. MineIn(t, to) = t.rest \cup {into} /\ into \in At(to)
        BY <2>2, <2>3, <2>4, <3>4, <4>1 DEF MineIn
      <4>3. to[into].name = t.target.name
        BY <2>3, <2>4, <4>1, <4>2
      <4>4. Knows(t, to)
        BY <2>4, <2>5, <4>2, <4>3 DEF Knows
      <4> QED
        BY <3>3, <4>4
    <3> QED
      BY <3>2, <3>5, <3>6
  <2> QED
    BY <2>1, <2>4, <2>6, <2>7, <2>8, WritesFold
<1> QED
  BY <1>2, <1>3

LEMMA NameCheckFold ==
  ASSUME Inv, FoldInv, NEW c \in Calls, NameCheck(c)
  PROVE  FoldInv'
<1> DEFINE s == call[c]
           i == s.target.id
           taken == Named(s.canonical) \ {i} # {}
           free == /\ s.target.name # s.canonical /\ ~taken
                   /\ s.target.name \notin Roots /\ s.canonical \notin Roots
           p == IF free THEN "rename" ELSE "holder"
           t == [s EXCEPT !.at = p]
<1>1. s \in CallStates /\ s.at = "namecheck" /\ s.at \in Working
  BY CallFacts DEF NameCheck, Working, Steps
<1>2. Reads(c, t)
  BY DEF NameCheck
<1>3. p \in {"rename", "holder"}
  OBVIOUS
<1>4. /\ t \in CallStates /\ t.at = p /\ t.entry = s.entry /\ t.canonical = s.canonical
      /\ t.typed = s.typed /\ t.target = s.target /\ t.rest = s.rest /\ t.alone = s.alone
  <2> HIDE DEF p
  <2>1. p \in Steps
    BY <1>3 DEF Steps
  <2> QED
    BY <1>1, <2>1, Onward
<1> HIDE DEF t
<1>5. Apart(t) /\ t.rest = {}
  BY <1>1, <1>3, <1>4, FoldFacts DEF Apart
<1>6. t.alone => Folding(t, accounts)
  <2>1. SUFFICES ASSUME t.alone, t.typed # NoOne, t.canonical # NoOne, ~InTheWay(t, accounts)
                 PROVE  Knows(t, accounts)
    BY <1>3, <1>4, <1>5 DEF Folding
  <2>2. ~InTheWay(s, accounts) /\ MineIn(s, accounts) = MineIn(t, accounts)
    BY <1>4, <2>1, SamePerson
  <2>3. Knows(s, accounts)
    BY <1>1, <1>4, <2>1, <2>2, KnownThen
  <2>4. MineIn(s, accounts) = {i} /\ accounts[i].name = s.target.name
    BY <1>1, <1>4, <1>5, <2>3 DEF Knows
  <2>5. s.target.name \notin Roots /\ s.canonical \notin Roots
    BY <2>2, <2>4 DEF InTheWay
  <2>6. ~taken
    BY <2>4, AtIsLive DEF Named, MineIn
  <2>7. p = "holder" => s.target.name = s.canonical
    BY <2>5, <2>6
  <2> QED
    BY <1>3, <1>4, <1>5, <2>2, <2>4, <2>7 DEF Knows
<1> QED
  BY <1>2, <1>4, <1>5, <1>6, ReadsFold

LEMMA RenameFold ==
  ASSUME Inv, FoldInv, NEW c \in Calls, Rename(c)
  PROVE  FoldInv'
<1> DEFINE s == call[c]
           i == s.target.id
           k == [s.target EXCEPT !.name = s.canonical]
           t == [s EXCEPT !.at = "holder", !.target = k]
           r == [accounts[i] EXCEPT !.name = s.canonical]
           to == IF i \in Live THEN [accounts EXCEPT ![i] = r] ELSE accounts
<1>1. /\ s \in CallStates /\ s.at = "rename" /\ s.at \in Working /\ s.target \in Snapshot
      /\ s.canonical \in Names /\ CallOK(s, accounts, nextId) /\ s.target.name \notin Roots
      /\ Fits(s.target, s.entry, accounts, nextId)
  BY CallFacts DEF Rename, CallOK, Working, Steps, CallStates
<1>2. CASE i \in Live /\ Named(s.canonical) \ {i} # {}
  BY <1>2, FailsFold DEF Rename
<1>3. CASE ~(i \in Live /\ Named(s.canonical) \ {i} # {})
  <2>1. k \in Snapshot /\ k.id = i
    BY <1>1 DEF Snapshot
  <2>2. [s EXCEPT !.at = "holder", !.target.name = s.canonical] = t
    BY <1>1 DEF CallStates
  <2>3. Writes(c, t, to)
    <3> HIDE DEF t
    <3> QED
      BY <1>3, <2>2 DEF Rename
  <2> HIDE DEF k
  <2>4. /\ t \in CallStates /\ t.at = "holder" /\ t.entry = s.entry /\ t.canonical = s.canonical
        /\ t.typed = s.typed /\ t.target.id = i /\ t.rest = s.rest /\ t.alone = s.alone
        /\ t.target = k
    BY <1>1, <2>1 DEF CallStates, Steps
  <2> HIDE DEF t
  <2>5. i \in Live => /\ r \in Account /\ r.name = s.canonical /\ r.did = accounts[i].did
                      /\ r.kind = accounts[i].kind
    BY <1>1, CallFacts DEF Account, At
  <2>6. /\ At(to) = At(accounts) /\ \A j \in At(accounts) : j # i => to[j] = accounts[j]
        /\ i \in At(accounts) => to[i] = r
    <3> HIDE DEF r
    <3>1. CASE i \in Live
      BY <2>5, <3>1, Rewritten
    <3>2. CASE i \notin Live
      BY <3>2, AtIsLive
    <3> QED
      BY <3>1, <3>2
  <2> HIDE DEF r, to
  <2>7. Apart(t) /\ t.rest = {}
    BY <1>1, <2>1, <2>4, FoldFacts DEF Apart
  <2>8. \A j \in At(to) : /\ j \in At(accounts) /\ to[j].did = accounts[j].did
                          /\ to[j].kind = accounts[j].kind
                          /\ j # i => to[j].name = accounts[j].name
                          /\ j = i => to[j].name = s.canonical
    BY <2>5, <2>6, AtIsLive
  <2>9. Stamped(to)
    BY <2>8, FoldFacts, StampedStays
  <2>10. t.alone => Folding(t, to)
    <3>1. SUFFICES ASSUME t.alone, t.typed # NoOne, t.canonical # NoOne
                   PROVE  InTheWay(t, to) \/ Knows(t, to)
      BY <2>4, <2>7 DEF Folding
    <3>2. InTheWay(s, accounts) \/ Knows(s, accounts)
      BY <1>1, <2>4, <3>1, KnownThen
    <3>3. CASE InTheWay(s, accounts)
      <4>1. InTheWay(t, accounts)
        BY <2>4, <3>3, SamePerson
      <4>2. i \in At(accounts) => accounts[i].name \notin Roots
        BY <1>1 DEF Fits
      <4>3. \A j \in MineIn(t, accounts) : j \in MineIn(t, to)
        BY <2>4, <2>6, <2>8 DEF MineIn
      <4>4. \A j \in MineIn(t, accounts) : j \in At(to) /\ j \in At(accounts)
        BY <2>6 DEF MineIn
      <4> QED
        BY <2>8, <4>1, <4>2, <4>3, <4>4, StaysInTheWay
    <3>4. CASE Knows(s, accounts)
      <4>1. MineIn(s, accounts) = {i}
        BY <1>1, <2>4, <2>7, <3>4 DEF Knows
      <4>2. i \in At(to) /\ to[i].name = s.canonical
        BY <2>6, <2>8, <4>1 DEF MineIn
      <4>3. \A j \in At(to) : j # i => j \notin MineIn(t, to)
        BY <2>4, <2>8, <4>1 DEF MineIn
      <4>4. MineIn(t, to) = {i}
        BY <2>4, <4>2, <4>3 DEF MineIn
      <4> QED
        BY <2>4, <4>2, <4>4 DEF Knows
    <3> QED
      BY <3>2, <3>3, <3>4
  <2> QED
    BY <2>3, <2>4, <2>7, <2>9, <2>10, WritesFold
<1> QED
  BY <1>2, <1>3

LEMMA HolderCheckFold ==
  ASSUME Inv, FoldInv, NEW c \in Calls, HolderCheck(c)
  PROVE  FoldInv'
<1> DEFINE s == call[c]
           i == s.target.id
           p == IF s.entry \in WithId /\ Holding(s.entry) \subseteq {i} THEN "setid" ELSE "session"
           t == [s EXCEPT !.at = p]
<1>1. s \in CallStates /\ s.at = "holder" /\ s.at \in Working
  BY CallFacts DEF HolderCheck, Working, Steps
<1>2. Reads(c, t)
  BY DEF HolderCheck
<1>3. /\ p \in {"setid", "session"} /\ (p = "setid" => s.entry \in WithId)
      /\ p = "session" /\ s.entry \in WithId => ~(Holding(s.entry) \subseteq {i})
  OBVIOUS
<1> HIDE DEF p
<1>4. /\ t \in CallStates /\ t.at = p /\ t.entry = s.entry /\ t.canonical = s.canonical
      /\ t.typed = s.typed /\ t.target = s.target /\ t.rest = s.rest /\ t.alone = s.alone
  <2>1. p \in Steps
    BY <1>3 DEF Steps
  <2> QED
    BY <1>1, <2>1, Onward
<1> HIDE DEF t
<1>5. Apart(t) /\ t.rest = {}
  BY <1>1, <1>3, <1>4, FoldFacts DEF Apart
<1>6. t.alone => Folding(t, accounts)
  <2>1. SUFFICES ASSUME t.alone, t.typed # NoOne, t.canonical # NoOne, ~InTheWay(t, accounts)
                 PROVE  Knows(t, accounts)
    BY <1>3, <1>4, <1>5 DEF Folding
  <2>2. ~InTheWay(s, accounts) /\ MineIn(s, accounts) = MineIn(t, accounts)
    BY <1>4, <2>1, SamePerson
  <2>3. Knows(s, accounts)
    BY <1>1, <1>4, <2>1, <2>2, KnownThen
  <2>4. MineIn(s, accounts) = {i} /\ accounts[i].name = s.canonical
    BY <1>1, <2>3 DEF Knows
  <2>5. Holding(s.entry) \subseteq {i}
    BY <2>4, AtIsLive DEF Holding, MineIn
  <2> QED
    BY <1>3, <1>4, <2>2, <2>4, <2>5 DEF Knows
<1> QED
  BY <1>2, <1>4, <1>5, <1>6, ReadsFold

LEMMA SetDirectoryIdFold ==
  ASSUME Inv, FoldInv, NEW c \in Calls, SetDirectoryId(c)
  PROVE  FoldInv'
<1> DEFINE s == call[c]
           i == s.target.id
           t == [s EXCEPT !.at = "session"]
           r == [accounts[i] EXCEPT !.did = s.entry]
           to == [accounts EXCEPT ![i] = r]
<1>1. s \in CallStates /\ s.at = "setid" /\ s.at \in Working /\ s.entry \in Entries
  BY CallFacts DEF SetDirectoryId, CallOK, Working, Steps
<1>2. CASE i \notin Live \/ Holding(s.entry) \ {i} # {}
  BY <1>2, FailsFold DEF SetDirectoryId
<1>3. CASE ~(i \notin Live \/ Holding(s.entry) \ {i} # {})
  <2>1. Writes(c, t, to) /\ i \in Live
    BY <1>3 DEF SetDirectoryId
  <2>2. /\ t \in CallStates /\ t.at = "session" /\ t.entry = s.entry /\ t.canonical = s.canonical
        /\ t.typed = s.typed /\ t.target = s.target /\ t.rest = s.rest /\ t.alone = s.alone
    BY <1>1, Onward DEF Steps
  <2> HIDE DEF t
  <2>3. /\ r \in Account /\ r.name = accounts[i].name /\ r.did = s.entry
        /\ r.kind = accounts[i].kind
    BY <1>1, <2>1, CallFacts DEF Account, At
  <2>4. /\ At(to) = At(accounts) /\ i \in At(to) /\ \A j \in At(accounts) : j # i => to[j] = accounts[j]
        /\ to[i] = r
    <3> HIDE DEF r
    <3> QED
      BY <2>1, <2>3, Rewritten
  <2> HIDE DEF r, to
  <2>5. Apart(t) /\ t.rest = {}
    BY <1>1, <2>2, FoldFacts DEF Apart
  <2>6. Stamped(to)
    <3>1. s.entry \in WithId
      BY <1>1, FoldFacts DEF Apart
    <3> QED
      BY <2>3, <2>4, <3>1, FoldFacts DEF Stamped
  <2>7. \A j \in At(accounts) : /\ j \in At(to) /\ to[j].name = accounts[j].name
                                /\ to[j].kind = accounts[j].kind
                                /\ to[j].did = accounts[j].did \/ to[j].did = s.entry
                                /\ j # i => to[j].did = accounts[j].did
    BY <2>3, <2>4
  <2>8. t.alone => Folding(t, to)
    <3>1. SUFFICES ASSUME t.alone, t.typed # NoOne, t.canonical # NoOne
                   PROVE  InTheWay(t, to) \/ Knows(t, to)
      BY <2>2, <2>5 DEF Folding
    <3>2. InTheWay(s, accounts) \/ Knows(s, accounts)
      BY <1>1, <2>2, <3>1, KnownThen
    <3>3. CASE InTheWay(s, accounts)
      <4>1. InTheWay(t, accounts)
        BY <2>2, <3>3, SamePerson
      <4>2. \A j \in MineIn(t, accounts) : j \in MineIn(t, to) /\ j \in At(accounts)
        BY <2>2, <2>7 DEF MineIn
      <4> QED
        BY <2>7, <4>1, <4>2, StaysInTheWay
    <3>4. CASE Knows(s, accounts)
      <4>1. MineIn(s, accounts) = {i} /\ accounts[i].name = s.canonical
        BY <1>1, <3>4 DEF Knows
      <4>2. MineIn(t, to) = {i}
        BY <2>2, <2>3, <2>4, <2>7, <4>1 DEF MineIn
      <4> QED
        BY <2>2, <2>3, <2>4, <4>1, <4>2 DEF Knows
    <3> QED
      BY <3>2, <3>3, <3>4
  <2> QED
    BY <2>1, <2>2, <2>5, <2>6, <2>8, WritesFold
<1> QED
  BY <1>2, <1>3

-----------------------------------------------------------------------------
(* New accounts, OIDC, and the end of a sign-in.                           *)

LEMMA OidcBeginFold ==
  ASSUME Inv, FoldInv, NEW c \in Calls, NEW e \in Entries, OidcBegin(c, e)
  PROVE  FoldInv'
<1> DEFINE s == [Idle EXCEPT !.at = "oidc", !.entry = e, !.canonical = called[e]]
<1>1. called[e] \in Names
  BY DEF Inv
<1>2. /\ s \in CallStates /\ s.at = "oidc" /\ s.typed = NoOne /\ s.target = NoOne /\ s.rest = {}
  BY <1>1, StartsAndEnds DEF CallStates, Steps, Idle
<1>3. Reads(c, s)
  BY DEF OidcBegin
<1> HIDE DEF s
<1>4. Apart(s) /\ Folding(s, accounts)
  BY <1>2 DEF Apart, Folding
<1> QED
  BY <1>2, <1>3, <1>4, ReadsFold

\* The row found under the canonical name, if one is, is the one there is.
LEMMA FoundNext ==
  ASSUME Inv, NEW c \in Calls, call[c].at \in {"oidc", "created"}
  PROVE  LET x == Seen(Named(call[c].canonical))
         IN /\ x \in Snapshot \cup {NoOne}
            /\ \A i \in Live : Named(call[c].canonical) = {i} => x.id = i
<1> DEFINE s == call[c]
           x == Seen(Named(s.canonical))
<1>1. /\ s \in CallStates /\ s.entry \in Entries /\ s.canonical \in Own[s.entry]
  BY CallFacts DEF CallOK, Working, Steps
<1>2. /\ Named(s.canonical) \in SUBSET Live
      /\ \A i \in Named(s.canonical) : accounts[i].name \in Own[s.entry]
  BY <1>1 DEF Named
<1>3. x \in Snapshot \cup {NoOne}
  BY <1>1, <1>2, SeenFits
<1>4. ASSUME NEW i \in Live, Named(s.canonical) = {i} PROVE x.id = i
  <2>1. x = [id |-> i, name |-> accounts[i].name]
    BY <1>4 DEF Seen
  <2> QED
    BY <2>1
<1> QED
  BY <1>3, <1>4

LEMMA OidcFindFold ==
  ASSUME Inv, FoldInv, NEW c \in Calls, OidcFind(c)
  PROVE  FoldInv'
<1> DEFINE s == call[c]
           x == Seen(Named(s.canonical))
           p == IF x = NoOne THEN "create" ELSE "grant"
           t == [s EXCEPT !.target = x, !.at = p]
<1>1. s.at = "oidc"
  BY DEF OidcFind
<1>2. CASE x # NoOne /\ accounts[x.id].kind = "service"
  BY <1>2, FailsFold DEF OidcFind
<1>3. CASE ~(x # NoOne /\ accounts[x.id].kind = "service")
  <2>1. Reads(c, t)
    BY <1>3, Zenon DEF OidcFind
  <2>2. p \in {"create", "grant"}
    OBVIOUS
  <2> HIDE DEF p
  <2>3. x \in Snapshot \cup {NoOne} /\ s \in CallStates
    BY <1>1, FoundNext, CallFacts
  <2> HIDE DEF x
  <2>4. /\ t \in CallStates /\ t.at = p /\ t.typed = s.typed /\ t.target = x /\ t.rest = s.rest
    BY <2>2, <2>3 DEF CallStates, Steps
  <2> HIDE DEF t
  <2>5. t.typed = NoOne /\ t.rest = {}
    BY <1>1, <2>4, FoldFacts DEF Apart
  <2>6. Apart(t) /\ Folding(t, accounts)
    BY <2>2, <2>4, <2>5 DEF Apart, Folding
  <2> QED
    BY <2>1, <2>4, <2>6, ReadsFold
<1> QED
  BY <1>2, <1>3

\* A new row in the store.
LEMMA AddedRow ==
  ASSUME Inv, NEW n \in Names, NEW k \in {"person", "service"}, nextId <= MaxId
  PROVE  LET b == [accounts EXCEPT ![nextId] = NewAccount(n, k)]
         IN /\ nextId \notin At(accounts) /\ At(b) = At(accounts) \cup {nextId}
            /\ \A j \in At(accounts) : b[j] = accounts[j]
            /\ b[nextId].name = n /\ b[nextId].did = NoOne
<1> DEFINE r == NewAccount(n, k)
           b == [accounts EXCEPT ![nextId] = r]
<1>1. nextId \in Ids /\ nextId \in Nat
  BY BoundsAssumption, CallFacts DEF Inv, StoreOK, Ids
<1>2. r \in Account /\ r.name = n /\ r.did = NoOne
  BY DEF NewAccount, Account
<1>3. r # NoOne
  BY <1>2, NoOneAssumption
<1>4. accounts \in [Ids -> Account \cup {NoOne}] /\ \A j \in At(accounts) : j \in Ids /\ j < nextId
  BY DEF Inv, StoreOK, At
<1> HIDE DEF r
<1>5. b \in [Ids -> Account \cup {NoOne}] /\ b[nextId] = r
      /\ \A j \in Ids : j # nextId => b[j] = accounts[j]
  BY <1>1, <1>2, <1>4 DEF r
<1>6. nextId \notin At(accounts)
  BY <1>1, <1>4
<1>7. At(b) = At(accounts) \cup {nextId}
  BY <1>1, <1>3, <1>5 DEF At
<1>8. /\ nextId \notin At(accounts) /\ At(b) = At(accounts) \cup {nextId}
      /\ \A j \in At(accounts) : b[j] = accounts[j]
      /\ b[nextId].name = n /\ b[nextId].did = NoOne
  BY <1>2, <1>4, <1>5, <1>6, <1>7
<1> QED
  BY <1>8 DEF r

LEMMA AddedStamped ==
  ASSUME Inv, FoldInv, NEW n \in Names, NEW k \in {"person", "service"}, nextId <= MaxId
  PROVE  Stamped([accounts EXCEPT ![nextId] = NewAccount(n, k)])
<1> DEFINE b == [accounts EXCEPT ![nextId] = NewAccount(n, k)]
<1>1. /\ At(b) = At(accounts) \cup {nextId} /\ b[nextId].did = NoOne
      /\ \A j \in At(accounts) : b[j] = accounts[j]
  BY AddedRow
<1>2. Stamped(accounts)
  BY DEF FoldInv
<1> HIDE DEF b
<1>3. Stamped(b)
  BY <1>1, <1>2 DEF Stamped
<1> QED
  BY <1>3 DEF b

LEMMA CreateFold ==
  ASSUME Inv, FoldInv, NEW c \in Calls, Create(c)
  PROVE  FoldInv'
<1> DEFINE s == call[c]
           t == [s EXCEPT !.at = "created"]
           to == [accounts EXCEPT ![nextId] = NewAccount(s.canonical, "person")]
<1>1. /\ s \in CallStates /\ s.at = "create" /\ s.at \in Working /\ s.entry \in Entries
      /\ s.canonical \in Own[s.entry]
  BY CallFacts DEF Create, CallOK, Working, Steps
<1>2. CASE Named(s.canonical) # {}
  BY <1>2, FailsFold DEF Create
<1>3. CASE Named(s.canonical) = {}
  <2>1. Writes(c, t, to) /\ nextId <= MaxId
    BY <1>3 DEF Create, FreshId
  <2>2. /\ t \in CallStates /\ t.at = "created" /\ t.entry = s.entry
        /\ t.canonical = s.canonical /\ t.typed = s.typed /\ t.target = s.target
        /\ t.rest = s.rest /\ t.alone = s.alone
    BY <1>1, Onward DEF Steps
  <2> HIDE DEF t
  <2>3. s.canonical \in Names
    BY <1>1, NamesAssumption
  <2>4. /\ nextId \notin At(accounts) /\ At(to) = At(accounts) \cup {nextId}
        /\ \A j \in At(accounts) : to[j] = accounts[j]
        /\ to[nextId].name = s.canonical /\ to[nextId].did = NoOne
    BY <2>1, <2>3, AddedRow
  <2>5. Stamped(to)
    BY <2>1, <2>3, AddedStamped
  <2> HIDE DEF to
  <2>6. Apart(t) /\ t.rest = {}
    BY <1>1, <2>2, FoldFacts DEF Apart
  <2>7. t.alone => Folding(t, to)
    <3>1. SUFFICES ASSUME t.alone, t.typed # NoOne, t.canonical # NoOne
                   PROVE  InTheWay(t, to) \/ Knows(t, to)
      BY <2>2, <2>6 DEF Folding
    <3>2. InTheWay(s, accounts) \/ Knows(s, accounts)
      BY <1>1, <2>2, <3>1, KnownThen
    <3>3. CASE InTheWay(s, accounts)
      <4>1. InTheWay(t, accounts)
        BY <2>2, <3>3, SamePerson
      <4>2. \A j \in MineIn(t, accounts) : j \in MineIn(t, to) /\ j \in At(accounts)
        BY <2>2, <2>4 DEF MineIn
      <4> QED
        BY <2>4, <4>1, <4>2, StaysInTheWay
    <3>4. CASE Knows(s, accounts)
      <4>1. MineIn(s, accounts) = {}
        BY <1>1, <3>4 DEF Knows
      <4>2. MineIn(t, to) = {nextId} /\ nextId \in At(to)
        BY <2>2, <2>4, <4>1 DEF MineIn
      <4> QED
        BY <2>2, <2>4, <4>2 DEF Knows
    <3> QED
      BY <3>2, <3>3, <3>4
  <2> QED
    BY <2>1, <2>2, <2>5, <2>6, <2>7, WritesFold
<1> QED
  BY <1>2, <1>3

LEMMA CreatedFold ==
  ASSUME Inv, FoldInv, NEW c \in Calls, Created(c)
  PROVE  FoldInv'
<1> DEFINE s == call[c]
           x == Seen(Named(s.canonical))
           p == IF s.typed = NoOne THEN "grant"
                ELSE IF s.entry \in WithId THEN "setid" ELSE "session"
           t == [s EXCEPT !.target = x, !.at = p]
<1>1. s \in CallStates /\ s.at = "created" /\ s.at \in Working
  BY CallFacts DEF Created, Working, Steps
<1>2. CASE x = NoOne
  BY <1>2, FailsFold DEF Created
<1>3. CASE x # NoOne
  <2>1. Reads(c, t)
    BY <1>3, Zenon DEF Created
  <2>2. /\ p \in {"grant", "setid", "session"}
        /\ p = "grant" <=> s.typed = NoOne
        /\ p = "setid" => s.entry \in WithId
        /\ p = "session" => s.entry \notin WithId
    OBVIOUS
  <2> HIDE DEF p
  <2>0. x \in Snapshot \cup {NoOne} /\ \A i \in Live : Named(s.canonical) = {i} => x.id = i
    BY <1>1, FoundNext
  <2> HIDE DEF x
  <2>3. /\ t \in CallStates /\ t.at = p /\ t.entry = s.entry /\ t.canonical = s.canonical
        /\ t.typed = s.typed /\ t.target = x /\ t.rest = s.rest /\ t.alone = s.alone
    BY <1>1, <2>0, <2>2 DEF CallStates, Steps
  <2> HIDE DEF t
  <2>4. Apart(t) /\ t.rest = {}
    BY <1>1, <2>2, <2>3, FoldFacts DEF Apart
  <2>5. t.alone => Folding(t, accounts)
    <3>1. SUFFICES ASSUME t.alone, t.typed # NoOne, t.canonical # NoOne, ~InTheWay(t, accounts)
                   PROVE  Knows(t, accounts)
      BY <2>2, <2>3, <2>4 DEF Folding
    <3>2. ~InTheWay(s, accounts) /\ MineIn(s, accounts) = MineIn(t, accounts)
      BY <2>3, <3>1, SamePerson
    <3>3. Knows(s, accounts)
      BY <1>1, <2>3, <3>1, <3>2, KnownThen
    <3>4. PICK i \in At(accounts) : MineIn(s, accounts) = {i} /\ accounts[i].name = s.canonical
      BY <1>1, <3>3 DEF Knows
    <3>5. Named(s.canonical) = {i} /\ i \in Live
      BY <3>4, AtIsLive DEF Named, MineIn
    <3>6. x.id = i
      BY <2>0, <3>5
    <3> QED
      BY <2>2, <2>3, <3>1, <3>2, <3>4, <3>6 DEF Knows
  <2> QED
    BY <2>1, <2>3, <2>4, <2>5, ReadsFold
<1> QED
  BY <1>2, <1>3

LEMMA GrantFold ==
  ASSUME Inv, FoldInv, NEW c \in Calls, NEW inGroup \in BOOLEAN, Grant(c, inGroup)
  PROVE  FoldInv'
<1> DEFINE s == call[c]
           i == s.target.id
           t == [s EXCEPT !.at = "session"]
           r == [accounts[i] EXCEPT !.owns = @ \cup {Admin}]
           to == [accounts EXCEPT ![i] = r]
<1>1. s \in CallStates /\ s.at = "grant" /\ s.at \in Working
  BY CallFacts DEF Grant, Working, Steps
<1>2. /\ t \in CallStates /\ t.at = "session" /\ t.typed = s.typed /\ t.target = s.target
      /\ t.rest = s.rest
  BY <1>1, Onward DEF Steps
<1>3. CASE inGroup /\ i \notin Live
  BY <1>3, FailsFold DEF Grant
<1>4. \/ ~inGroup /\ Reads(c, t)
      \/ inGroup /\ i \notin Live
      \/ i \in Live /\ Writes(c, t, to)
  BY DEF Grant
<1> HIDE DEF t
<1>5. Apart(t) /\ t.typed = NoOne
  BY <1>1, <1>2, FoldFacts DEF Apart
<1>6. \A a : Folding(t, a)
  BY <1>2, <1>5 DEF Folding
<1>7. CASE Reads(c, t)
  BY <1>2, <1>5, <1>6, <1>7, ReadsFold
<1>8. CASE i \in Live /\ Writes(c, t, to)
  <2>0. accounts[i] \in Account
    BY <1>8, CallFacts DEF At
  <2>1. r \in Account /\ r.did = accounts[i].did
    BY <2>0, NamesAssumption DEF Account
  <2>2. At(to) = At(accounts) /\ to[i] = r /\ \A j \in At(accounts) : j # i => to[j] = accounts[j]
    <3> HIDE DEF r
    <3> QED
      BY <1>8, <2>1, Rewritten
  <2> HIDE DEF r, to
  <2>3. Stamped(to)
    BY <2>1, <2>2, FoldFacts, StampedStays
  <2> QED
    BY <1>2, <1>5, <1>6, <1>8, <2>3, WritesFold
<1> QED
  BY <1>3, <1>4, <1>7, <1>8

LEMMA SessionFold ==
  ASSUME Inv, FoldInv, NEW c \in Calls, Session(c)
  PROVE  FoldInv'
<1> DEFINE s == call[c]
           i == s.target.id
           r == [accounts[i] EXCEPT !.sessions = @ \cup {s.entry}]
           to == [accounts EXCEPT ![i] = r]
<1>1. /\ s \in CallStates /\ s.at = "session" /\ s.entry \in Entries
  BY CallFacts DEF Session, CallOK, Working, Steps
<1>2. CASE i \notin Live
  BY <1>2, FailsFold DEF Session
<1>3. CASE i \in Live
  <2>1. Writes(c, Done, to)
    BY <1>3 DEF Session
  <2>2. r \in Account /\ r.did = accounts[i].did
    BY <1>1, <1>3, CallFacts DEF Account, At
  <2>3. At(to) = At(accounts) /\ to[i] = r /\ \A j \in At(accounts) : j # i => to[j] = accounts[j]
    <3> HIDE DEF r
    <3> QED
      BY <1>3, <2>2, Rewritten
  <2> HIDE DEF r, to
  <2>4. Stamped(to)
    BY <2>2, <2>3, FoldFacts, StampedStays
  <2>5. Done \in CallStates /\ Done.at = "done" /\ Done.rest = {} /\ Done.target = NoOne
    BY StartsAndEnds DEF Done, Idle
  <2>6. Apart(Done) /\ Done.at \notin Working
    BY <2>5 DEF Apart, Working
  <2> QED
    BY <2>1, <2>4, <2>5, <2>6, WritesFold
<1> QED
  BY <1>2, <1>3

\* What others do is disturbing, and stamps nobody.
LEMMA OtherFold ==
  ASSUME Inv, FoldInv, Other
  PROVE  FoldInv'
<1>1. ASSUME NEW n \in Names, NEW k \in {"person", "service"}, Register(n, k) PROVE FoldInv'
  <2>1. /\ accounts' = [accounts EXCEPT ![nextId] = NewAccount(n, k)] /\ nextId <= MaxId
        /\ Elsewhere
    BY <1>1 DEF Register, FreshId
  <2> QED
    BY <2>1, AddedStamped, ElsewhereFold
<1>2. ASSUME NEW i \in Ids, DeleteUser(i) PROVE FoldInv'
  <2>1. accounts' = [accounts EXCEPT ![i] = NoOne] /\ Elsewhere
    BY <1>2 DEF DeleteUser
  <2>2. \A j \in At(accounts') : j \in At(accounts) /\ accounts'[j].did = accounts[j].did
    BY <2>1, CallFacts DEF At, Inv, StoreOK
  <2>3. Stamped(accounts')
    BY <2>2, StampedStays DEF FoldInv
  <2> QED
    BY <2>1, <2>3, ElsewhereFold
<1>3. ASSUME NEW i \in Ids, NEW x \in Things, Acquire(i, x) PROVE FoldInv'
  <2> DEFINE r == [accounts[i] EXCEPT !.owns = @ \cup {x}]
  <2>1. accounts' = [accounts EXCEPT ![i] = r] /\ i \in Live /\ Elsewhere
    BY <1>3 DEF Acquire
  <2>2. r \in Account /\ r.did = accounts[i].did
    BY <2>1 DEF Inv, StoreOK, Live, Account
  <2> DEFINE b == [accounts EXCEPT ![i] = r]
  <2>3. accounts' = b /\ At(b) = At(accounts) /\ b[i] = r
        /\ \A j \in At(accounts) : j # i => b[j] = accounts[j]
    <3> HIDE DEF r
    <3> QED
      BY <2>1, <2>2, Rewritten
  <2> HIDE DEF r, b
  <2>4. Stamped(accounts')
    BY <2>2, <2>3, StampedStays DEF FoldInv
  <2> QED
    BY <2>1, <2>4, ElsewhereFold
<1>4. ASSUME NEW e \in Entries, NEW n \in Names, DirectoryRenames(e, n) PROVE FoldInv'
  <2>1. accounts' = accounts /\ Elsewhere
    BY <1>4 DEF DirectoryRenames
  <2>2. Stamped(accounts')
    BY <2>1 DEF FoldInv
  <2> QED
    BY <2>1, <2>2, ElsewhereFold
<1> QED
  BY <1>1, <1>2, <1>3, <1>4 DEF Other

LEMMA SignInFold ==
  ASSUME Inv, FoldInv, NEW c \in Calls, SignInStep(c)
  PROVE  FoldInv'
<1>1. CASE \E e \in Entries, n \in Names : Begin(c, e, n)
  BY <1>1, BeginFold
<1>2. CASE LocalPassword(c) \/ DirectoryAccepts(c) \/ FindById(c) \/ FindByName(c) \/ FindByMail(c)
  BY <1>2, LocalPasswordFold, DirectoryAcceptsFold, FindByIdFold, FindByNameFold, FindByMailFold
<1>3. CASE \E i \in Ids : Merge(c, i)
  BY <1>3, MergeFold
<1>4. CASE NameCheck(c) \/ Rename(c) \/ HolderCheck(c) \/ SetDirectoryId(c)
  BY <1>4, NameCheckFold, RenameFold, HolderCheckFold, SetDirectoryIdFold
<1>5. CASE \E e \in Entries : OidcBegin(c, e)
  BY <1>5, OidcBeginFold
<1>6. CASE OidcFind(c) \/ Create(c) \/ Created(c) \/ Session(c)
  BY <1>6, OidcFindFold, CreateFold, CreatedFold, SessionFold
<1>7. CASE \E inGroup \in BOOLEAN : Grant(c, inGroup)
  BY <1>7, GrantFold
<1> QED
  BY <1>1, <1>2, <1>3, <1>4, <1>5, <1>6, <1>7 DEF SignInStep

LEMMA FoldInvariant == Spec => []FoldInv
<1>1. Init => FoldInv
  <2>1. SUFFICES ASSUME Init PROVE FoldInv
    OBVIOUS
  <2>2. Stamped(accounts)
    BY <2>1 DEF Init, Earlier, Stamped, At
  <2>3. \A c \in Calls : call[c] = Idle
    BY <2>1 DEF Init
  <2>4. Apart(Idle) /\ Idle.at \notin Working
    BY DEF Apart, Idle, Working
  <2> QED
    BY <2>2, <2>3, <2>4 DEF FoldInv
<1>2. Inv /\ FoldInv /\ [Next]_vars => FoldInv'
  <2>1. SUFFICES ASSUME Inv, FoldInv, [Next]_vars PROVE FoldInv'
    OBVIOUS
  <2>2. CASE UNCHANGED vars
    <3>1. accounts' = accounts /\ call' = call
      BY <2>2 DEF vars
    <3> QED
      BY <2>1, <3>1 DEF FoldInv
  <2> QED
    BY <2>1, <2>2, OtherFold, SignInFold DEF Next
<1> QED
  BY <1>1, <1>2, InvInductive, PTL DEF Spec

\* A directory sign-in that nobody disturbed ends with one account for its
\* entry, named and stamped as the directory says, however many candidates
\* there were and wherever they were found, unless a root name or a service
\* account is in the way.
THEOREM OnePersonOneAccount == Spec => []FoldedIntoOne
<1>1. Inv /\ FoldInv => FoldedIntoOne
  <2>1. SUFFICES ASSUME Inv, FoldInv, NEW c \in Calls,
                        call[c].at = "session", call[c].canonical # NoOne, call[c].typed # NoOne,
                        call[c].alone, call[c].canonical \notin Roots,
                        \A i \in MineIn(call[c], accounts) :
                          accounts[i].name \notin Roots /\ accounts[i].kind # "service"
                 PROVE  /\ MineIn(call[c], accounts) = {call[c].target.id}
                        /\ accounts[call[c].target.id].name = call[c].canonical
                        /\ call[c].entry \in WithId =>
                             accounts[call[c].target.id].did = call[c].entry
    BY AtIsLive DEF FoldedIntoOne, MineIn
  <2>2. ~InTheWay(call[c], accounts)
    BY <2>1 DEF InTheWay
  <2>3. Knows(call[c], accounts)
    BY <2>1, <2>2, KnownThen DEF Working, Steps
  <2> QED
    BY <2>1, <2>3 DEF Knows
<1> QED
  BY <1>1, InvInductive, FoldInvariant, PTL

-----------------------------------------------------------------------------
(* Nothing is lost but by an administrator's deletion.                     *)

\* Every thing and session that an account of e's held in store a is held by an
\* account of e's in store b.
NothingLost(a, b) ==
  \A e \in Entries : \A i \in At(a) : a[i].name \in Own[e] =>
    /\ \A x \in a[i].owns : \E j \in At(b) : b[j].name \in Own[e] /\ x \in b[j].owns
    /\ \A x \in a[i].sessions : \E j \in At(b) : b[j].name \in Own[e] /\ x \in b[j].sessions

RootsKept(a, b) ==
  \A i \in At(a) : a[i].name \in Roots => i \in At(b) /\ b[i].name = a[i].name

Kept(a, b) == NothingLost(a, b) /\ RootsKept(a, b)

\* Rows that stay with the same person and only gain.
LEMMA RowsThatStay ==
  ASSUME NEW a, NEW b,
         \A i \in At(a) : /\ i \in At(b)
                          /\ a[i].owns \subseteq b[i].owns /\ a[i].sessions \subseteq b[i].sessions
                          /\ a[i].name \in Roots => b[i].name = a[i].name
                          /\ \A e \in Entries : a[i].name \in Own[e] => b[i].name \in Own[e]
  PROVE  Kept(a, b)
  BY DEF Kept, NothingLost, RootsKept

\* One row that gains under its name.
LEMMA GainingKeeps ==
  ASSUME Inv, NEW i \in Live, NEW r \in Account, r.name = accounts[i].name,
         accounts[i].owns \subseteq r.owns, accounts[i].sessions \subseteq r.sessions
  PROVE  Kept(accounts, [accounts EXCEPT ![i] = r])
<1> DEFINE b == [accounts EXCEPT ![i] = r]
<1>1. At(b) = At(accounts) /\ b[i] = r /\ \A j \in At(accounts) : j # i => b[j] = accounts[j]
  BY Rewritten
<1> HIDE DEF b
<1>2. Kept(accounts, b)
  BY <1>1, RowsThatStay
<1> QED
  BY <1>2 DEF b

LEMMA AddingKeeps ==
  ASSUME Inv, NEW n \in Names, NEW k \in {"person", "service"}, nextId <= MaxId
  PROVE  Kept(accounts, [accounts EXCEPT ![nextId] = NewAccount(n, k)])
<1> DEFINE b == [accounts EXCEPT ![nextId] = NewAccount(n, k)]
<1>1. At(accounts) \subseteq At(b) /\ \A j \in At(accounts) : b[j] = accounts[j]
  BY AddedRow
<1> HIDE DEF b
<1>2. Kept(accounts, b)
  BY <1>1, RowsThatStay
<1> QED
  BY <1>2 DEF b

LEMMA StayingKeeps == Kept(accounts, accounts)
  BY RowsThatStay

\* The row a fold writes is the target's, with what both held.
LEMMA MergedRow ==
  ASSUME NEW a \in Account, NEW b \in Account
  PROVE  LET r == [a EXCEPT !.owns = @ \cup b.owns, !.sessions = @ \cup b.sessions]
         IN  /\ r \in Account
             /\ r.name = a.name
             /\ r.owns = a.owns \cup b.owns
             /\ r.sessions = a.sessions \cup b.sessions
  BY DEF Account

\* What the account folded away held, the target holds; where the target is
\* gone the fold goes through only with nothing to move.
LEMMA MergeLosesNothing ==
  ASSUME Inv, FoldInv, NEW c \in Calls, NEW from \in Ids, Merge(c, from)
  PROVE  Kept(accounts, accounts')
<1> DEFINE s == call[c]
           into == s.target.id
           to == Merged(from, into)
           both == into \in At(accounts) /\ from \in At(accounts)
           r == [accounts[into] EXCEPT !.owns = @ \cup accounts[from].owns,
                                       !.sessions = @ \cup accounts[from].sessions]
<1>1. /\ s.at = "merge" /\ s.at \in Working /\ s.target # NoOne /\ s.target \in Snapshot
      /\ from \in s.rest /\ CallOK(s, accounts, nextId) /\ s.entry \in Entries
  BY CallFacts DEF Merge, CallOK, Working, Steps, CallStates
<1>2. CASE MergeRefused(from, into)
  <2>1. accounts' = accounts
    BY <1>2 DEF Merge, Fails, Reads
  <2> QED
    BY <2>1, StayingKeeps
<1>3. CASE ~MergeRefused(from, into)
  <2>1. accounts' = to
    BY <1>3 DEF Merge, Writes
  <2>2. into # from /\ into \in Ids
    BY <1>1, FoldFacts DEF Apart, Snapshot
  <2>3. \A i \in Ids : to[i] = IF i = from THEN NoOne ELSE IF i = into /\ both THEN r
                               ELSE accounts[i]
    BY AtIsLive DEF Merged
  <2>4. \A i \in At(accounts) : accounts[i] \in Account /\ i \in Ids
    BY CallFacts DEF At
  <2>5. both => /\ r \in Account /\ r.name = accounts[into].name
                /\ r.owns = accounts[into].owns \cup accounts[from].owns
                /\ r.sessions = accounts[into].sessions \cup accounts[from].sessions
    BY <2>4, MergedRow
  <2>6. from \in At(accounts) /\ into \notin At(accounts) =>
          accounts[from].owns = {} /\ accounts[from].sessions = {}
    BY <1>3, AtIsLive DEF MergeRefused
  <2>7. /\ from \in At(accounts) => /\ accounts[from].name \in Own[s.entry]
                                    /\ accounts[from].name \notin Roots
        /\ into \in At(accounts) => accounts[into].name \in Own[s.entry]
    BY <1>1 DEF CallOK, Fits
  <2> HIDE DEF r, to, both
  <2>8. At(to) = At(accounts) \ {from}
    BY <2>2, <2>3, <2>5, NoOneAssumption, <2>4 DEF At, both
  <2>9. ASSUME NEW i \in At(accounts), i # from
        PROVE  /\ i \in At(to) /\ to[i].name = accounts[i].name
               /\ accounts[i].owns \subseteq to[i].owns
               /\ accounts[i].sessions \subseteq to[i].sessions
    BY <2>3, <2>4, <2>5, <2>8, <2>9
  <2>10. RootsKept(accounts, to)
    BY <2>7, <2>9 DEF RootsKept
  <2>11. NothingLost(accounts, to)
    <3> SUFFICES ASSUME NEW e \in Entries, NEW i \in At(accounts), accounts[i].name \in Own[e]
                 PROVE  /\ \A x \in accounts[i].owns :
                             \E j \in At(to) : to[j].name \in Own[e] /\ x \in to[j].owns
                        /\ \A x \in accounts[i].sessions :
                             \E j \in At(to) : to[j].name \in Own[e] /\ x \in to[j].sessions
      BY DEF NothingLost
    <3>1. CASE i # from
      BY <2>9, <3>1
    <3>2. CASE i = from /\ into \notin At(accounts)
      BY <2>6, <3>2
    <3>3. CASE i = from /\ into \in At(accounts)
      <4>1. e = s.entry
        BY <1>1, <2>7, <3>3, NamesAssumption
      <4>2. /\ into \in At(to) /\ to[into].name \in Own[e]
            /\ accounts[i].owns \subseteq to[into].owns
            /\ accounts[i].sessions \subseteq to[into].sessions
        BY <2>2, <2>3, <2>5, <2>7, <2>8, <3>3, <4>1 DEF both
      <4> QED
        BY <4>2
    <3> QED
      BY <3>1, <3>2, <3>3
  <2> QED
    BY <2>1, <2>10, <2>11 DEF Kept
<1> QED
  BY <1>2, <1>3

LEMMA RenameLosesNothing ==
  ASSUME Inv, NEW c \in Calls, Rename(c)
  PROVE  Kept(accounts, accounts')
<1> DEFINE s == call[c]
           i == s.target.id
           r == [accounts[i] EXCEPT !.name = s.canonical]
           to == [accounts EXCEPT ![i] = r]
<1>1. /\ s.at = "rename" /\ s.at \in Working /\ s.target # NoOne /\ s.canonical \in Names
      /\ s.entry \in Entries /\ s.canonical \in Own[s.entry] /\ s.target.name \notin Roots
      /\ Fits(s.target, s.entry, accounts, nextId)
  BY CallFacts DEF Rename, CallOK, Working, Steps, CallStates
<1>2. CASE i \notin Live \/ Named(s.canonical) \ {i} # {}
  <2>1. accounts' = accounts
    BY <1>2 DEF Rename, Fails, Reads, Writes
  <2> QED
    BY <2>1, StayingKeeps
<1>3. CASE ~(i \notin Live \/ Named(s.canonical) \ {i} # {})
  <2>1. accounts' = to /\ i \in Live
    BY <1>3 DEF Rename, Writes
  <2>2. accounts[i] \in Account
    BY <2>1, CallFacts DEF At
  <2>3. /\ r \in Account /\ r.name = s.canonical /\ r.owns = accounts[i].owns
        /\ r.sessions = accounts[i].sessions
    BY <1>1, <2>2 DEF Account
  <2>4. At(to) = At(accounts) /\ to[i] = r /\ \A j \in At(accounts) : j # i => to[j] = accounts[j]
    <3> HIDE DEF r
    <3> QED
      BY <2>1, <2>3, Rewritten
  <2>5. accounts[i].name \in Own[s.entry] /\ accounts[i].name \notin Roots
    BY <1>1, <2>1, AtIsLive DEF Fits
  <2>6. \A e \in Entries : accounts[i].name \in Own[e] => s.canonical \in Own[e]
    BY <1>1, <2>5, NamesAssumption
  <2> HIDE DEF r, to
  <2> QED
    BY <2>1, <2>3, <2>4, <2>5, <2>6, RowsThatStay
<1> QED
  BY <1>2, <1>3

LEMMA OtherWritesKeep ==
  ASSUME Inv, NEW c \in Calls,
         \/ SetDirectoryId(c) \/ Create(c) \/ Session(c) \/ \E inGroup \in BOOLEAN : Grant(c, inGroup)
  PROVE  Kept(accounts, accounts')
<1> DEFINE s == call[c]
           i == s.target.id
<1>1. i \in Live => accounts[i] \in Account
  BY CallFacts DEF At
<1>2. CASE accounts' = accounts
  BY <1>2, StayingKeeps
<1>3. CASE SetDirectoryId(c) /\ accounts' # accounts
  <2> DEFINE r == [accounts[i] EXCEPT !.did = s.entry]
  <2>1. accounts' = [accounts EXCEPT ![i] = r] /\ i \in Live
    BY <1>3 DEF SetDirectoryId, Fails, Reads, Writes
  <2>2. s.entry \in Entries
    BY <1>3, CallFacts DEF SetDirectoryId, CallOK, Working, Steps
  <2>3. /\ r \in Account /\ r.name = accounts[i].name /\ r.owns = accounts[i].owns
        /\ r.sessions = accounts[i].sessions
    BY <1>1, <2>1, <2>2 DEF Account
  <2> HIDE DEF r
  <2> QED
    BY <2>1, <2>3, GainingKeeps
<1>4. CASE Session(c) /\ accounts' # accounts
  <2> DEFINE r == [accounts[i] EXCEPT !.sessions = @ \cup {s.entry}]
  <2>1. accounts' = [accounts EXCEPT ![i] = r] /\ i \in Live
    BY <1>4 DEF Session, Fails, Reads, Writes
  <2>2. s.entry \in Entries
    BY <1>4, CallFacts DEF Session, CallOK, Working, Steps
  <2>3. /\ r \in Account /\ r.name = accounts[i].name /\ r.owns = accounts[i].owns
        /\ r.sessions = accounts[i].sessions \cup {s.entry}
    BY <1>1, <2>1, <2>2 DEF Account
  <2> HIDE DEF r
  <2> QED
    BY <2>1, <2>3, GainingKeeps
<1>5. CASE (\E inGroup \in BOOLEAN : Grant(c, inGroup)) /\ accounts' # accounts
  <2> DEFINE r == [accounts[i] EXCEPT !.owns = @ \cup {Admin}]
  <2>1. accounts' = [accounts EXCEPT ![i] = r] /\ i \in Live
    BY <1>5 DEF Grant, Fails, Reads, Writes
  <2>2. /\ r \in Account /\ r.name = accounts[i].name /\ r.owns = accounts[i].owns \cup {Admin}
        /\ r.sessions = accounts[i].sessions
    BY <1>1, <2>1, NamesAssumption DEF Account
  <2> HIDE DEF r
  <2> QED
    BY <2>1, <2>2, GainingKeeps
<1>6. CASE Create(c) /\ accounts' # accounts
  <2>1. /\ accounts' = [accounts EXCEPT ![nextId] = NewAccount(s.canonical, "person")]
        /\ nextId <= MaxId
    BY <1>6 DEF Create, Fails, Reads, Writes, FreshId
  <2>2. s.canonical \in Own[s.entry] /\ s.entry \in Entries
    BY <1>6, CallFacts DEF Create, CallOK, Working, Steps
  <2>3. s.canonical \in Names
    BY <2>2, NamesAssumption
  <2> QED
    BY <2>1, <2>3, AddingKeeps
<1> QED
  BY <1>2, <1>3, <1>4, <1>5, <1>6

LEMMA SignInLosesNothing ==
  ASSUME Inv, FoldInv, NEW c \in Calls, SignInStep(c)
  PROVE  Kept(accounts, accounts')
<1>1. CASE \/ \E e \in Entries, n \in Names : Begin(c, e, n)
           \/ LocalPassword(c) \/ DirectoryAccepts(c) \/ FindById(c) \/ FindByName(c)
  <2>1. accounts' = accounts
    BY <1>1 DEF Begin, LocalPassword, DirectoryAccepts, FindById, FindByName, Reads
  <2> QED
    BY <2>1, StayingKeeps
<1>2. CASE FindByMail(c) \/ NameCheck(c) \/ HolderCheck(c)
  <2>1. accounts' = accounts
    BY <1>2 DEF FindByMail, NameCheck, HolderCheck, Reads
  <2> QED
    BY <2>1, StayingKeeps
<1>3. CASE (\E e \in Entries : OidcBegin(c, e)) \/ OidcFind(c) \/ Created(c)
  <2>1. accounts' = accounts
    BY <1>3 DEF OidcBegin, OidcFind, Created, Fails, Reads
  <2> QED
    BY <2>1, StayingKeeps
<1>4. CASE (\E i \in Ids : Merge(c, i)) \/ Rename(c)
  BY <1>4, MergeLosesNothing, RenameLosesNothing
<1>5. CASE \/ SetDirectoryId(c) \/ Create(c) \/ Session(c)
           \/ \E inGroup \in BOOLEAN : Grant(c, inGroup)
  BY <1>5, OtherWritesKeep
<1> QED
  BY <1>1, <1>2, <1>3, <1>4, <1>5 DEF SignInStep

LEMMA OthersLoseNothing ==
  ASSUME Inv, Other, ~ \E i \in Ids : DeleteUser(i)
  PROVE  Kept(accounts, accounts')
<1>1. ASSUME NEW n \in Names, NEW k \in {"person", "service"}, Register(n, k)
      PROVE  Kept(accounts, accounts')
  <2>1. /\ accounts' = [accounts EXCEPT ![nextId] = NewAccount(n, k)] /\ nextId <= MaxId
    BY <1>1 DEF Register, FreshId
  <2> QED
    BY <2>1, AddingKeeps
<1>2. ASSUME NEW i \in Ids, NEW x \in Things, Acquire(i, x) PROVE Kept(accounts, accounts')
  <2> DEFINE r == [accounts[i] EXCEPT !.owns = @ \cup {x}]
  <2>1. accounts' = [accounts EXCEPT ![i] = r] /\ i \in Live
    BY <1>2 DEF Acquire
  <2>2. /\ r \in Account /\ r.name = accounts[i].name /\ r.owns = accounts[i].owns \cup {x}
        /\ r.sessions = accounts[i].sessions
    BY <2>1 DEF Inv, StoreOK, Live, Account
  <2> HIDE DEF r
  <2> QED
    BY <2>1, <2>2, GainingKeeps
<1>3. ASSUME NEW e \in Entries, NEW n \in Names, DirectoryRenames(e, n)
      PROVE  Kept(accounts, accounts')
  <2>1. accounts' = accounts
    BY <1>3 DEF DirectoryRenames
  <2> QED
    BY <2>1, StayingKeeps
<1> QED
  BY <1>1, <1>2, <1>3 DEF Other

LEMMA StepsLoseNothing ==
  ASSUME Inv, FoldInv, [Next]_vars, ~ \E i \in Ids : DeleteUser(i)
  PROVE  Kept(accounts, accounts')
<1>1. CASE UNCHANGED vars
  <2>1. accounts' = accounts
    BY <1>1 DEF vars
  <2> QED
    BY <2>1, StayingKeeps
<1> QED
  BY <1>1, SignInLosesNothing, OthersLoseNothing DEF Next

\* Folding accounts loses nothing: what the accounts of an entry hold together
\* goes only when an administrator deletes one, whatever merges run into each
\* other and wherever a request stops.
THEOREM FoldingLosesNothing == Spec => NothingLostInMerge
<1>1. Inv /\ FoldInv /\ [Next]_vars =>
        [\A e \in Entries :
           \/ /\ HeldBy(e).owns \subseteq HeldBy(e)'.owns
              /\ HeldBy(e).sessions \subseteq HeldBy(e)'.sessions
           \/ \E i \in Ids : DeleteUser(i)]_vars
  <2>1. SUFFICES ASSUME Inv, FoldInv, [Next]_vars, ~ \E i \in Ids : DeleteUser(i),
                        NEW e \in Entries
                 PROVE  /\ HeldBy(e).owns \subseteq HeldBy(e)'.owns
                        /\ HeldBy(e).sessions \subseteq HeldBy(e)'.sessions
    OBVIOUS
  <2>2. NothingLost(accounts, accounts')
    BY <2>1, StepsLoseNothing DEF Kept
  <2>3. Live = At(accounts) /\ Live' = At(accounts')
    BY DEF Live, At
  <2>4. \A i \in Live : accounts[i].name \in Own[e] =>
          /\ \A x \in accounts[i].owns :
               \E j \in Live' : accounts'[j].name \in Own[e] /\ x \in accounts'[j].owns
          /\ \A x \in accounts[i].sessions :
               \E j \in Live' : accounts'[j].name \in Own[e] /\ x \in accounts'[j].sessions
    BY <2>2, <2>3 DEF NothingLost
  <2> QED
    BY <2>4 DEF HeldBy
<1> QED
  BY <1>1, InvInductive, FoldInvariant, PTL DEF Spec, NothingLostInMerge

\* An account under a root name is neither renamed nor folded away, though a
\* sign-in looks at names it has read long before; only an administrator
\* deletes it.
THEOREM RootsAreLeftAlone == Spec => RootsStay
<1>1. Inv /\ FoldInv /\ [Next]_vars =>
        [\A i \in Live : accounts[i].name \in Roots =>
           \/ i \in Live' /\ accounts'[i].name = accounts[i].name
           \/ DeleteUser(i)]_vars
  <2>1. SUFFICES ASSUME Inv, FoldInv, [Next]_vars, NEW i \in Live, accounts[i].name \in Roots,
                        ~DeleteUser(i)
                 PROVE  i \in Live' /\ accounts'[i].name = accounts[i].name
    OBVIOUS
  <2>2. Live = At(accounts) /\ Live' = At(accounts')
    BY DEF Live, At
  <2>3. CASE ~ \E j \in Ids : DeleteUser(j)
    BY <2>1, <2>2, <2>3, StepsLoseNothing DEF Kept, RootsKept
  <2>4. ASSUME NEW j \in Ids, DeleteUser(j)
        PROVE  i \in Live' /\ accounts'[i].name = accounts[i].name
    <3>1. accounts' = [accounts EXCEPT ![j] = NoOne] /\ i # j
      BY <2>1, <2>4 DEF DeleteUser
    <3>2. accounts'[i] = accounts[i] /\ i \in Ids /\ accounts[i] # NoOne
      BY <2>1, <3>1 DEF Inv, StoreOK, Live
    <3> QED
      BY <3>2 DEF Live
  <2> QED
    BY <2>3, <2>4
<1> QED
  BY <1>1, InvInductive, FoldInvariant, PTL DEF Spec, RootsStay

=============================================================================
