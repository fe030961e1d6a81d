------------------------- MODULE DirectoryAccounts -------------------------
(***************************************************************************)
(* Accounts and the sign-ins that create, fold together and rename them    *)
(* (sign_in_service.rs, auth_service.rs, the user tables of the store).    *)
(*                                                                         *)
(* A person of the directory may have several accounts: one under the      *)
(* username, one under a former username, one under the e-mail address.    *)
(* directory_account looks the candidates up one query at a time, folds    *)
(* them into one, renames it and stamps it with the directory's immutable  *)
(* id; every query is a step, so other sign-ins, administrators and the    *)
(* directory itself move between them.  A request the directory refuses,   *)
(* or whose caller goes away at an await, takes no further step: nothing   *)
(* makes a sign-in go on.  Usernames are UNIQUE, directory ids are UNIQUE, and every row   *)
(* of an account references users(id) with ON DELETE CASCADE.              *)
(***************************************************************************)
EXTENDS Naturals

CONSTANTS
  Entries,    \* entries of the directory (or subjects of the OIDC provider)
  WithId,     \* the entries the directory gives an immutable id for
  Names,      \* usernames
  Own,        \* Own[e]: the sign-in names that are entry e's, at any time
  Mail,       \* Mail[e]: the e-mail address, one of them
  Roots,      \* SANSHAIN_ROOT_USERS
  Things,     \* what an account owns: roles, memberships, favourites, tokens
  TokenNames, \* the ones that are API tokens, by their names
  Admin,      \* the Admin role, the one an OIDC group confers
  Calls,      \* sign-in requests in flight
  MaxEarlier, \* bound on the accounts there are at first
  MaxId,      \* bound on the accounts ever created
  MaxOthers,  \* bound on the steps of everyone who is not signing in
  NoOne       \* no account, no name, no entry

\* The environment the code counts on: a sign-in name of one entry is never
\* given to another.  The e-mail address is one of the names of its entry.
ASSUME NamesAssumption ==
  /\ WithId \subseteq Entries
  /\ Roots \subseteq Names
  /\ TokenNames \subseteq Things
  /\ Admin \in Things
  /\ Own \in [Entries -> SUBSET Names]
  /\ Mail \in [Entries -> Names]
  /\ \A e \in Entries : Mail[e] \in Own[e]
  /\ \A e, f \in Entries : e # f => Own[e] \cap Own[f] = {}

ASSUME BoundsAssumption ==
  /\ MaxId \in Nat
  /\ MaxEarlier \in 0 .. MaxId
  /\ MaxOthers \in Nat

VARIABLES
  accounts,   \* accounts[i]: the row of users with all it owns, or NoOne
  nextId,     \* the AUTOINCREMENT counter of users
  called,     \* called[e]: the username the directory now has for e
  others,     \* steps others have made, up to MaxOthers
  call        \* call[c]: the local variables of sign-in c

vars == <<accounts, nextId, called, others, call>>

Ids == 1 .. MaxId

\* A user row with its profile, all it owns and its sessions: of a person (by
\* registration or a sign-in) or a service account, which has no password.
Account ==
  [name: Names, kind: {"person", "service"},
   did: Entries \cup {NoOne}, owns: SUBSET Things, sessions: SUBSET Entries]

NewAccount(n, k) ==
  [name |-> n, kind |-> k, did |-> NoOne, owns |-> {}, sessions |-> {}]

Live == {i \in Ids : accounts[i] # NoOne}

Named(n) == {i \in Live : accounts[i].name = n}

Holding(e) == {i \in Live : accounts[i].did = e}

\* find_user and find_user_by_directory_id: the id and name of the one row, or
\* nothing.
Snapshot == [id: Ids, name: Names]

Seen(found) ==
  IF found = {} THEN NoOne
  ELSE LET i == CHOOSE i \in found : TRUE
       IN [id |-> i, name |-> accounts[i].name]

ASSUME NoOneAssumption == NoOne \notin Names \cup Entries \cup Account \cup Snapshot

\* Mutant: the lowest id that is free.
FreshIdFreed == CHOOSE i \in Ids \ Live : \A j \in Ids \ Live : i <= j

\* The id of a new row: AUTOINCREMENT, so the id of a deleted account is never
\* given out again.
FreshId == nextId

-----------------------------------------------------------------------------
(* The local variables of a sign-in.                                       *)

\* The order in which directory_account considers the accounts it finds.
Ways == {"id", "name", "typed", "mail"}

Steps == {"idle", "done", "bind", "byid", "byname", "bymail", "merge", "namecheck",
          "rename", "holder", "setid", "oidc", "create", "created", "grant",
          "session"}

Unseen == [w \in Ways |-> NoOne]

Idle ==
  [at |-> "idle", entry |-> NoOne, canonical |-> NoOne, typed |-> NoOne,
   cand |-> Unseen, target |-> NoOne, rest |-> {}, alone |-> TRUE]

Done == [Idle EXCEPT !.at = "done"]

\* "alone" is history: no one else changed accounts or the directory since
\* the request began.
CallStates ==
  [at: Steps, entry: Entries \cup {NoOne}, canonical: Names \cup {NoOne},
   typed: Names \cup {NoOne}, cand: [Ways -> Snapshot \cup {NoOne}],
   target: Snapshot \cup {NoOne}, rest: SUBSET Ids, alone: BOOLEAN]

\* Every other sign-in under way is no longer alone.
Disturbed(d) ==
  IF call[d].at \in {"idle", "done"} THEN call[d] ELSE [call[d] EXCEPT !.alone = FALSE]

\* Sign-in c moves on without a write, or with one others may notice.
Reads(c, s) ==
  /\ call' = [call EXCEPT ![c] = s]
  /\ UNCHANGED <<accounts, nextId, called, others>>

Writes(c, s, to) ==
  /\ accounts' = to
  /\ call' = [d \in Calls |->
                IF d = c THEN s
                ELSE IF to = accounts THEN call[d] ELSE Disturbed(d)]
  /\ UNCHANGED <<called, others>>

\* A statement the store refuses ends the request with an error.
Fails(c) == Reads(c, Done)

-----------------------------------------------------------------------------
(* Checking the password.                                                  *)

\* auth_login: the account under the typed name is read before the directory
\* is asked.  A service account is refused here.
Begin(c, e, typed) ==
  /\ call[c].at = "idle"
  /\ typed \in {called[e], Mail[e]}
  /\ \A i \in Named(typed) : accounts[i].kind # "service"
  /\ Reads(c, [Idle EXCEPT !.at = "bind", !.entry = e, !.typed = typed,
                           !.cand = [Unseen EXCEPT !["typed"] = Seen(Named(typed))]])

\* verify_password_local_first: a local password that matches signs in at
\* once.  Whether the account has a password its person knows is left open.
LocalPassword(c) ==
  LET known == call[c].cand["typed"]
  IN /\ call[c].at = "bind"
     /\ known # NoOne
     /\ Reads(c, [call[c] EXCEPT !.at = "session", !.target = known,
                                 !.cand = Unseen])

\* The directory accepts the password and says who the person is.
DirectoryAccepts(c) ==
  /\ call[c].at = "bind"
  /\ Reads(c, [call[c] EXCEPT !.at = "byid",
                              !.canonical = called[call[c].entry]])

-----------------------------------------------------------------------------
(* directory_account.                                                      *)

\* Service accounts are no candidates.
Considered(found) ==
  Seen({i \in found : accounts[i].kind # "service"})

FindById(c) ==
  /\ call[c].at = "byid"
  /\ Reads(c, [call[c] EXCEPT !.at = "byname",
                 !.cand["id"] = IF call[c].entry \in WithId
                                THEN Considered(Holding(call[c].entry))
                                ELSE NoOne])

FindByName(c) ==
  /\ call[c].at = "byname"
  /\ Reads(c, [call[c] EXCEPT !.at = "bymail",
                 !.cand["name"] = Considered(Named(call[c].canonical))])

\* Candidates are pushed in the order id, name, typed, mail; an account found
\* again keeps the row read first.
Precedes(v, w) ==
  \/ v = "id" /\ w # "id"
  \/ v = "name" /\ w \in {"typed", "mail"}
  \/ v = "typed" /\ w = "mail"

Pushed(cand) ==
  {w \in Ways : /\ cand[w] # NoOne
                /\ \A v \in Ways : Precedes(v, w) /\ cand[v] # NoOne
                                     => cand[v].id # cand[w].id}

\* The candidate of that name, or the first one.
Target(cand, canonical) ==
  LET named == {w \in Pushed(cand) : cand[w].name = canonical}
      pool  == IF named # {} THEN named ELSE Pushed(cand)
  IN IF pool = {} THEN NoOne
     ELSE cand[CHOOSE w \in pool : \A v \in pool : ~Precedes(v, w)]

\* Mutant: root accounts are folded like others.
OthersRootOrNot(cand, target) ==
  {cand[w].id : w \in {v \in Pushed(cand) : cand[v].id # target.id}}

\* The accounts to fold into the target: neither side may be a root name.
Others(cand, target) ==
  {cand[w].id : w \in {v \in Pushed(cand) :
                         /\ cand[v].id # target.id
                         /\ cand[v].name \notin Roots
                         /\ target.name \notin Roots}}

FindByMail(c) ==
  LET s      == call[c]
      cand   == [s.cand EXCEPT !["mail"] = Considered(Named(Mail[s.entry]))]
      target == Target(cand, s.canonical)
      rest   == IF target = NoOne THEN {} ELSE Others(cand, target)
  IN /\ s.at = "bymail"
     /\ Reads(c, [s EXCEPT !.cand = Unseen, !.target = target, !.rest = rest,
                    !.at = IF target = NoOne THEN "create"
                           ELSE IF rest # {} THEN "merge" ELSE "namecheck"])

\* Mutant: a target that is gone refuses nothing.
MergeRefusedForTokens(from, into) ==
  /\ {from, into} \subseteq Live
  /\ accounts[from].owns \cap accounts[into].owns \cap TokenNames # {}

\* merge_user_into, one transaction: rows move to the target (grants and
\* memberships it already has stay behind and go with the account), then the
\* account is deleted.  Refused when a row would reference a target that is
\* gone, and when the target has an API token of the same name.
MergeRefused(from, into) ==
  /\ from \in Live
  /\ \/ /\ into \notin Live
        /\ accounts[from].owns # {} \/ accounts[from].sessions # {}
     \/ /\ into \in Live
        /\ accounts[from].owns \cap accounts[into].owns \cap TokenNames # {}

\* Mutant: the account that was folded away stays.
MergedNotDeleted(from, into) ==
  [i \in Ids |->
     IF i = into /\ into \in Live /\ from \in Live
     THEN [accounts[into] EXCEPT !.owns = @ \cup accounts[from].owns]
     ELSE accounts[i]]

Merged(from, into) ==
  [i \in Ids |->
     IF i = from THEN NoOne
     ELSE IF i = into /\ into \in Live /\ from \in Live
     THEN [accounts[into] EXCEPT
             !.owns = @ \cup accounts[from].owns,
             !.sessions = @ \cup accounts[from].sessions]
     ELSE accounts[i]]

Merge(c, from) ==
  LET s == call[c]
  IN /\ s.at = "merge"
     /\ from \in s.rest
     /\ IF MergeRefused(from, s.target.id) THEN Fails(c)
        ELSE /\ Writes(c, [s EXCEPT !.rest = @ \ {from},
                             !.at = IF s.rest = {from} THEN "namecheck" ELSE "merge"],
                       Merged(from, s.target.id))
             /\ UNCHANGED nextId

\* Is the name the directory gives free, or the target's own?
NameCheck(c) ==
  LET s     == call[c]
      taken == Named(s.canonical) \ {s.target.id} # {}
  IN /\ s.at = "namecheck"
     /\ Reads(c, [s EXCEPT !.at =
                    IF /\ s.target.name # s.canonical
                       /\ ~taken
                       /\ s.target.name \notin Roots
                       /\ s.canonical \notin Roots
                    THEN "rename" ELSE "holder"])

\* rename_user: no row when the target is gone; refused when the name was
\* taken since.
Rename(c) ==
  LET s    == call[c]
      i    == s.target.id
      next == [s EXCEPT !.at = "holder", !.target.name = s.canonical]
  IN /\ s.at = "rename"
     /\ IF i \in Live /\ Named(s.canonical) \ {i} # {} THEN Fails(c)
        ELSE /\ Writes(c, next, IF i \in Live
                                THEN [accounts EXCEPT ![i].name = s.canonical]
                                ELSE accounts)
             /\ UNCHANGED nextId

\* The id is stamped unless another account holds it.
HolderCheck(c) ==
  LET s == call[c]
  IN /\ s.at = "holder"
     /\ Reads(c, [s EXCEPT !.at =
                    IF s.entry \in WithId /\ Holding(s.entry) \subseteq {s.target.id}
                    THEN "setid" ELSE "session"])

\* set_directory_id: refused when the account is gone (foreign key) or another
\* account holds the id (unique index).
SetDirectoryId(c) ==
  LET s == call[c]
      i == s.target.id
  IN /\ s.at = "setid"
     /\ IF i \notin Live \/ Holding(s.entry) \ {i} # {} THEN Fails(c)
        ELSE /\ Writes(c, [s EXCEPT !.at = "session"],
                       [accounts EXCEPT ![i].did = s.entry])
             /\ UNCHANGED nextId

-----------------------------------------------------------------------------
(* login_oidc, and what every sign-in ends with.                           *)

\* The provider's username is looked up; a service account is refused.
OidcBegin(c, e) ==
  /\ call[c].at = "idle"
  /\ Reads(c, [Idle EXCEPT !.at = "oidc", !.entry = e, !.canonical = called[e]])

OidcFind(c) ==
  LET s     == call[c]
      found == Seen(Named(s.canonical))
  IN /\ s.at = "oidc"
     /\ IF found # NoOne /\ accounts[found.id].kind = "service" THEN Fails(c)
        ELSE Reads(c, [s EXCEPT !.target = found,
                         !.at = IF found = NoOne THEN "create" ELSE "grant"])

\* create_user inserts, refused when the name was taken since, and reads the
\* row back by its name.  OIDC sign-ins never consult a directory id.
Create(c) ==
  LET s == call[c]
  IN /\ s.at = "create"
     /\ IF Named(s.canonical) # {} THEN Fails(c) /\ UNCHANGED nextId
        ELSE /\ nextId <= MaxId
             /\ Writes(c, [s EXCEPT !.at = "created"],
                       [accounts EXCEPT ![FreshId] = NewAccount(s.canonical, "person")])
             /\ nextId' = nextId + 1

Created(c) ==
  LET s     == call[c]
      found == Seen(Named(s.canonical))
      oidc  == s.typed = NoOne
  IN /\ s.at = "created"
     /\ IF found = NoOne THEN Fails(c)
        ELSE Reads(c, [s EXCEPT !.target = found,
                         !.at = IF oidc THEN "grant"
                                ELSE IF s.entry \in WithId THEN "setid"
                                ELSE "session"])

\* The Admin role of the configured group, for those in it.
Grant(c, inGroup) ==
  LET s == call[c]
      i == s.target.id
      next == [s EXCEPT !.at = "session"]
  IN /\ s.at = "grant"
     /\ IF ~inGroup THEN Reads(c, next)
        ELSE IF i \notin Live THEN Fails(c)
        ELSE /\ Writes(c, next, [accounts EXCEPT ![i].owns = @ \cup {Admin}])
             /\ UNCHANGED nextId

\* refresh_provider_identity writes the profile row and create_session the
\* session; either is refused when the account is gone.
Session(c) ==
  LET s == call[c]
      i == s.target.id
  IN /\ s.at = "session"
     /\ IF i \notin Live THEN Fails(c)
        ELSE /\ Writes(c, Done, [accounts EXCEPT ![i].sessions = @ \cup {s.entry}])
             /\ UNCHANGED nextId

-----------------------------------------------------------------------------
(* Everyone else.                                                          *)

Elsewhere ==
  /\ others < MaxOthers
  /\ others' = others + 1
  /\ call' = [d \in Calls |-> Disturbed(d)]

\* register_user and create_service_account: root names are reserved.
Register(n, k) ==
  /\ n \in Names \ Roots
  /\ Named(n) = {}
  /\ nextId <= MaxId
  /\ accounts' = [accounts EXCEPT ![FreshId] = NewAccount(n, k)]
  /\ nextId' = nextId + 1
  /\ Elsewhere
  /\ UNCHANGED called

\* admin_delete_user, with the rows that reference the account.
DeleteUser(i) ==
  /\ i \in Live
  /\ accounts' = [accounts EXCEPT ![i] = NoOne]
  /\ Elsewhere
  /\ UNCHANGED <<nextId, called>>

\* grant_user_role, add_group_member, create_api_token and the like.
Acquire(i, x) ==
  /\ i \in Live
  /\ x \in Things \ accounts[i].owns
  /\ accounts' = [accounts EXCEPT ![i].owns = @ \cup {x}]
  /\ Elsewhere
  /\ UNCHANGED <<nextId, called>>

\* The directory renames an entry.
DirectoryRenames(e, n) ==
  /\ n \in Own[e] \ {called[e]}
  /\ called' = [called EXCEPT ![e] = n]
  /\ Elsewhere
  /\ UNCHANGED <<accounts, nextId>>

-----------------------------------------------------------------------------
\* Some time after claim_root_usernames: what earlier sign-ins, registrations
\* and administrators have left under the names of the entries.  Ids are
\* interchangeable, so the stamped accounts come first; they are people's.
Earlier ==
  {a \in [Ids -> {NoOne} \cup {x \in Account : x.sessions = {} /\ x.name \in UNION {Own[e] : e \in Entries}}] :
     /\ \A i \in Ids : a[i] # NoOne => i <= MaxEarlier
     /\ \A i, j \in Ids : i < j => (a[i] = NoOne => a[j] = NoOne)
     /\ \A i, j \in Ids : i < j /\ a[j] # NoOne /\ a[i] # NoOne
                        => (a[i].did = NoOne => a[j].did = NoOne)
     /\ \A i \in Ids : a[i] # NoOne /\ a[i].did # NoOne
                        => a[i].did \in WithId /\ a[i].name \in Own[a[i].did] /\ a[i].kind = "person"
     /\ \A i, j \in Ids : i # j /\ a[i] # NoOne /\ a[j] # NoOne
                        => /\ a[i].name # a[j].name
                           /\ a[i].did # a[j].did \/ a[i].did = NoOne}

Init ==
  /\ accounts \in Earlier
  /\ nextId = MaxEarlier + 1
  /\ called \in [Entries -> Names]
  /\ \A e \in Entries : called[e] \in Own[e]
  /\ others = 0
  /\ call = [c \in Calls |-> Idle]

SignInStep(c) ==
  \/ \E e \in Entries, n \in Names : Begin(c, e, n)
  \/ LocalPassword(c)
  \/ DirectoryAccepts(c)
  \/ FindById(c)
  \/ FindByName(c)
  \/ FindByMail(c)
  \/ \E i \in Ids : Merge(c, i)
  \/ NameCheck(c)
  \/ Rename(c)
  \/ HolderCheck(c)
  \/ SetDirectoryId(c)
  \/ \E e \in Entries : OidcBegin(c, e)
  \/ OidcFind(c)
  \/ Create(c)
  \/ Created(c)
  \/ \E inGroup \in BOOLEAN : Grant(c, inGroup)
  \/ Session(c)

Other ==
  \/ \E n \in Names, k \in {"person", "service"} : Register(n, k)
  \/ \E i \in Ids : DeleteUser(i)
  \/ \E i \in Ids, x \in Things : Acquire(i, x)
  \/ \E e \in Entries, n \in Names : DirectoryRenames(e, n)

Next == Other \/ \E c \in Calls : SignInStep(c)

Spec == Init /\ [][Next]_vars

-----------------------------------------------------------------------------
(* Properties.                                                             *)

\* Usernames and directory ids are unique over the accounts.
Unique ==
  \A i, j \in Live : i # j =>
    /\ accounts[i].name # accounts[j].name
    /\ accounts[i].did = accounts[j].did => accounts[i].did = NoOne

\* Types, with the two unique indexes of the schema; ids are never reused.
TypeOK ==
  /\ accounts \in [Ids -> Account \cup {NoOne}]
  /\ nextId \in 1 .. MaxId + 1
  /\ \A i \in Live : i < nextId
  /\ called \in [Entries -> Names]
  /\ \A e \in Entries : called[e] \in Own[e]
  /\ others \in 0 .. MaxOthers
  /\ call \in [Calls -> CallStates]
  /\ Unique

\* No sign-in mixes two people: an account stamped with the id of an entry, or
\* opened by its sign-ins, goes by a name of that entry.  directory_account
\* acts on ids it read several awaits ago, after which the account may have
\* been merged, renamed or deleted and its name registered anew.
NobodyElsesAccount ==
  \A i \in Live, e \in Entries :
    accounts[i].did = e \/ e \in accounts[i].sessions
      => accounts[i].name \in Own[e]

\* "The one account of a directory entry": a sign-in that nobody disturbed
\* ends with exactly one account under the id, the username, the typed name
\* and the address, stamped and named as the directory says, unless a root
\* name or a service account is in the way.
FoldedIntoOne ==
  \A c \in Calls :
    LET s    == call[c]
        mine == {i \in Live : \/ accounts[i].did = s.entry
                              \/ accounts[i].name \in {s.canonical, s.typed, Mail[s.entry]}}
    IN /\ s.at = "session" /\ s.canonical # NoOne /\ s.typed # NoOne
       /\ s.alone
       /\ \A i \in mine : accounts[i].name \notin Roots /\ accounts[i].kind # "service"
       /\ s.canonical \notin Roots
       => /\ mine = {s.target.id}
          /\ accounts[s.target.id].name = s.canonical
          /\ s.entry \in WithId => accounts[s.target.id].did = s.entry

\* What an entry's accounts hold together.
HeldBy(e) ==
  LET mine == {i \in Live : accounts[i].name \in Own[e]}
  IN [owns     |-> UNION {accounts[i].owns : i \in mine},
      sessions |-> UNION {accounts[i].sessions : i \in mine}]

\* Folding loses nothing: roles, memberships, tokens and sessions of a person
\* go only when an administrator deletes an account, whatever merges run into
\* each other and wherever a request stops.
NothingLostInMerge ==
  [][\A e \in Entries :
       \/ /\ HeldBy(e).owns \subseteq HeldBy(e)'.owns
          /\ HeldBy(e).sessions \subseteq HeldBy(e)'.sessions
       \/ \E i \in Ids : DeleteUser(i)]_vars

\* Root names are held by configuration: an account of that name is neither
\* renamed nor merged away, though the check looks at names read long before.
RootsStay ==
  [][\A i \in Live : accounts[i].name \in Roots =>
       \/ i \in Live' /\ accounts'[i].name = accounts[i].name
       \/ DeleteUser(i)]_vars

\* What the port promises of merge_user_into: rows move over, "what `into` has
\* already stays", then `from` is deleted.  So a merge into an account that is
\* there is never refused.  Two tokens of one name break it, see the README; no
\* run checks it.
MergeGoesThrough ==
  \A c \in Calls : \A from \in call[c].rest :
    call[c].at = "merge" /\ call[c].target.id \in Live
      => ~MergeRefused(from, call[c].target.id)
=============================================================================
