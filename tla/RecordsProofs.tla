----------------------------- MODULE RecordsProofs -----------------------------
(***************************************************************************)
(* What holds of the records of a tenant for any number of people, rows    *)
(* and requests: that a manager of the finances remains, that transactions *)
(* stay consistent and cancelled ones as they are, and that the plan       *)
(* bounds the members.                                                     *)
(*                                                                         *)
(* Every request writes on the strength of what it has read, so each       *)
(* invariant says what is still true of that while nobody has written: a   *)
(* level that is fresh is the level stored, a clerk past the validation    *)
(* holds a category of its type, a count that is fresh is the count.       *)
(***************************************************************************)
EXTENDS FinancePermissions, FinanceLedger, MemberRegistry, FiniteSetTheorems, TLAPS

-----------------------------------------------------------------------------
\* Permissions.

Waiting == [op : {"authorise", "read"}, actor : People, target : People, level : Levels]
Counting == [op : {"count"}, actor : People, target : People, level : Levels, before : Levels, fresh : BOOLEAN]
Writing == [op : {"write"}, target : People, level : Levels, before : Levels, fresh : BOOLEAN]

\* Whoever is past the authorisation names a manager, or there was one; what is
\* fresh is what is stored; and who is about to demote a manager counted two.
IsMandated(c) == c.op \in {"read", "count", "write"} => c.level = Manager \/ managed
IsFresh(c) == c.op \in {"count", "write"} /\ c.fresh => c.before = grant[c.target]
LeavesAnother(c) ==
    c.op = "write" /\ c.fresh /\ c.before = Manager /\ c.level # Manager => \E u \in Managers : u # c.target
ChangeOK(c) == IsMandated(c) /\ IsFresh(c) /\ LeavesAnother(c)

PermissionsInv ==
    /\ PermissionsTypeOK
    /\ Managers # {} => managed
    /\ AManagerRemains
    /\ \A q \in Actors : ChangeOK(change[q])

\* What the union of records in Changes says of each step.
LEMMA ChangeByOp ==
    ASSUME NEW c \in Changes
    PROVE  /\ c.op \in {"idle", "authorise", "read", "count", "write"}
           /\ c.op \in {"authorise", "read"} => c \in Waiting
           /\ c.op = "count" => c \in Counting
           /\ c.op = "write" => c \in Writing
           /\ c = NoChange <=> c.op = "idle"
  BY DEF Changes, Waiting, Counting, Writing, NoChange

LEMMA ChangesAre == Changes = {NoChange} \cup Waiting \cup Counting \cup Writing
  BY DEF Changes, Waiting, Counting, Writing

\* More managers than one are not all the target.
LEMMA AnotherManager ==
    ASSUME PermissionsTypeOK, NEW t \in People, Cardinality(Managers) > 1
    PROVE  \E u \in Managers : u # t
<1>1. SUFFICES ASSUME \A u \in Managers : u = t  PROVE FALSE
      OBVIOUS
<1>2. Managers \in SUBSET {t}
      BY <1>1
<1>3. IsFiniteSet({t}) /\ Cardinality({t}) = 1
      BY FS_Singleton
<1>4. IsFiniteSet(Managers) /\ Cardinality(Managers) <= 1
      BY <1>2, <1>3, FS_Subset
<1>5. Cardinality(Managers) \in Nat
      BY <1>4, FS_CardinalityType
<1> QED BY <1>4, <1>5

LEMMA PermissionsInitially == PermissionsInit => PermissionsInv
<1> SUFFICES ASSUME PermissionsInit PROVE PermissionsInv
    OBVIOUS
<1> USE PermissionsAssumption
<1>1. grant \in [People -> Levels] /\ change \in [Actors -> Changes]
      BY ChangesAre DEF PermissionsInit, Levels, Manager
<1>2. PermissionsTypeOK
      BY <1>1 DEF PermissionsInit, PermissionsTypeOK
<1>3. (\E u \in People : grant[u] # "none") => managed
      BY DEF PermissionsInit, Managers, Manager
<1>4. (managed <=> Managers # {}) /\ AManagerRemains
      BY <1>3 DEF PermissionsInit, AManagerRemains
<1>5. \A q \in Actors : ChangeOK(change[q])
      BY DEF PermissionsInit, ChangeOK, IsMandated, IsFresh, LeavesAnother, NoChange
<1> QED BY <1>2, <1>4, <1>5 DEF PermissionsInv

\* A step that writes no level, and leaves the other requests as they were.
LEMMA PermissionsKept ==
    ASSUME PermissionsInv, UNCHANGED <<grant, managed, crossed>>, enabled' \in SUBSET People,
           NEW q \in Actors, NEW c \in Changes, change' = [change EXCEPT ![q] = c], ChangeOK(c)
    PROVE  PermissionsInv'
<1>1. PermissionsTypeOK'
      BY DEF PermissionsInv, PermissionsTypeOK
<1>2. Managers' = Managers
      BY DEF Managers
<1>3. (Managers # {} => managed)' /\ AManagerRemains'
      BY <1>2 DEF PermissionsInv, AManagerRemains
<1>4. ASSUME NEW p \in Actors PROVE ChangeOK(change[p])'
  <2>1. ChangeOK(change'[p])
        BY DEF PermissionsInv, PermissionsTypeOK
  <2> QED BY <2>1, <1>2 DEF ChangeOK, IsMandated, IsFresh, LeavesAnother
<1> QED BY <1>1, <1>3, <1>4 DEF PermissionsInv

\* The write of a level.
LEMMA LevelWritten ==
    ASSUME PermissionsInv, NEW q \in Actors, writePermission(q)
    PROVE  PermissionsInv'
<1> DEFINE c == change[q]
<1>1. c \in Writing /\ ChangeOK(c)
      BY ChangeByOp DEF writePermission, PermissionsInv, PermissionsTypeOK
<1>2. grant' = [grant EXCEPT ![c.target] = c.level] /\ c.target \in People /\ c.level \in Levels
      BY <1>1 DEF writePermission, Writing
<1>3. grant' \in [People -> Levels]
      BY <1>2 DEF PermissionsInv, PermissionsTypeOK
<1>4. ASSUME NEW p \in Actors
      PROVE  /\ change'[p] \in Changes
             /\ change'[p] = NoChange \/ change'[p].op = change[p].op
             /\ change'[p].op \in {"count", "write"} => ~change'[p].fresh
             /\ change'[p].op \in {"read", "count", "write"} => change'[p].level = change[p].level
  <2>1. change[p] \in Changes
        BY DEF PermissionsInv, PermissionsTypeOK
  <2>2. change'[p] = IF p = q THEN NoChange
                     ELSE IF change[p].op \in {"count", "write"} THEN [change[p] EXCEPT !.fresh = FALSE]
                     ELSE change[p]
        BY DEF writePermission
  <2>3. CASE p = q
        BY <2>2, <2>3, ChangesAre DEF NoChange
  <2>4. CASE p # q /\ change[p].op = "count"
    <3>1. change[p] \in Counting
          BY <2>1, <2>4, ChangeByOp
    <3>2. change'[p] = [change[p] EXCEPT !.fresh = FALSE]
          BY <2>2, <2>4
    <3>3. change'[p] \in Counting /\ ~change'[p].fresh /\ change'[p].level = change[p].level
          BY <3>1, <3>2 DEF Counting
    <3> QED BY <3>3, <2>4, ChangesAre DEF Counting
  <2>5. CASE p # q /\ change[p].op = "write"
    <3>1. change[p] \in Writing
          BY <2>1, <2>5, ChangeByOp
    <3>2. change'[p] = [change[p] EXCEPT !.fresh = FALSE]
          BY <2>2, <2>5
    <3>3. change'[p] \in Writing /\ ~change'[p].fresh /\ change'[p].level = change[p].level
          BY <3>1, <3>2 DEF Writing
    <3> QED BY <3>3, <2>5, ChangesAre DEF Writing
  <2>6. CASE p # q /\ change[p].op \notin {"count", "write"}
        BY <2>1, <2>2, <2>6
  <2> QED BY <2>3, <2>4, <2>5, <2>6
<1>5. change' \in [Actors -> Changes]
  <2>1. change' = [p \in Actors |-> change'[p]]
        BY DEF writePermission
  <2> QED BY <2>1, <1>4
<1>6. PermissionsTypeOK'
      BY <1>3, <1>5 DEF PermissionsTypeOK, PermissionsInv, writePermission
<1>7. managed'
      BY <1>1 DEF writePermission, ChangeOK, IsMandated
<1>8. ASSUME ~crossed' PROVE Managers' # {}
  <2>1. ~crossed /\ c.fresh
        BY <1>8 DEF writePermission
  <2>2. CASE c.level = Manager
        BY <1>2, <2>2 DEF Managers, PermissionsInv, PermissionsTypeOK
  <2>3. CASE c.level # Manager
    <3>1. managed /\ c.before = grant[c.target]
          BY <1>1, <2>1, <2>3 DEF ChangeOK, IsMandated, IsFresh, Writing
    <3>2. Managers # {}
          BY <2>1, <3>1 DEF PermissionsInv, AManagerRemains
    <3>3. \E u \in Managers : u # c.target
      <4>1. CASE c.before = Manager
            BY <1>1, <2>1, <2>3, <4>1 DEF ChangeOK, LeavesAnother, Writing
      <4>2. CASE c.before # Manager
            BY <3>1, <3>2, <4>2 DEF Managers
      <4> QED BY <4>1, <4>2
    <3> QED BY <1>2, <3>3 DEF Managers, PermissionsInv, PermissionsTypeOK
  <2> QED BY <2>2, <2>3
<1>9. AManagerRemains'
      BY <1>7, <1>8 DEF AManagerRemains
<1>10. \A p \in Actors : ChangeOK(change[p])'
      BY <1>4, <1>7 DEF ChangeOK, IsMandated, IsFresh, LeavesAnother, NoChange
<1> QED BY <1>6, <1>7, <1>9, <1>10 DEF PermissionsInv

LEMMA PermissionsStep == PermissionsInv /\ [PermissionsNext]_permissionVars => PermissionsInv'
<1> SUFFICES ASSUME PermissionsInv, [PermissionsNext]_permissionVars PROVE PermissionsInv'
    OBVIOUS
<1>0. ASSUME NEW q \in Actors PROVE change[q] \in Changes /\ ChangeOK(change[q])
      BY DEF PermissionsInv, PermissionsTypeOK
<1>1. ASSUME NEW q \in Actors, NEW actor \in People, NEW target \in People, NEW level \in Levels,
             updateUserPermission(q, actor, target, level)
      PROVE  PermissionsInv'
  <2> DEFINE c == [op |-> "authorise", actor |-> actor, target |-> target, level |-> level]
  <2>1. c \in Changes /\ ChangeOK(c)
        BY ChangesAre DEF Waiting, ChangeOK, IsMandated, IsFresh, LeavesAnother
  <2> QED BY <1>1, <2>1, PermissionsKept DEF updateUserPermission, PermissionsInv, PermissionsTypeOK
<1>2. ASSUME NEW q \in Actors, ensureCanManagePermissions(q) PROVE PermissionsInv'
  <2> DEFINE c == change'[q]
  <2>1. change[q] \in Waiting
        BY <1>0, <1>2, ChangeByOp DEF ensureCanManagePermissions
  <2>2. ASSUME canManage(change[q].actor) PROVE managed
        BY <2>1, <2>2 DEF canManage, Waiting, Managers, PermissionsInv
  <2>3. /\ change' = [change EXCEPT ![q] = c]
        /\ c = IF canManage(change[q].actor) \/ (canBootstrap(change[q].actor) /\ change[q].level = Manager)
               THEN [change[q] EXCEPT !.op = "read"] ELSE NoChange
        BY <1>2 DEF ensureCanManagePermissions, PermissionsInv, PermissionsTypeOK
  <2>4. c \in Changes /\ ChangeOK(c)
    <3>1. CASE c = NoChange
          BY <3>1, ChangesAre DEF NoChange, ChangeOK, IsMandated, IsFresh, LeavesAnother
    <3>2. CASE c # NoChange
      <4>1. c = [change[q] EXCEPT !.op = "read"] /\ (managed \/ change[q].level = Manager)
            BY <2>2, <2>3, <3>2
      <4>2. c \in Waiting /\ c.op = "read" /\ c.level = change[q].level
            BY <2>1, <4>1 DEF Waiting
      <4> HIDE DEF c
      <4> QED BY <4>1, <4>2, ChangesAre DEF ChangeOK, IsMandated, IsFresh, LeavesAnother
    <3> QED BY <3>1, <3>2
  <2> QED BY <1>2, <2>3, <2>4, PermissionsKept DEF ensureCanManagePermissions, PermissionsInv, PermissionsTypeOK
<1>3. ASSUME NEW q \in Actors, readPermission(q) PROVE PermissionsInv'
  <2> DEFINE c == [op |-> "count", actor |-> change[q].actor, target |-> change[q].target,
                   level |-> change[q].level, before |-> grant[change[q].target], fresh |-> TRUE]
  <2>1. change[q] \in Waiting /\ change[q].op = "read"
        BY <1>0, <1>3, ChangeByOp DEF readPermission
  <2>2. c \in Counting
        BY <2>1 DEF Waiting, Counting, PermissionsInv, PermissionsTypeOK
  <2>3. ChangeOK(c)
        BY <1>0, <2>1 DEF ChangeOK, IsMandated, IsFresh, LeavesAnother
  <2>4. change' = [change EXCEPT ![q] = c]
        BY <1>3 DEF readPermission, PermissionsInv, PermissionsTypeOK
  <2> HIDE DEF c
  <2> QED BY <1>3, <2>2, <2>3, <2>4, ChangesAre, PermissionsKept DEF readPermission, PermissionsInv, PermissionsTypeOK
<1>4. ASSUME NEW q \in Actors, countActiveManagers(q) PROVE PermissionsInv'
  <2> DEFINE b == change[q]
             w == [op |-> "write", target |-> b.target, level |-> b.level, before |-> b.before, fresh |-> b.fresh]
             c == IF LastManager(q, Cardinality(Managers)) THEN NoChange ELSE w
  <2>1. b \in Counting /\ ChangeOK(b)
        BY <1>0, <1>4, ChangeByOp DEF countActiveManagers
  <2>2. w \in Writing
        BY <2>1 DEF Counting, Writing
  <2>3. change' = [change EXCEPT ![q] = c]
        BY <1>4 DEF countActiveManagers, PermissionsInv, PermissionsTypeOK
  <2>4. IsMandated(w) /\ IsFresh(w)
        BY <2>1 DEF ChangeOK, IsMandated, IsFresh, Counting
  <2>5. ASSUME ~LastManager(q, Cardinality(Managers)) PROVE LeavesAnother(w)
    <3>1. SUFFICES ASSUME b.before = Manager, b.level # Manager PROVE \E u \in Managers : u # b.target
          BY DEF LeavesAnother
    <3>2. IsFiniteSet(Managers)
      <4>1. Managers \in SUBSET People /\ IsFiniteSet(People)
            BY PermissionsAssumption DEF Managers
      <4> QED BY <4>1, FS_Subset
    <3>3. Cardinality(Managers) \in Nat
          BY <3>2, FS_CardinalityType
    <3>4. Cardinality(Managers) > 1
          BY <2>5, <3>1, <3>3 DEF LastManager
    <3> QED BY <2>1, <3>4, AnotherManager DEF Counting, PermissionsInv
  <2>6. c \in Changes /\ ChangeOK(c)
    <3>1. ChangeOK(NoChange)
          BY DEF NoChange, ChangeOK, IsMandated, IsFresh, LeavesAnother
    <3> HIDE DEF w
    <3> QED BY <3>1, <2>2, <2>4, <2>5, ChangesAre DEF ChangeOK
  <2> HIDE DEF c
  <2> QED BY <1>4, <2>3, <2>6, PermissionsKept DEF countActiveManagers, PermissionsInv, PermissionsTypeOK
<1>5. ASSUME NEW q \in Actors, nothingToRevoke(q) PROVE PermissionsInv'
  <2>1. NoChange \in Changes /\ ChangeOK(NoChange)
        BY ChangesAre DEF NoChange, ChangeOK, IsMandated, IsFresh, LeavesAnother
  <2> QED BY <1>5, <2>1, PermissionsKept DEF nothingToRevoke, PermissionsInv, PermissionsTypeOK
<1>6. ASSUME NEW q \in Actors, writePermission(q) PROVE PermissionsInv'
      BY <1>6, LevelWritten
<1>7. ASSUME UNCHANGED <<grant, change, managed, crossed>>, enabled' \in SUBSET People PROVE PermissionsInv'
  <2>1. Managers' = Managers /\ PermissionsTypeOK' /\ AManagerRemains'
        BY <1>7 DEF Managers, PermissionsInv, PermissionsTypeOK, AManagerRemains
  <2>2. \A q \in Actors : ChangeOK(change[q])'
        BY <1>7, <2>1 DEF PermissionsInv, ChangeOK, IsMandated, IsFresh, LeavesAnother
  <2> QED BY <1>7, <2>1, <2>2 DEF PermissionsInv
<1>8. ASSUME NEW u \in People, switchAccount(u) PROVE PermissionsInv'
      BY <1>7, <1>8 DEF switchAccount, PermissionsInv, PermissionsTypeOK
<1>9. CASE UNCHANGED permissionVars
      BY <1>7, <1>9 DEF permissionVars, PermissionsInv, PermissionsTypeOK
<1> QED BY <1>1, <1>2, <1>3, <1>4, <1>5, <1>6, <1>8, <1>9 DEF PermissionsNext

\* The invariant of the permissions, whoever changes them and however the
\* requests interleave (finance-authorization.service.ts, financeiro.service.ts).
THEOREM PermissionsInvariant == PermissionsSpec => []PermissionsInv
<1> QED BY PermissionsInitially, PermissionsStep, PTL DEF PermissionsSpec

\* However many people change levels at once, the finances of a tenant keep a
\* manager once they have one, unless a level was written on reads that others
\* had overtaken: the count of managers that is taken before one is demoted is
\* enough for requests that do not cross.
THEOREM ManagerRemains == PermissionsSpec => []AManagerRemains
<1>1. PermissionsInv => AManagerRemains
      BY DEF PermissionsInv
<1> QED BY <1>1, PermissionsInvariant, PTL
-----------------------------------------------------------------------------
\* The ledger.

Checking == [op : {"validate", "member", "write"}, entry : Transactions, dto : Forms, seen : Entries \cup {NoEntry}]
Cancelling == [op : {"cancel"}, entry : Transactions, seen : Entries]

TypeOf(c) == Or(c.dto.type, c.seen.type)
CategoryOf(c) == Or(c.dto.category, c.seen.category)
MemberOf(c) == Or(c.dto.member, c.seen.member)

\* A clerk has read a row that is still there and was not cancelled, or holds
\* all that a creation needs; past each validation, what was validated holds of
\* the row that is about to be made, unless it was recategorised since.
ClerkOK(c) ==
    /\ c.op \in {"validate", "member", "write"} =>
         /\ c.seen = NoEntry => Complete(c.dto)
         /\ c.seen # NoEntry => entry[c.entry] # NoEntry
         /\ c.seen.status # "CANCELLED"
    /\ c.op \in {"member", "write"} /\ c.entry \notin skewed => category[CategoryOf(c)].type = TypeOf(c)
    /\ c.op = "write" => MemberOf(c) = Nobody \/ TypeOf(c) = "INCOME"
    /\ c.op = "cancel" => entry[c.entry] # NoEntry

LedgerInv == LedgerTypeOK /\ EntriesAreConsistent /\ \A q \in Clerks : ClerkOK(clerk[q])

LEMMA ClericalIs == Clerical = {NoClerk} \cup Checking \cup Cancelling
  BY DEF Clerical, Checking, Cancelling

LEMMA ClerkByOp ==
    ASSUME NEW c \in Clerical
    PROVE  /\ c.op \in {"validate", "member", "write"} => c \in Checking
           /\ c.op = "cancel" => c \in Cancelling
           /\ c.op \in {"idle", "validate", "member", "write", "cancel"}
  BY DEF Clerical, Checking, Cancelling, NoClerk

\* What is about to be written is of the types of a row.
LEMMA NextAreTyped ==
    ASSUME NEW c \in Checking, c.seen = NoEntry => Complete(c.dto)
    PROVE  TypeOf(c) \in Types /\ CategoryOf(c) \in Categories /\ MemberOf(c) \in Contributors \cup {Nobody}
<1>1. c.dto \in Dtos
      BY LedgerAssumption DEF Checking
<1>2. CASE c.seen = NoEntry
      BY <1>1, <1>2 DEF Complete, Dtos, OrOmitted, TypeOf, CategoryOf, MemberOf, Or
<1>3. CASE c.seen # NoEntry
  <2>1. c.seen \in Entries
        BY <1>3 DEF Checking
  <2> QED BY <1>1, <2>1 DEF Dtos, OrOmitted, TypeOf, CategoryOf, MemberOf, Or, Entries
<1> QED BY <1>2, <1>3

LEMMA NoEntryIsNone == NoEntry \notin Entries /\ NoEntry.status = "absent"
  BY DEF NoEntry, Entries

LEMMA LedgerInitially == LedgerInit => LedgerInv
<1> SUFFICES ASSUME LedgerInit PROVE LedgerInv
    OBVIOUS
<1>1. LedgerTypeOK
  <2>1. category \in [Categories -> [type : Types, active : BOOLEAN]]
        BY DEF LedgerInit
  <2>2. entry \in [Transactions -> Entries \cup {NoEntry}]
        BY DEF LedgerInit
  <2>3. clerk \in [Clerks -> Clerical] /\ edits \in 0..MaxEdits
        BY ClericalIs, LedgerAssumption DEF LedgerInit
  <2> QED BY <2>1, <2>2, <2>3 DEF LedgerInit, LedgerTypeOK
<1>2. EntriesAreConsistent
      BY DEF LedgerInit, EntriesAreConsistent
<1>3. \A q \in Clerks : ClerkOK(clerk[q])
      BY DEF LedgerInit, ClerkOK, NoClerk
<1> QED BY <1>1, <1>2, <1>3 DEF LedgerInv

\* A step of a clerk that writes no row.
LEMMA LedgerKept ==
    ASSUME LedgerInv, NEW q \in Clerks, NEW c \in Clerical, clerk' = [clerk EXCEPT ![q] = c], ClerkOK(c),
           UNCHANGED <<account, category, member, entry, skewed>>, edits' \in 0..MaxEdits
    PROVE  LedgerInv'
<1>1. LedgerTypeOK'
      BY DEF LedgerInv, LedgerTypeOK
<1>2. EntriesAreConsistent'
      BY DEF LedgerInv, EntriesAreConsistent
<1>3. ASSUME NEW p \in Clerks PROVE ClerkOK(clerk[p])'
  <2>1. ClerkOK(clerk'[p])
        BY DEF LedgerInv, LedgerTypeOK
  <2> QED BY <2>1 DEF ClerkOK
<1> QED BY <1>1, <1>2, <1>3 DEF LedgerInv

\* A clerk that rests owes nothing.
LEMMA IdleClerk == NoClerk \in Clerical /\ ClerkOK(NoClerk)
  BY ClericalIs DEF NoClerk, ClerkOK

\* The row that an update or a creation makes.
LEMMA WrittenIsSound ==
    ASSUME LedgerInv, NEW q \in Clerks, clerk[q].op = "write",
           clerk[q].seen = NoEntry => entry[clerk[q].entry] = NoEntry
    PROVE  /\ Written(q) \in Entries
           /\ entry[clerk[q].entry] = clerk[q].seen =>
                /\ Written(q).type = TypeOf(clerk[q])
                /\ Written(q).category = CategoryOf(clerk[q])
                /\ Written(q).member = MemberOf(clerk[q])
<1> DEFINE c == clerk[q]
           row == entry[c.entry]
<1>1. c \in Checking /\ ClerkOK(c)
      BY ClerkByOp DEF LedgerInv, LedgerTypeOK
<1>2. c.dto \in Dtos /\ row \in Entries \cup {NoEntry}
      BY <1>1, LedgerAssumption DEF Checking, LedgerInv, LedgerTypeOK
<1>3. TypeOf(c) \in Types /\ CategoryOf(c) \in Categories /\ MemberOf(c) \in Contributors \cup {Nobody}
      BY <1>1, NextAreTyped DEF ClerkOK
<1>4. CASE c.seen = NoEntry
  <2>1. Complete(c.dto)
        BY <1>1, <1>4 DEF ClerkOK
  <2>2. Written(q) = [status |-> Or(c.dto.status, "CONFIRMED"), type |-> c.dto.type,
                      category |-> c.dto.category, member |-> c.dto.member]
        BY <1>4 DEF Written
  <2>3. Or(c.dto.status, "CONFIRMED") \in {"PENDING", "CONFIRMED", "CANCELLED"}
        BY <1>2 DEF Or, Dtos, OrOmitted
  <2>4. TypeOf(c) = c.dto.type /\ CategoryOf(c) = c.dto.category /\ MemberOf(c) = c.dto.member
        BY <2>1 DEF Complete, TypeOf, CategoryOf, MemberOf, Or
  <2> QED BY <1>3, <2>2, <2>3, <2>4 DEF Entries
<1>5. CASE c.seen # NoEntry
  <2>1. row \in Entries
        BY <1>1, <1>2, <1>5 DEF ClerkOK
  <2>2. Written(q) = [status |-> Or(c.dto.status, row.status), type |-> Or(c.dto.type, row.type),
                      category |-> Or(c.dto.category, row.category),
                      member |-> IF c.dto.member # "omitted" \/ c.dto.type # "omitted" THEN NextMember(q) ELSE row.member]
        BY <1>5 DEF Written
  <2>3. NextMember(q) = MemberOf(c)
        BY DEF NextMember, MemberOf
  <2>4. /\ Or(c.dto.status, row.status) \in {"PENDING", "CONFIRMED", "CANCELLED"}
        /\ Or(c.dto.type, row.type) \in Types
        /\ Or(c.dto.category, row.category) \in Categories
        /\ row.member \in Contributors \cup {Nobody}
        BY <1>2, <2>1 DEF Or, Dtos, OrOmitted, Entries
  <2>5. Written(q) \in Entries
        BY <1>3, <2>2, <2>3, <2>4 DEF Entries
  <2>6. ASSUME row = c.seen
        PROVE  /\ Written(q).type = TypeOf(c)
               /\ Written(q).category = CategoryOf(c)
               /\ Written(q).member = MemberOf(c)
        BY <2>2, <2>3, <2>6 DEF TypeOf, CategoryOf, MemberOf, Or
  <2> QED BY <2>5, <2>6
<1> QED BY <1>4, <1>5

LEMMA TransactionWritten ==
    ASSUME LedgerInv, NEW q \in Clerks, writeTransaction(q)
    PROVE  LedgerInv'
<1> DEFINE c == clerk[q]
           e == clerk[q].entry
<1>1. c \in Checking /\ ClerkOK(c) /\ c.op = "write" /\ e \in Transactions
      BY ClerkByOp DEF LedgerInv, LedgerTypeOK, writeTransaction, Checking
<1>2. CASE c.seen = NoEntry /\ entry[e] # NoEntry
      BY <1>2, IdleClerk, LedgerKept DEF writeTransaction, ClerkEnds, LedgerInv, LedgerTypeOK
<1>3. CASE ~(c.seen = NoEntry /\ entry[e] # NoEntry)
  <2>1. /\ entry' = [entry EXCEPT ![e] = Written(q)]
        /\ skewed' = IF entry[e] # c.seen THEN skewed \cup {e} ELSE skewed
        /\ clerk' = [clerk EXCEPT ![q] = NoClerk]
        /\ UNCHANGED <<account, category, member, edits>>
        BY <1>3 DEF writeTransaction, ClerkEnds
  <2>2. Written(q) \in Entries
        BY <1>1, <1>3, WrittenIsSound
  <2>3. LedgerTypeOK'
        BY <1>1, <2>1, <2>2, IdleClerk DEF LedgerInv, LedgerTypeOK
  <2>4. ASSUME NEW x \in Transactions, x \notin skewed', entry'[x] # NoEntry
        PROVE  /\ category'[entry'[x].category].type = entry'[x].type
               /\ entry'[x].member # Nobody => entry'[x].type = "INCOME"
    <3>1. CASE x = e
      <4>1. entry[e] = c.seen /\ e \notin skewed
            BY <2>1, <2>4, <3>1
      <4>2. /\ Written(q).type = TypeOf(c) /\ Written(q).category = CategoryOf(c)
            /\ Written(q).member = MemberOf(c)
            BY <1>1, <1>3, <4>1, WrittenIsSound
      <4>3. entry'[x] = Written(q)
            BY <1>1, <2>1, <3>1 DEF LedgerInv, LedgerTypeOK
      <4> QED BY <1>1, <2>1, <4>1, <4>2, <4>3 DEF ClerkOK
    <3>2. CASE x # e
      <4>1. entry'[x] = entry[x] /\ x \notin skewed
            BY <2>1, <2>4, <3>2 DEF LedgerInv, LedgerTypeOK
      <4> QED BY <2>1, <2>4, <4>1 DEF LedgerInv, EntriesAreConsistent
    <3> QED BY <3>1, <3>2
  <2>5. EntriesAreConsistent'
        BY <2>4 DEF EntriesAreConsistent
  <2>6. ASSUME NEW p \in Clerks PROVE ClerkOK(clerk[p])'
    <3>1. CASE p = q
          BY <2>1, <3>1 DEF LedgerInv, LedgerTypeOK, ClerkOK, NoClerk
    <3>2. CASE p # q
      <4>1. clerk'[p] = clerk[p] /\ ClerkOK(clerk[p]) /\ clerk[p] \in Clerical
            BY <2>1, <3>2 DEF LedgerInv, LedgerTypeOK
      <4>2. ASSUME clerk[p].op \in {"validate", "member", "write", "cancel"}, entry[clerk[p].entry] # NoEntry
            PROVE  entry'[clerk[p].entry] # NoEntry
        <5>1. clerk[p].entry \in Transactions
              BY <4>1, <4>2, ClerkByOp DEF Checking, Cancelling
        <5> QED BY <2>1, <2>2, <4>2, <5>1, NoEntryIsNone DEF LedgerInv, LedgerTypeOK
      <4>3. skewed \subseteq skewed'
            BY <2>1
      <4> QED BY <2>1, <4>1, <4>2, <4>3 DEF ClerkOK
    <3> QED BY <3>1, <3>2
  <2> QED BY <2>3, <2>5, <2>6 DEF LedgerInv
<1> QED BY <1>2, <1>3

LEMMA CancellationWritten ==
    ASSUME LedgerInv, NEW q \in Clerks, writeCancellation(q)
    PROVE  /\ LedgerInv'
           /\ \A x \in Transactions : entry[x].status = "CANCELLED" => entry'[x] = entry[x]
<1> DEFINE c == clerk[q]
           e == clerk[q].entry
           row == [entry[e] EXCEPT !.status = "CANCELLED"]
<1>1. c \in Cancelling /\ ClerkOK(c) /\ c.op = "cancel" /\ e \in Transactions
      BY ClerkByOp DEF LedgerInv, LedgerTypeOK, writeCancellation, Cancelling
<1>2. entry[e] \in Entries
      BY <1>1 DEF ClerkOK, LedgerInv, LedgerTypeOK
<1>3. /\ row \in Entries /\ row.type = entry[e].type /\ row.category = entry[e].category
      /\ row.member = entry[e].member /\ (entry[e].status = "CANCELLED" => row = entry[e])
      BY <1>2 DEF Entries
<1>4. /\ entry' = [entry EXCEPT ![e] = row] /\ clerk' = [clerk EXCEPT ![q] = NoClerk]
      /\ UNCHANGED <<account, category, member, edits, skewed>>
      BY DEF writeCancellation, ClerkEnds
<1> HIDE DEF row
<1>5. LedgerTypeOK'
      BY <1>1, <1>3, <1>4, IdleClerk DEF LedgerInv, LedgerTypeOK
<1>6. ASSUME NEW x \in Transactions
      PROVE  /\ entry'[x] # NoEntry <=> entry[x] # NoEntry
             /\ entry[x] # NoEntry => /\ entry'[x].type = entry[x].type /\ entry'[x].category = entry[x].category
                                      /\ entry'[x].member = entry[x].member
             /\ entry[x].status = "CANCELLED" => entry'[x] = entry[x]
      BY <1>1, <1>2, <1>3, <1>4, NoEntryIsNone DEF LedgerInv, LedgerTypeOK
<1>7. EntriesAreConsistent'
      BY <1>4, <1>6 DEF LedgerInv, EntriesAreConsistent
<1>8. ASSUME NEW p \in Clerks PROVE ClerkOK(clerk[p])'
  <2>1. CASE p = q
        BY <1>4, <2>1 DEF LedgerInv, LedgerTypeOK, ClerkOK, NoClerk
  <2>2. CASE p # q
    <3>1. clerk'[p] = clerk[p] /\ ClerkOK(clerk[p]) /\ clerk[p] \in Clerical
          BY <1>4, <2>2 DEF LedgerInv, LedgerTypeOK
    <3>2. clerk[p].op \in {"validate", "member", "write", "cancel"} => clerk[p].entry \in Transactions
          BY <3>1, ClerkByOp DEF Checking, Cancelling
    <3> QED BY <1>4, <1>6, <3>1, <3>2 DEF ClerkOK
  <2> QED BY <2>1, <2>2
<1> QED BY <1>5, <1>6, <1>7, <1>8 DEF LedgerInv

LEMMA CategoryWritten ==
    ASSUME LedgerInv, NEW k \in Categories, NEW type \in Types, NEW active \in BOOLEAN, updateCategory(k, type, active)
    PROVE  LedgerInv'
<1>1. /\ category' = [category EXCEPT ![k] = [type |-> type, active |-> active]]
      /\ skewed' = IF type # category[k].type THEN skewed \cup Skew(type, k) ELSE skewed
      /\ edits' \in 0..MaxEdits
      /\ UNCHANGED <<account, member, entry, clerk>>
      BY LedgerAssumption DEF updateCategory, Around, LedgerInv, LedgerTypeOK
<1>2. Skew(type, k) \subseteq Transactions
      BY ClerkByOp DEF Skew, LedgerInv, LedgerTypeOK, Checking
<1>3. LedgerTypeOK'
      BY <1>1, <1>2 DEF LedgerInv, LedgerTypeOK
<1>4. ASSUME NEW d \in Categories, d # k \/ type = category[k].type PROVE category'[d].type = category[d].type
      BY <1>1, <1>4 DEF LedgerInv, LedgerTypeOK
<1>5. ASSUME NEW x \in Transactions, x \notin skewed', entry[x] # NoEntry
      PROVE  category'[entry[x].category].type = category[entry[x].category].type
  <2>1. entry[x].category \in Categories
        BY <1>5 DEF LedgerInv, LedgerTypeOK, Entries
  <2>2. entry[x].category # k \/ type = category[k].type
        BY <1>1, <1>5 DEF Skew
  <2> QED BY <1>4, <2>1, <2>2
<1>6. EntriesAreConsistent'
      BY <1>1, <1>5 DEF LedgerInv, EntriesAreConsistent
<1>7. ASSUME NEW p \in Clerks PROVE ClerkOK(clerk[p])'
  <2> DEFINE c == clerk[p]
  <2>1. ClerkOK(c) /\ c \in Clerical
        BY DEF LedgerInv, LedgerTypeOK
  <2>2. ASSUME c.op \in {"member", "write"}, c.entry \notin skewed'
        PROVE  category'[CategoryOf(c)].type = TypeOf(c)
    <3>1. CategoryOf(c) \in Categories
          BY <2>1, <2>2, ClerkByOp, NextAreTyped DEF ClerkOK
    <3>2. CategoryOf(c) = NextCategory(p)
          BY DEF CategoryOf, NextCategory
    <3>3. CategoryOf(c) # k \/ type = category[k].type
          BY <1>1, <2>2, <3>2 DEF Skew
    <3>4. c.entry \notin skewed
          BY <1>1, <2>2
    <3> QED BY <1>4, <2>1, <2>2, <3>1, <3>3, <3>4 DEF ClerkOK
  <2> QED BY <1>1, <2>1, <2>2 DEF ClerkOK
<1> QED BY <1>3, <1>6, <1>7 DEF LedgerInv

\* A step beside the rows: the account, or a member who leaves.
LEMMA LedgerAround ==
    ASSUME LedgerInv, UNCHANGED <<category, entry, clerk, skewed>>, account' \in BOOLEAN,
           member' \in SUBSET Contributors, edits' \in 0..MaxEdits
    PROVE  LedgerInv'
  BY DEF LedgerInv, LedgerTypeOK, EntriesAreConsistent, ClerkOK

LEMMA LedgerStep == LedgerInv /\ [LedgerNext]_ledgerVars => LedgerInv'
<1> SUFFICES ASSUME LedgerInv, [LedgerNext]_ledgerVars PROVE LedgerInv'
    OBVIOUS
<1>0. ASSUME NEW q \in Clerks PROVE clerk[q] \in Clerical /\ ClerkOK(clerk[q])
      BY DEF LedgerInv, LedgerTypeOK
<1>1. ASSUME NEW q \in Clerks, NEW e \in Transactions, NEW dto \in Forms, createTransaction(q, e, dto)
      PROVE  LedgerInv'
  <2> DEFINE c == [op |-> "validate", entry |-> e, dto |-> dto, seen |-> NoEntry]
  <2>1. c \in Clerical
        BY ClericalIs DEF Checking
  <2>2. ClerkOK(c)
        BY <1>1, NoEntryIsNone DEF createTransaction, ClerkOK
  <2>3. clerk' = [clerk EXCEPT ![q] = c] /\ edits' \in 0..MaxEdits
        BY <1>1, LedgerAssumption DEF createTransaction, ClerkBegins, LedgerInv, LedgerTypeOK
  <2> HIDE DEF c
  <2> QED BY <1>1, <2>1, <2>2, <2>3, LedgerKept DEF createTransaction
<1>2. ASSUME NEW q \in Clerks, NEW e \in Transactions, NEW dto \in Forms, updateTransaction(q, e, dto)
      PROVE  LedgerInv'
  <2> DEFINE c == [op |-> "validate", entry |-> e, dto |-> dto, seen |-> entry[e]]
  <2>1. c \in Clerical
        BY ClericalIs DEF Checking, LedgerInv, LedgerTypeOK
  <2>2. ClerkOK(c)
        BY <1>2 DEF updateTransaction, Editable, ClerkOK
  <2>3. clerk' = [clerk EXCEPT ![q] = c] /\ edits' \in 0..MaxEdits
        BY <1>2, LedgerAssumption DEF updateTransaction, ClerkBegins, LedgerInv, LedgerTypeOK
  <2> HIDE DEF c
  <2> QED BY <1>2, <2>1, <2>2, <2>3, LedgerKept DEF updateTransaction
<1>3. ASSUME NEW q \in Clerks, validateAccountAndCategory(q) PROVE LedgerInv'
  <2> DEFINE c == [clerk[q] EXCEPT !.op = "member"]
  <2>1. clerk[q] \in Checking
        BY <1>0, <1>3, ClerkByOp DEF validateAccountAndCategory
  <2>2. c \in Checking /\ c.op = "member" /\ c.entry = clerk[q].entry /\ c.dto = clerk[q].dto /\ c.seen = clerk[q].seen
        BY <2>1 DEF Checking
  <2>3. CASE account /\ FitsCategory(NextType(q), NextCategory(q))
    <3>1. clerk' = [clerk EXCEPT ![q] = c]
          BY <1>3, <2>3 DEF validateAccountAndCategory, ClerkGoes
    <3>2. category[CategoryOf(c)].type = TypeOf(c)
          BY <2>2, <2>3 DEF FitsCategory, NextType, NextCategory, CategoryOf, TypeOf
    <3>3. ClerkOK(c)
          BY <1>0, <1>3, <2>2, <3>2 DEF ClerkOK, validateAccountAndCategory
    <3> HIDE DEF c
    <3> QED BY <1>3, <2>2, <3>1, <3>3, ClericalIs, LedgerKept DEF validateAccountAndCategory, LedgerInv, LedgerTypeOK
  <2>4. CASE ~(account /\ FitsCategory(NextType(q), NextCategory(q)))
        BY <1>3, <2>4, IdleClerk, LedgerKept DEF validateAccountAndCategory, ClerkEnds, LedgerInv, LedgerTypeOK
  <2> QED BY <2>3, <2>4
<1>4. ASSUME NEW q \in Clerks, validateMember(q) PROVE LedgerInv'
  <2> DEFINE c == [clerk[q] EXCEPT !.op = "write"]
             fits == NextMember(q) = Nobody \/ (NextType(q) = "INCOME" /\ NextMember(q) \in member)
  <2>1. clerk[q] \in Checking
        BY <1>0, <1>4, ClerkByOp DEF validateMember
  <2>2. c \in Checking /\ c.op = "write" /\ c.entry = clerk[q].entry /\ c.dto = clerk[q].dto /\ c.seen = clerk[q].seen
        BY <2>1 DEF Checking
  <2>3. CASE fits
    <3>1. clerk' = [clerk EXCEPT ![q] = c]
          BY <1>4, <2>3 DEF validateMember, ClerkGoes
    <3>2. MemberOf(c) = Nobody \/ TypeOf(c) = "INCOME"
          BY <2>2, <2>3 DEF NextType, NextMember, MemberOf, TypeOf
    <3>3. ClerkOK(c)
          BY <1>0, <1>4, <2>2, <3>2 DEF ClerkOK, validateMember, CategoryOf, TypeOf
    <3> HIDE DEF c
    <3> QED BY <1>4, <2>2, <3>1, <3>3, ClericalIs, LedgerKept DEF validateMember, LedgerInv, LedgerTypeOK
  <2>4. CASE ~fits
        BY <1>4, <2>4, IdleClerk, LedgerKept DEF validateMember, ClerkEnds, LedgerInv, LedgerTypeOK
  <2> QED BY <2>3, <2>4
<1>5. ASSUME NEW q \in Clerks, NEW e \in Transactions, cancelTransaction(q, e) PROVE LedgerInv'
  <2> DEFINE c == [op |-> "cancel", entry |-> e, seen |-> entry[e]]
  <2>1. c \in Clerical
        BY <1>5, ClericalIs DEF cancelTransaction, Editable, Cancelling, LedgerInv, LedgerTypeOK
  <2>2. ClerkOK(c)
        BY <1>5 DEF cancelTransaction, Editable, ClerkOK
  <2>3. clerk' = [clerk EXCEPT ![q] = c] /\ edits' \in 0..MaxEdits
        BY <1>5, LedgerAssumption DEF cancelTransaction, ClerkBegins, LedgerInv, LedgerTypeOK
  <2> HIDE DEF c
  <2> QED BY <1>5, <2>1, <2>2, <2>3, LedgerKept DEF cancelTransaction
<1>6. ASSUME NEW q \in Clerks, writeTransaction(q) \/ writeCancellation(q) PROVE LedgerInv'
      BY <1>6, TransactionWritten, CancellationWritten
<1>7. ASSUME updateAccount PROVE LedgerInv'
      BY <1>7, LedgerAround, LedgerAssumption DEF updateAccount, Around, LedgerInv, LedgerTypeOK
<1>8. ASSUME NEW m \in Contributors, memberLeaves(m) PROVE LedgerInv'
      BY <1>8, LedgerAround, LedgerAssumption DEF memberLeaves, Around, LedgerInv, LedgerTypeOK
<1>9. CASE UNCHANGED ledgerVars
      BY <1>9, LedgerAround DEF ledgerVars, LedgerInv, LedgerTypeOK
<1> QED BY <1>1, <1>2, <1>3, <1>4, <1>5, <1>6, <1>7, <1>8, <1>9, CategoryWritten DEF LedgerNext

\* The invariant of the transactions: what a clerk holds past its validation is
\* still consistent unless its history says what overtook it.
THEOREM LedgerInvariant == LedgerSpec => []LedgerInv
<1> QED BY LedgerInitially, LedgerStep, PTL DEF LedgerSpec

\* However many clerks edit and cancel at once, every transaction is of the type
\* of its category and only an income names a member, unless two writes of the
\* row crossed or its category changed its type.
THEOREM EntriesStayConsistent == LedgerSpec => []EntriesAreConsistent
<1>1. LedgerInv => EntriesAreConsistent
      BY DEF LedgerInv
<1> QED BY <1>1, LedgerInvariant, PTL

\* A cancelled transaction is changed only by an update that read it before.
LEMMA CancelledStep ==
    ASSUME LedgerInv, [LedgerNext]_ledgerVars
    PROVE  [\A e \in Transactions : entry[e].status = "CANCELLED" /\ entry'[e] # entry[e] =>
              \E q \in Clerks : clerk[q].op = "write" /\ clerk[q].entry = e /\ clerk[q].seen.status # "CANCELLED"]_ledgerVars
<1>1. SUFFICES ASSUME NEW e \in Transactions, entry[e].status = "CANCELLED", entry'[e] # entry[e]
               PROVE  \E q \in Clerks : clerk[q].op = "write" /\ clerk[q].entry = e /\ clerk[q].seen.status # "CANCELLED"
      OBVIOUS
<1>2. PICK q \in Clerks : writeTransaction(q) \/ writeCancellation(q)
      BY <1>1 DEF LedgerNext, ledgerVars, createTransaction, updateTransaction, validateAccountAndCategory, validateMember,
         cancelTransaction, updateAccount, updateCategory, memberLeaves
<1>3. writeTransaction(q)
      BY <1>1, <1>2, CancellationWritten
<1>4. clerk[q].op = "write" /\ ClerkOK(clerk[q])
      BY <1>3 DEF writeTransaction, LedgerInv
<1>5. clerk[q].entry = e
      BY <1>1, <1>3 DEF writeTransaction, LedgerInv, LedgerTypeOK
<1> QED BY <1>4, <1>5 DEF ClerkOK

\* A transaction that is cancelled is changed again only by a clerk that had read
\* it before: update refuses the cancelled row it reads, and writes later.
THEOREM CancelledStays == LedgerSpec => CancelledIsFinal
<1>1. LedgerInv /\ [LedgerNext]_ledgerVars =>
        [\A e \in Transactions : entry[e].status = "CANCELLED" /\ entry'[e] # entry[e] =>
           \E q \in Clerks : clerk[q].op = "write" /\ clerk[q].entry = e /\ clerk[q].seen.status # "CANCELLED"]_ledgerVars
      BY CancelledStep
<1> QED BY <1>1, LedgerInvariant, PTL DEF LedgerSpec, CancelledIsFinal
-----------------------------------------------------------------------------
\* The members and the plan.

Counted == [op : {"count"}, plan : Plans, limit : Limits, fresh : BOOLEAN]
Creating == [op : {"create"}, fresh : BOOLEAN]
Planning == [op : {"plan"}, seen : Plans, plan : Plans \cup {"omitted"}, limit : Agreed \cup {NotGiven}]
Removing == [op : {"delete"}, member : Members]

\* What is fresh is the plan as it is stored, and then that it leaves room; a
\* member that is about to be removed was created.
TaskOK(t) ==
    /\ t.op = "count" /\ t.fresh => t.plan = plan /\ t.limit = limit
    /\ t.op = "create" /\ t.fresh => InForce(plan, limit)
    /\ t.op = "delete" => register[t.member] # "absent"

RegistryInv == RegistryTypeOK /\ \A q \in Registrars : TaskOK(registrar[q])

LEMMA TasksAre == Tasks = Counted \cup Creating \cup Planning \cup Removing
  BY DEF Tasks, Counted, Creating, Planning, Removing

LEMMA TaskByOp ==
    ASSUME NEW t \in Tasks \cup {NoTask}
    PROVE  /\ t.op = "count" => t \in Counted
           /\ t.op = "create" => t \in Creating
           /\ t.op = "plan" => t \in Planning
           /\ t.op = "delete" => t \in Removing
           /\ t.op \in {"idle", "count", "create", "plan", "delete"}
  BY DEF Tasks, NoTask, Counted, Creating, Planning, Removing

\* The limit of a plan is stored, and 0 is not given.
LEMMA DefaultIsALimit == ASSUME NEW p \in Plans PROVE defaultLimit(p) \in Limits /\ defaultLimit(p) # NotGiven
  BY RegistryAssumption DEF defaultLimit, Limits, Plans, NotGiven, Unlimited

LEMMA RegistryInitially == RegistryInit => RegistryInv
<1> SUFFICES ASSUME RegistryInit PROVE RegistryInv
    OBVIOUS
<1>1. RegistryTypeOK
      BY DefaultIsALimit DEF RegistryInit, RegistryTypeOK
<1>2. \A q \in Registrars : TaskOK(registrar[q])
      BY DEF RegistryInit, TaskOK, NoTask
<1> QED BY <1>1, <1>2 DEF RegistryInv

\* A request goes on, and nobody is created or removed.
LEMMA RegistryKept ==
    ASSUME RegistryInv, NEW q \in Registrars, NEW t \in Tasks \cup {NoTask}, TaskOK(t),
           registrar' = [registrar EXCEPT ![q] = t], UNCHANGED <<plan, limit, register>>
    PROVE  RegistryInv'
<1>1. RegistryTypeOK'
      BY DEF RegistryInv, RegistryTypeOK
<1>2. ASSUME NEW p \in Registrars PROVE TaskOK(registrar[p])'
  <2>1. TaskOK(registrar'[p])
        BY DEF RegistryInv, RegistryTypeOK
  <2>2. Registered' = Registered
        BY DEF Registered
  <2> QED BY <2>1, <2>2 DEF TaskOK, InForce
<1> QED BY <1>1, <1>2 DEF RegistryInv

\* A write leaves no request with anything fresh, and ends its own.
LEMMA Outdated ==
    ASSUME RegistryInv, NEW q \in Registrars, registrar' = Outdate(q)
    PROVE  /\ registrar' \in [Registrars -> Tasks \cup {NoTask}]
           /\ registrar'[q] = NoTask
           /\ \A p \in Registrars :
                /\ registrar'[p].op \in {"count", "create"} => ~registrar'[p].fresh
                /\ registrar'[p].op = "delete" => registrar'[p] = registrar[p]
<1>1. ASSUME NEW p \in Registrars
      PROVE  /\ registrar'[p] \in Tasks \cup {NoTask}
             /\ p = q => registrar'[p] = NoTask
             /\ registrar'[p].op \in {"count", "create"} => ~registrar'[p].fresh
             /\ registrar'[p].op = "delete" => registrar'[p] = registrar[p]
  <2>1. registrar[p] \in Tasks \cup {NoTask}
        BY DEF RegistryInv, RegistryTypeOK
  <2>2. registrar'[p] = IF p = q THEN NoTask
                        ELSE IF registrar[p].op \in {"count", "create"} THEN [registrar[p] EXCEPT !.fresh = FALSE]
                        ELSE registrar[p]
        BY DEF Outdate
  <2>3. CASE p = q
        BY <2>2, <2>3 DEF NoTask
  <2>4. CASE p # q /\ registrar[p].op = "count"
    <3>1. registrar[p] \in Counted
          BY <2>1, <2>4, TaskByOp
    <3>2. registrar'[p] = [registrar[p] EXCEPT !.fresh = FALSE]
          BY <2>2, <2>4
    <3>3. registrar'[p] \in Counted /\ ~registrar'[p].fresh /\ registrar'[p].op = "count"
          BY <3>1, <3>2 DEF Counted
    <3> QED BY <2>4, <3>3, TasksAre
  <2>5. CASE p # q /\ registrar[p].op = "create"
    <3>1. registrar[p] \in Creating
          BY <2>1, <2>5, TaskByOp
    <3>2. registrar'[p] = [registrar[p] EXCEPT !.fresh = FALSE]
          BY <2>2, <2>5
    <3>3. registrar'[p] \in Creating /\ ~registrar'[p].fresh /\ registrar'[p].op = "create"
          BY <3>1, <3>2 DEF Creating
    <3> QED BY <2>5, <3>3, TasksAre
  <2>6. CASE p # q /\ registrar[p].op \notin {"count", "create"}
        BY <2>1, <2>2, <2>6
  <2> QED BY <2>3, <2>4, <2>5, <2>6
<1>2. registrar' = [p \in Registrars |-> registrar'[p]]
      BY DEF Outdate
<1>3. registrar' \in [Registrars -> Tasks \cup {NoTask}]
      BY <1>1, <1>2
<1> QED BY <1>1, <1>3

LEMMA WriteKept ==
    ASSUME RegistryInv, NEW q \in Registrars, registrar' = Outdate(q),
           plan' \in Plans, limit' \in Limits, register' \in [Members -> {"absent", "ATIVO", "INATIVO", "removed"}],
           \A m \in Members : register[m] # "absent" => register'[m] # "absent"
    PROVE  RegistryInv'
<1>1. RegistryTypeOK'
      BY Outdated DEF RegistryTypeOK
<1>2. ASSUME NEW p \in Registrars PROVE TaskOK(registrar[p])'
  <2>1. ASSUME registrar'[p].op = "delete" PROVE register'[registrar'[p].member] # "absent"
    <3>1. registrar'[p] = registrar[p] /\ registrar[p] \in Tasks \cup {NoTask} /\ TaskOK(registrar[p])
          BY <2>1, Outdated DEF RegistryInv, RegistryTypeOK
    <3>2. registrar[p].member \in Members
          BY <2>1, <3>1, TaskByOp DEF Removing
    <3> QED BY <2>1, <3>1, <3>2 DEF TaskOK
  <2> QED BY <2>1, Outdated DEF TaskOK
<1> QED BY <1>1, <1>2 DEF RegistryInv

\* What the write of a tenant makes of plan and limit.
LEMMA TenantWritten ==
    ASSUME RegistryInv, NEW q \in Registrars, writeTenant(q)
    PROVE  /\ plan' \in Plans /\ limit' \in Limits
           /\ registrar[q].seen = plan /\ Honest(plan, limit) => Honest(plan', limit')
<1> DEFINE t == registrar[q]
<1>1. t \in Planning
      BY TaskByOp DEF writeTenant, RegistryInv, RegistryTypeOK
<1>2. /\ plan' = IF t.plan = "omitted" THEN plan ELSE t.plan
      /\ limit' = IF NewLimit(t) = NotGiven THEN limit ELSE NewLimit(t)
      BY DEF writeTenant
<1>3. plan' \in Plans /\ plan \in Plans /\ limit \in Limits
      BY <1>1, <1>2 DEF Planning, RegistryInv, RegistryTypeOK
<1> HIDE DEF t
<1>4. CASE t.limit = NotGiven /\ t.plan \notin {"omitted", t.seen}
  <2>1. plan' = t.plan /\ limit' = defaultLimit(plan')
        BY <1>2, <1>3, <1>4, DefaultIsALimit DEF NewLimit
  <2> QED BY <1>3, <2>1, DefaultIsALimit DEF Honest
<1>5. CASE t.limit = NotGiven /\ t.plan \in {"omitted", t.seen}
  <2>1. limit' = limit /\ (t.seen = plan => plan' = plan)
        BY <1>2, <1>5 DEF NewLimit
  <2> QED BY <1>3, <2>1 DEF t
<1>6. CASE t.limit # NotGiven
  <2>1. limit' = t.limit /\ limit' \in Agreed
        BY <1>1, <1>2, <1>6 DEF NewLimit, Planning
  <2> QED BY <1>3, <2>1 DEF Honest, Limits
<1> QED BY <1>4, <1>5, <1>6

LEMMA RegistryStep == RegistryInv /\ [RegistryNext]_registryVars => RegistryInv'
<1> SUFFICES ASSUME RegistryInv, [RegistryNext]_registryVars PROVE RegistryInv'
    OBVIOUS
<1>0. ASSUME NEW q \in Registrars PROVE registrar[q] \in Tasks \cup {NoTask} /\ TaskOK(registrar[q])
      BY DEF RegistryInv, RegistryTypeOK
<1>1. ASSUME NEW q \in Registrars, createMember(q) PROVE RegistryInv'
  <2> DEFINE t == [op |-> "count", plan |-> plan, limit |-> limit, fresh |-> TRUE]
  <2>1. t \in Tasks /\ TaskOK(t)
        BY TasksAre DEF Counted, TaskOK, RegistryInv, RegistryTypeOK
  <2> QED BY <1>1, <2>1, RegistryKept DEF createMember
<1>2. ASSUME NEW q \in Registrars, countMembers(q) PROVE RegistryInv'
  <2> DEFINE c == registrar[q]
             w == [op |-> "create", fresh |-> c.fresh]
  <2>1. c \in Counted /\ TaskOK(c)
        BY <1>0, <1>2, TaskByOp DEF countMembers
  <2>2. CASE canAddMember(c.plan, c.limit, Cardinality(Registered))
    <3>1. registrar' = [registrar EXCEPT ![q] = w]
          BY <1>2, <2>2 DEF countMembers
    <3>2. w \in Tasks
          BY <2>1, TasksAre DEF Counted, Creating
    <3>3. TaskOK(w)
          BY <2>1, <2>2 DEF TaskOK, Counted, canAddMember, InForce
    <3> HIDE DEF w
    <3> QED BY <1>2, <3>1, <3>2, <3>3, RegistryKept DEF countMembers
  <2>3. CASE ~canAddMember(c.plan, c.limit, Cardinality(Registered))
    <3>1. registrar' = [registrar EXCEPT ![q] = NoTask]
          BY <1>2, <2>3 DEF countMembers
    <3>2. TaskOK(NoTask)
          BY DEF TaskOK, NoTask
    <3> QED BY <1>2, <3>1, <3>2, RegistryKept DEF countMembers
  <2> QED BY <2>2, <2>3
<1>3. ASSUME NEW q \in Registrars, NEW m \in Members, writeMember(q, m) PROVE RegistryInv'
      BY <1>3, WriteKept DEF writeMember, RegistryInv, RegistryTypeOK
<1>4. ASSUME NEW m \in Members, NEW status \in {"ATIVO", "INATIVO"}, updateMember(m, status) PROVE RegistryInv'
  <2>1. register' = [register EXCEPT ![m] = status] /\ register[m] \in {"ATIVO", "INATIVO"} /\ UNCHANGED <<plan, limit, registrar>>
        BY <1>4 DEF updateMember, RegistryInv, RegistryTypeOK
  <2>2. Registered' = Registered
        BY <2>1 DEF Registered, RegistryInv, RegistryTypeOK
  <2>3. RegistryTypeOK'
        BY <2>1 DEF RegistryInv, RegistryTypeOK
  <2>4. ASSUME NEW p \in Registrars PROVE TaskOK(registrar[p])'
    <3>1. registrar[p].op = "delete" => registrar[p].member \in Members
          BY <1>0, TaskByOp DEF Removing
    <3> QED BY <1>0, <2>1, <2>2, <3>1 DEF TaskOK, InForce, RegistryInv, RegistryTypeOK
  <2> QED BY <2>3, <2>4 DEF RegistryInv
<1>5. ASSUME NEW q \in Registrars, NEW m \in Members, removeMember(q, m) PROVE RegistryInv'
  <2> DEFINE t == [op |-> "delete", member |-> m]
  <2>1. t \in Tasks /\ TaskOK(t)
        BY <1>5, TasksAre DEF Removing, TaskOK, removeMember, Registered
  <2> QED BY <1>5, <2>1, RegistryKept DEF removeMember
<1>6. ASSUME NEW q \in Registrars, writeRemoval(q) PROVE RegistryInv'
  <2>1. registrar[q].member \in Members
        BY <1>0, <1>6, TaskByOp DEF writeRemoval, Removing
  <2> QED BY <1>6, <2>1, WriteKept DEF writeRemoval, RegistryInv, RegistryTypeOK
<1>7. ASSUME NEW q \in Registrars, NEW p \in Plans \cup {"omitted"}, NEW l \in Agreed \cup {NotGiven}, updateTenant(q, p, l)
      PROVE  RegistryInv'
  <2> DEFINE t == [op |-> "plan", seen |-> plan, plan |-> p, limit |-> l]
  <2>1. t \in Tasks /\ TaskOK(t)
        BY TasksAre DEF Planning, TaskOK, RegistryInv, RegistryTypeOK
  <2> QED BY <1>7, <2>1, RegistryKept DEF updateTenant
<1>8. ASSUME NEW q \in Registrars, writeTenant(q) PROVE RegistryInv'
      BY <1>8, TenantWritten, WriteKept DEF writeTenant, RegistryInv, RegistryTypeOK
<1>9. CASE UNCHANGED registryVars
  <2>1. Registered' = Registered
        BY <1>9 DEF registryVars, Registered
  <2> QED BY <1>9, <2>1 DEF registryVars, RegistryInv, RegistryTypeOK, TaskOK, InForce
<1> QED BY <1>1, <1>2, <1>3, <1>4, <1>5, <1>6, <1>7, <1>8, <1>9 DEF RegistryNext

\* The invariant of members and plans: a count or a limit that no write has
\* overtaken is the one in force.
THEOREM RegistryInvariant == RegistrySpec => []RegistryInv
<1> QED BY RegistryInitially, RegistryStep, PTL DEF RegistrySpec

\* One step creates a member within the limit in force or on stale reads, and
\* leaves an honest limit or read another plan than the one it replaced.
LEMMA HonouredStep ==
    ASSUME RegistryInv, [RegistryNext]_registryVars
    PROVE  [/\ \A m \in Members : register[m] = "absent" /\ register'[m] # "absent" =>
                 \/ InForce(plan, limit)
                 \/ \E q \in Registrars : registrar[q].op = "create" /\ ~registrar[q].fresh /\ registrar'[q] = NoTask
            /\ Honest(plan, limit) /\ ~Honest(plan', limit') =>
                 \E q \in Registrars : registrar[q].op = "plan" /\ registrar[q].seen # plan /\ registrar'[q] = NoTask]_registryVars
<1>1. ASSUME NEW m \in Members, register[m] = "absent", register'[m] # "absent"
      PROVE  \/ InForce(plan, limit)
             \/ \E q \in Registrars : registrar[q].op = "create" /\ ~registrar[q].fresh /\ registrar'[q] = NoTask
  <2>1. ASSUME NEW q \in Registrars, writeRemoval(q) PROVE FALSE
    <3>1. registrar[q] \in Removing /\ register[registrar[q].member] # "absent"
          BY <2>1, TaskByOp DEF writeRemoval, RegistryInv, RegistryTypeOK, TaskOK
    <3> QED BY <1>1, <2>1, <3>1 DEF writeRemoval, RegistryInv, RegistryTypeOK, Removing
  <2>2. ASSUME NEW n \in Members, NEW status \in {"ATIVO", "INATIVO"}, updateMember(n, status) PROVE FALSE
        BY <1>1, <2>2 DEF updateMember, RegistryInv, RegistryTypeOK
  <2>3. PICK q \in Registrars, n \in Members : writeMember(q, n)
        BY <1>1, <2>1, <2>2 DEF RegistryNext, registryVars, createMember, countMembers, writeTenant, removeMember, updateTenant
  <2>4. registrar[q].op = "create" /\ TaskOK(registrar[q]) /\ registrar'[q] = NoTask
        BY <2>3, Outdated DEF writeMember, RegistryInv
  <2> QED BY <2>4 DEF TaskOK
<1>2. ASSUME Honest(plan, limit), ~Honest(plan', limit')
      PROVE  \E q \in Registrars : registrar[q].op = "plan" /\ registrar[q].seen # plan /\ registrar'[q] = NoTask
  <2>1. PICK q \in Registrars : writeTenant(q)
        BY <1>2 DEF RegistryNext, registryVars, createMember, countMembers, writeMember, updateMember, removeMember,
           writeRemoval, updateTenant
  <2>2. registrar[q].seen # plan
        BY <1>2, <2>1, TenantWritten
  <2>3. registrar[q].op = "plan" /\ registrar'[q] = NoTask
        BY <2>1, Outdated DEF writeTenant
  <2> QED BY <2>2, <2>3
<1> QED BY <1>1, <1>2

\* However many requests there are, a member is created over the limit of the
\* plan only on reads that others had overtaken, and a limit that is neither the
\* plan's nor a contract's is left only by a request that had read another plan.
THEOREM PlanHonoured == RegistrySpec => PlanIsHonoured
<1>1. RegistryInv /\ [RegistryNext]_registryVars =>
        [/\ \A m \in Members : register[m] = "absent" /\ register'[m] # "absent" =>
              \/ InForce(plan, limit)
              \/ \E q \in Registrars : registrar[q].op = "create" /\ ~registrar[q].fresh /\ registrar'[q] = NoTask
         /\ Honest(plan, limit) /\ ~Honest(plan', limit') =>
              \E q \in Registrars : registrar[q].op = "plan" /\ registrar[q].seen # plan /\ registrar'[q] = NoTask]_registryVars
      BY HonouredStep
<1> QED BY <1>1, RegistryInvariant, PTL DEF RegistrySpec, PlanIsHonoured
=============================================================================
