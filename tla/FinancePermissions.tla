-------------------------- MODULE FinancePermissions --------------------------
(***************************************************************************)
(* Who may manage the finances of a tenant (financeiro.service.ts,         *)
(* finance-authorization.service.ts).                                      *)
(*                                                                         *)
(* A level is written after three reads: the right of the actor, the row   *)
(* of the target, the number of managers.  Nothing holds them together.    *)
(* A revoked row and one never written are one level; a revocation that    *)
(* read no level may find either.  Accounts are switched off and on by     *)
(* other handlers, and the guard of every route looks at that once, when   *)
(* the request enters.                                                     *)
(***************************************************************************)
EXTENDS Naturals, FiniteSets

CONSTANTS
    People,   \* users of the tenant
    Admins,   \* those whose role is ADMIN
    Actors    \* requests that change a permission

Manager == "FINANCE_MANAGER"
Levels == {"none", "FINANCE_VIEWER", Manager}

ASSUME PermissionsAssumption == Admins \subseteq People /\ IsFiniteSet(People)

VARIABLES
    grant,    \* the level of each user (FinancePermission)
    enabled,  \* users who may sign in
    change,   \* where each request is, and what it has read
    managed,  \* history: the tenant has had a manager
    crossed   \* history: a level was written on reads that were out of date

permissionVars == <<grant, enabled, change, managed, crossed>>

NoChange == [op |-> "idle"]
Changes ==
    {NoChange}
    \cup [op : {"authorise", "read"}, actor : People, target : People, level : Levels]
    \cup [op : {"count"}, actor : People, target : People, level : Levels, before : Levels, fresh : BOOLEAN]
    \cup [op : {"write"}, target : People, level : Levels, before : Levels, fresh : BOOLEAN]

Managers == {u \in People : grant[u] = Manager}

\* A tenant of the platform begins with its owner as manager (createTenant);
\* one that is older than the finances begins with none.
PermissionsInit ==
    /\ \/ grant = [u \in People |-> "none"]
       \/ \E owner \in Admins : grant = [u \in People |-> IF u = owner THEN Manager ELSE "none"]
    /\ managed = (Managers # {})
    /\ enabled = People
    /\ change = [q \in Actors |-> NoChange]
    /\ crossed = FALSE

\* getPermissionSummary
canManage(u) == grant[u] = Manager
canBootstrap(u) == Managers = {} /\ u \in Admins

\* The guard of the route lets an account in that may sign in.
updateUserPermission(q, actor, target, level) ==
    /\ change[q] = NoChange /\ actor \in enabled
    /\ change' = [change EXCEPT ![q] = [op |-> "authorise", actor |-> actor, target |-> target, level |-> level]]
    /\ UNCHANGED <<grant, enabled, managed, crossed>>

\* ensureCanManagePermissions: a manager may do anything, an administrator of a
\* tenant without one may only name one.
ensureCanManagePermissions(q) ==
    /\ change[q].op = "authorise"
    /\ change' = [change EXCEPT ![q] =
         IF \/ canManage(change[q].actor)
            \/ canBootstrap(change[q].actor) /\ change[q].level = Manager
         THEN [@ EXCEPT !.op = "read"] ELSE NoChange]
    /\ UNCHANGED <<grant, enabled, managed, crossed>>

readPermission(q) ==
    /\ change[q].op = "read"
    /\ change' = [change EXCEPT ![q] = [op |-> "count", actor |-> @.actor, target |-> @.target,
                                        level |-> @.level, before |-> grant[@.target], fresh |-> TRUE]]
    /\ UNCHANGED <<grant, enabled, managed, crossed>>

\* A mutated form of LastManager, used by no action.
LastManagerOffByOne(q, n) == change[q].before = Manager /\ n < 1 /\ change[q].level # Manager

LastManager(q, n) == change[q].before = Manager /\ n <= 1 /\ change[q].level # Manager

\* countActiveManagers, and the refusal to remove the last one.
countActiveManagers(q) ==
    /\ change[q].op = "count"
    /\ LET n == Cardinality(Managers) IN
       change' = [change EXCEPT ![q] =
         IF LastManager(q, n) THEN NoChange
         ELSE [op |-> "write", target |-> @.target, level |-> @.level, before |-> @.before, fresh |-> @.fresh]]
    /\ UNCHANGED <<grant, enabled, managed, crossed>>

\* A revocation finds nothing to revoke if no row was there when it was read.
nothingToRevoke(q) ==
    /\ change[q].op = "write" /\ change[q].level = "none" /\ change[q].before = "none"
    /\ change' = [change EXCEPT ![q] = NoChange]
    /\ UNCHANGED <<grant, enabled, managed, crossed>>

\* The upsert, or the revocation.
writePermission(q) ==
    /\ change[q].op = "write"
    /\ grant' = [grant EXCEPT ![change[q].target] = change[q].level]
    /\ managed' = (managed \/ change[q].level = Manager)
    /\ crossed' = (crossed \/ ~change[q].fresh)
    /\ change' = [p \in Actors |->
         IF p = q THEN NoChange
         ELSE IF change[p].op \in {"count", "write"} THEN [change[p] EXCEPT !.fresh = FALSE]
         ELSE change[p]]
    /\ UNCHANGED enabled

\* deleteUser and updateUser of the accounts: they look at no permission.
switchAccount(u) ==
    /\ enabled' = IF u \in enabled THEN enabled \ {u} ELSE enabled \cup {u}
    /\ UNCHANGED <<grant, change, managed, crossed>>

PermissionsNext ==
    \/ \E q \in Actors :
         \/ \E actor, target \in People, level \in Levels : updateUserPermission(q, actor, target, level)
         \/ ensureCanManagePermissions(q) \/ readPermission(q) \/ countActiveManagers(q)
         \/ nothingToRevoke(q) \/ writePermission(q)
    \/ \E u \in People : switchAccount(u)

PermissionsSpec == PermissionsInit /\ [][PermissionsNext]_permissionVars
-----------------------------------------------------------------------------
PermissionsTypeOK ==
    /\ grant \in [People -> Levels]
    /\ enabled \in SUBSET People
    /\ change \in [Actors -> Changes]
    /\ managed \in BOOLEAN /\ crossed \in BOOLEAN

\* "Nao e possivel remover o ultimo gestor financeiro do tenant": once there is
\* a manager there always is one, and nobody has a level that no manager can
\* take back, unless a level was written on reads that were out of date.  Two
\* managers who demote each other at once are the case.
AManagerRemains ==
    ~crossed => (managed <=> Managers # {}) /\ ((\E u \in People : grant[u] # "none") => managed)
=============================================================================
