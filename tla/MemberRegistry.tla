---------------------------- MODULE MemberRegistry ----------------------------
(***************************************************************************)
(* The members of a tenant and the limit of its plan (membros.service.ts,  *)
(* super-admin.service.ts, tenant-plan.ts).                                *)
(*                                                                         *)
(* create reads the tenant, counts the members and creates one, in three   *)
(* statements; updateTenant reads the tenant and writes it.  Limits are    *)
(* scaled down: what matters is their order.                               *)
(***************************************************************************)
EXTENDS Naturals, FiniteSets

CONSTANTS
    Members,     \* rows of Membro, created or not
    Registrars,  \* requests
    SmallLimit,  \* the default of GRATUITO
    LargeLimit,  \* the default of BASICO
    Agreed       \* limits a contract may state

Plans == {"GRATUITO", "BASICO", "PROFISSIONAL"}
Unlimited == 999999
NotGiven == 0 \* a limit that a request does not state

ASSUME RegistryAssumption ==
    /\ IsFiniteSet(Members)
    /\ SmallLimit \in Nat \ {0} /\ LargeLimit \in Nat /\ SmallLimit <= LargeLimit
    /\ Agreed \subseteq Nat \ {0}

VARIABLES
    plan,      \* plano
    limit,     \* limiteMembros, as stored
    register,  \* status of each member; removed rows are kept
    registrar  \* where each request is, and what it has read

registryVars == <<plan, limit, register, registrar>>

NoTask == [op |-> "idle"]
Limits == {SmallLimit, LargeLimit, Unlimited} \cup Agreed
Tasks ==
    [op : {"count"}, plan : Plans, limit : Limits, fresh : BOOLEAN]
    \cup [op : {"create"}, fresh : BOOLEAN]
    \cup [op : {"plan"}, seen : Plans, plan : Plans \cup {"omitted"}, limit : Agreed \cup {NotGiven}]
    \cup [op : {"delete"}, member : Members]

\* getDefaultStoredMemberLimit
defaultLimit(p) == CASE p = "GRATUITO" -> SmallLimit [] p = "BASICO" -> LargeLimit [] OTHER -> Unlimited

Greater(a, b) == IF a > b THEN a ELSE b

\* getEffectiveMemberLimit and canAddMember: a stored limit only raises the
\* default, and PROFISSIONAL has none.
\* A mutated form of canAddMember, used by no action.
canAddMemberUpTo(p, stored, n) == p = "PROFISSIONAL" \/ n <= Greater(defaultLimit(p), stored)

canAddMember(p, stored, n) == p = "PROFISSIONAL" \/ n < Greater(defaultLimit(p), stored)

\* Members that are not removed, the inactive ones with them.
Registered == {m \in Members : register[m] \in {"ATIVO", "INATIVO"}}

RegistryInit ==
    /\ plan \in Plans /\ limit = defaultLimit(plan)
    /\ register = [m \in Members |-> "absent"]
    /\ registrar = [q \in Registrars |-> NoTask]

\* What was read of plan and members is out of date once another writes them.
Outdate(q) == [r \in Registrars |->
    IF r = q THEN NoTask
    ELSE IF registrar[r].op \in {"count", "create"} THEN [registrar[r] EXCEPT !.fresh = FALSE]
    ELSE registrar[r]]

\* create of a member reads the tenant ...
createMember(q) ==
    /\ registrar[q] = NoTask
    /\ registrar' = [registrar EXCEPT ![q] = [op |-> "count", plan |-> plan, limit |-> limit, fresh |-> TRUE]]
    /\ UNCHANGED <<plan, limit, register>>

\* ... counts its members ...
countMembers(q) ==
    /\ registrar[q].op = "count"
    /\ registrar' = [registrar EXCEPT ![q] =
         IF canAddMember(@.plan, @.limit, Cardinality(Registered))
         THEN [op |-> "create", fresh |-> @.fresh] ELSE NoTask]
    /\ UNCHANGED <<plan, limit, register>>

\* ... and creates one.
writeMember(q, m) ==
    /\ registrar[q].op = "create" /\ register[m] = "absent"
    /\ register' = [register EXCEPT ![m] = "ATIVO"]
    /\ registrar' = Outdate(q)
    /\ UNCHANGED <<plan, limit>>

\* update of a member: any status, and no count.
updateMember(m, status) ==
    /\ register[m] \notin {"absent", "removed", status}
    /\ register' = [register EXCEPT ![m] = status]
    /\ UNCHANGED <<plan, limit, registrar>>

\* remove finds the member, deletes its photo (module StoredMedia) ...
removeMember(q, m) ==
    /\ registrar[q] = NoTask /\ m \in Registered
    /\ registrar' = [registrar EXCEPT ![q] = [op |-> "delete", member |-> m]]
    /\ UNCHANGED <<plan, limit, register>>

\* ... and marks it as removed, with its memberships (module Ministries).
writeRemoval(q) ==
    /\ registrar[q].op = "delete"
    /\ register' = [register EXCEPT ![registrar[q].member] = "removed"]
    /\ registrar' = Outdate(q)
    /\ UNCHANGED <<plan, limit>>

\* updateTenant of the platform: a change of plan brings its default, unless
\* the request states a limit.
updateTenant(q, p, l) ==
    /\ registrar[q] = NoTask
    /\ registrar' = [registrar EXCEPT ![q] = [op |-> "plan", seen |-> plan, plan |-> p, limit |-> l]]
    /\ UNCHANGED <<plan, limit, register>>

NewLimit(t) ==
    IF t.limit = NotGiven /\ t.plan \notin {"omitted", t.seen} THEN defaultLimit(t.plan) ELSE t.limit

writeTenant(q) ==
    LET t == registrar[q] IN
    /\ t.op = "plan"
    /\ plan' = IF t.plan = "omitted" THEN plan ELSE t.plan
    /\ limit' = IF NewLimit(t) = NotGiven THEN limit ELSE NewLimit(t)
    /\ registrar' = Outdate(q)
    /\ UNCHANGED register

RegistryNext ==
    \/ \E q \in Registrars :
         \/ createMember(q) \/ countMembers(q) \/ writeRemoval(q) \/ writeTenant(q)
         \/ \E m \in Members : writeMember(q, m) \/ removeMember(q, m)
         \/ \E p \in Plans \cup {"omitted"}, l \in Agreed \cup {NotGiven} : updateTenant(q, p, l)
    \/ \E m \in Members, status \in {"ATIVO", "INATIVO"} : updateMember(m, status)

RegistrySpec == RegistryInit /\ [][RegistryNext]_registryVars
-----------------------------------------------------------------------------
RegistryTypeOK ==
    /\ plan \in Plans /\ limit \in Limits
    /\ register \in [Members -> {"absent", "ATIVO", "INATIVO", "removed"}]
    /\ registrar \in [Registrars -> Tasks \cup {NoTask}]

InForce(p, l) == p = "PROFISSIONAL" \/ Cardinality(Registered) < Greater(defaultLimit(p), l)
Honest(p, l) == l \in {defaultLimit(p)} \cup Agreed

\* "Limite de membros atingido para o plano": a member is created over the
\* limit in force only by a request that read plan or members before another
\* wrote them, and a change of plan leaves the limit of the former plan only if
\* it read another plan than the one it replaced.
PlanIsHonoured ==
    [][/\ \A m \in Members : register[m] = "absent" /\ register'[m] # "absent" =>
            \/ InForce(plan, limit)
            \/ \E q \in Registrars : registrar[q].op = "create" /\ ~registrar[q].fresh /\ registrar'[q] = NoTask
       /\ Honest(plan, limit) /\ ~Honest(plan', limit') =>
            \E q \in Registrars : registrar[q].op = "plan" /\ registrar[q].seen # plan /\ registrar'[q] = NoTask]_registryVars
=============================================================================
