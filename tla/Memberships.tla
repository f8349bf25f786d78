----------------------------- MODULE Memberships -----------------------------
(***************************************************************************)
(* Members of a ministry and the positions each may fill                   *)
(* (ministerios.service.ts, and the removal of membros.service.ts).        *)
(*                                                                         *)
(* The positions of a member are written by three statements: a count that *)
(* validates them, a deletion of the others and an insertion.  Deletions   *)
(* cascade from memberships and positions to what hangs on them; an        *)
(* insertion that refers to a row that is gone fails.  Names, roles and    *)
(* order are not told apart; access is a refusal.                          *)
(***************************************************************************)
EXTENDS Naturals

CONSTANTS
    Servants,  \* rows of Membro
    Positions, \* rows of MinisterioFuncao
    Leaders    \* requests

ASSUME MembershipsAssumption == "keep" \notin Positions

VARIABLES
    person,   \* status of each member
    belongs,  \* who is in the ministry
    offered,  \* positions of the ministry
    skills,   \* positions each member may fill (MinisterioMembroFuncao)
    leader,   \* where each request is, and what it carries
    asked,    \* history: what skills would be had each request been alone
    late,     \* history: members put in by a request that read them before they left
    mixed     \* history: members whose positions were written halfway, or by two at once

membershipVars == <<person, belongs, offered, skills, leader, asked, late, mixed>>

\* "keep" is a request that gives no positions.
Keep == {"keep"}
Wishes == SUBSET Positions
Idle == [op |-> "idle"]
Requests ==
    [op : {"validate", "join", "check", "clear", "fill"}, member : Servants, wanted : Wishes \cup {Keep},
     joins : BOOLEAN, crossed : BOOLEAN]
    \cup [op : {"drop", "offer"}, kept : Wishes]

MembershipsInit ==
    /\ person = [m \in Servants |-> "ATIVO"]
    /\ belongs = {} /\ offered = Positions
    /\ skills = [m \in Servants |-> {}] /\ asked = skills
    /\ leader = [q \in Leaders |-> Idle]
    /\ late = {} /\ mixed = {}

LeaderGoes(q, op) == leader' = [leader EXCEPT ![q] = IF op = "idle" THEN Idle ELSE [@ EXCEPT !.op = op]]
LeaderBegins(q, step) == leader[q] = Idle /\ leader' = [leader EXCEPT ![q] = step]

\* q goes on after it wrote positions of m: others between their deletion and
\* their insertion have been crossed.
SkillsWrote(q, m, op) == leader' = [r \in Leaders |->
    IF r = q THEN IF op = "idle" THEN Idle ELSE [leader[r] EXCEPT !.op = op]
    ELSE IF leader[r].op = "fill" /\ leader[r].member = m THEN [leader[r] EXCEPT !.crossed = TRUE]
    ELSE leader[r]]
-----------------------------------------------------------------------------
\* addMembro: an active member.
addMembro(q, m, wanted) ==
    /\ person[m] = "ATIVO"
    /\ LeaderBegins(q, [op |-> "validate", member |-> m, wanted |-> wanted, joins |-> TRUE, crossed |-> FALSE])
    /\ UNCHANGED <<person, belongs, offered, skills, asked, late, mixed>>

\* updateMembroRole: one who is in the ministry.
updateMembroRole(q, m, wanted) ==
    /\ m \in belongs
    /\ LeaderBegins(q, [op |-> "validate", member |-> m, wanted |-> wanted, joins |-> FALSE, crossed |-> FALSE])
    /\ UNCHANGED <<person, belongs, offered, skills, asked, late, mixed>>

\* validateFuncoesDisponiveis
Offered(wanted) == wanted = Keep \/ wanted \subseteq offered

validateFuncoes(q) ==
    /\ leader[q].op = "validate"
    /\ LeaderGoes(q, IF ~Offered(leader[q].wanted) THEN "idle"
             ELSE IF leader[q].joins THEN "join"
             ELSE IF leader[q].wanted = Keep THEN "idle" ELSE "check")
    /\ UNCHANGED <<person, belongs, offered, skills, asked, late, mixed>>

\* The upsert of addMembro looks at the member no more.
joinMinistry(q) ==
    LET m == leader[q].member IN
    /\ leader[q].op = "join"
    /\ belongs' = belongs \cup {m}
    /\ late' = IF person[m] = "removed" THEN late \cup {m} ELSE late
    /\ LeaderGoes(q, IF leader[q].wanted = Keep THEN "idle" ELSE "check")
    /\ UNCHANGED <<person, offered, skills, asked, mixed>>

\* syncFuncoesDisponiveis validates again, deletes the others, inserts.
syncFuncoesDisponiveis(q) ==
    /\ leader[q].op = "check"
    /\ LeaderGoes(q, IF Offered(leader[q].wanted) THEN "clear" ELSE "idle")
    /\ UNCHANGED <<person, belongs, offered, skills, asked, late, mixed>>

\* A mutated form of Others, used by no action.
OthersForgotten(m, wanted) == {}

Others(m, wanted) == skills[m] \ wanted

deleteOthers(q) ==
    LET m == leader[q].member  wanted == leader[q].wanted IN
    /\ leader[q].op = "clear"
    /\ skills' = [skills EXCEPT ![m] = @ \ Others(m, wanted)]
    /\ asked' = [asked EXCEPT ![m] = IF wanted = {} THEN {} ELSE @]
    /\ mixed' = IF wanted = {} THEN mixed \ {m} ELSE mixed \cup {m}
    /\ SkillsWrote(q, m, IF wanted = {} THEN "idle" ELSE "fill")
    /\ UNCHANGED <<person, belongs, offered, late>>

\* An insertion that names a position or a membership that is gone fails.
insertSkills(q) ==
    LET m == leader[q].member  wanted == leader[q].wanted IN
    /\ leader[q].op = "fill"
    /\ IF m \in belongs /\ wanted \subseteq offered
       THEN /\ skills' = [skills EXCEPT ![m] = @ \cup wanted]
            /\ asked' = [asked EXCEPT ![m] = wanted]
            /\ mixed' = IF leader[q].crossed THEN mixed \cup {m} ELSE mixed \ {m}
            /\ SkillsWrote(q, m, "idle")
       ELSE LeaderGoes(q, "idle") /\ UNCHANGED <<skills, asked, mixed>>
    /\ UNCHANGED <<person, belongs, offered, late>>

\* A refusal, an error of the database or the end of the process.
membershipCutOff(q) ==
    /\ leader[q] # Idle
    /\ LeaderGoes(q, "idle")
    /\ UNCHANGED <<person, belongs, offered, skills, asked, late, mixed>>

Leave(m) ==
    /\ belongs' = belongs \ {m}
    /\ skills' = [skills EXCEPT ![m] = {}]
    /\ asked' = [asked EXCEPT ![m] = {}]
    /\ leader' = [q \in Leaders |->
         IF leader[q].op = "fill" /\ leader[q].member = m THEN [leader[q] EXCEPT !.crossed = TRUE] ELSE leader[q]]

\* removeMembro of the ministry.
removeMembro(m) ==
    /\ Leave(m)
    /\ late' = late \ {m} /\ mixed' = mixed \ {m}
    /\ UNCHANGED <<person, offered>>

\* The transaction that removes a member of the tenant.
removeFromTenant(m) ==
    /\ person[m] # "removed"
    /\ person' = [person EXCEPT ![m] = "removed"]
    /\ Leave(m)
    /\ late' = late \ {m} /\ mixed' = mixed \ {m}
    /\ UNCHANGED offered

\* update of a member: its status.
updateMembro(m, status) ==
    /\ person[m] \notin {"removed", status}
    /\ person' = [person EXCEPT ![m] = status]
    /\ UNCHANGED <<belongs, offered, skills, leader, asked, late, mixed>>

\* update of the ministry with its positions: the others are deleted, unless a
\* schedule holds one of them, and these are put one after the other.
updatePositions(q, kept) ==
    /\ LeaderBegins(q, [op |-> "drop", kept |-> kept])
    /\ UNCHANGED <<person, belongs, offered, skills, asked, late, mixed>>

dropPositions(q, held) ==
    LET kept == leader[q].kept IN
    /\ leader[q].op = "drop"
    /\ IF held THEN UNCHANGED <<offered, skills, asked>>
       ELSE /\ offered' = offered \cap kept
            /\ skills' = [m \in Servants |-> skills[m] \cap kept]
            /\ asked' = [m \in Servants |-> asked[m] \cap kept]
    /\ LeaderGoes(q, IF kept = {} THEN "idle" ELSE "offer")
    /\ UNCHANGED <<person, belongs, late, mixed>>

putPosition(q, p) ==
    LET left == leader[q].kept \ {p} IN
    /\ leader[q].op = "offer" /\ p \in leader[q].kept
    /\ offered' = offered \cup {p}
    /\ leader' = [leader EXCEPT ![q] = IF left = {} THEN Idle ELSE [@ EXCEPT !.kept = left]]
    /\ UNCHANGED <<person, belongs, skills, asked, late, mixed>>

MembershipsNext ==
    \/ \E q \in Leaders :
         \/ \E m \in Servants, wanted \in Wishes \cup {Keep} : addMembro(q, m, wanted) \/ updateMembroRole(q, m, wanted)
         \/ validateFuncoes(q) \/ joinMinistry(q) \/ syncFuncoesDisponiveis(q) \/ deleteOthers(q) \/ insertSkills(q)
         \/ membershipCutOff(q)
         \/ \E kept \in Wishes : updatePositions(q, kept)
         \/ \E held \in BOOLEAN : dropPositions(q, held)
         \/ \E p \in Positions : putPosition(q, p)
    \/ \E m \in Servants : removeMembro(m) \/ removeFromTenant(m)
    \/ \E m \in Servants, status \in {"ATIVO", "INATIVO"} : updateMembro(m, status)

MembershipsSpec == MembershipsInit /\ [][MembershipsNext]_membershipVars
-----------------------------------------------------------------------------
MembershipsTypeOK ==
    /\ person \in [Servants -> {"ATIVO", "INATIVO", "removed"}]
    /\ belongs \in SUBSET Servants /\ offered \in Wishes
    /\ skills \in [Servants -> Wishes] /\ asked \in [Servants -> Wishes]
    /\ leader \in [Leaders -> Requests \cup {Idle}]
    /\ late \in SUBSET Servants /\ mixed \in SUBSET Servants

\* A member who was removed serves nowhere, unless a request that had read it
\* before put it in; and the positions of a member are those that one request
\* asked, less the ones the ministry gave up, unless a request was cut off
\* between its deletion and its insertion or crossed with another, until the
\* next request of its own that gets through.
MembershipsAreWhole ==
    /\ \A m \in belongs : person[m] = "removed" => m \in late
    /\ \A m \in Servants \ mixed : skills[m] = asked[m]
=============================================================================
