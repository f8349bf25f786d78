------------------------------ MODULE EventNeeds ------------------------------
(***************************************************************************)
(* Events that need a schedule of a ministry, and the ministry's switch    *)
(* (eventos.service.ts, ministerios.service.ts).                           *)
(*                                                                         *)
(* The agenda refuses an event that asks a schedule of a ministry without  *)
(* schedules, and the ministry refuses to do without them while a future   *)
(* event asks for one.  Each reads the other's row and writes its own in a *)
(* later statement.  The reminder of an event is in EventReminder, the     *)
(* linked days in ScheduleAssignments.                                     *)
(***************************************************************************)
EXTENDS Naturals

CONSTANTS
    Planners,      \* requests
    EventForms,    \* the dtos an instance lets the requests give
    MinistryForms

VARIABLES
    switches, \* [active |-> ativo, uses |-> usaEscalas] of the ministry
    occasion, \* one event, and what it asks of the ministry
    planner,  \* where each request is, and what it has read
    clashed   \* history: a write was made on reads that were out of date

needVars == <<switches, occasion, planner, clashed>>

\* What an event asks of the ministry: nothing, to take part, or a schedule.
Links == {"none", "part", "schedule"}
NoEvent == [status |-> "absent"]
Occasions == [status : {"AGENDADO", "CANCELADO"}, future : BOOLEAN, link : Links]
NoPlan == [op |-> "idle"]

\* Dtos: "omitted" is a field that is not given; "retyped" gives a type and no
\* ministries, which has them written again as they were read.
EventDtos == [status : {"omitted", "AGENDADO", "CANCELADO"}, future : {"omitted", "yes", "no"}, link : Links \cup {"omitted", "retyped"}]
MinistryDtos == [active : {"omitted", "yes", "no"}, uses : {"omitted", "yes", "no"}]

ASSUME NeedsAssumption == EventForms \subseteq EventDtos /\ MinistryForms \subseteq MinistryDtos

PlannerSteps ==
    [op : {"validate", "write"}, dto : EventDtos, seen : Links \cup {"new"}, fresh : BOOLEAN]
    \cup [op : {"count", "switch"}, dto : MinistryDtos, fresh : BOOLEAN]
    \cup [op : {"deactivate"}] \cup [op : {"delete"}]

NeedsInit ==
    /\ switches = [active |-> TRUE, uses |-> TRUE]
    /\ occasion = NoEvent
    /\ planner = [q \in Planners |-> NoPlan]
    /\ clashed = FALSE

PlannerBegins(q, step) ==
    /\ planner[q] = NoPlan
    /\ planner' = [planner EXCEPT ![q] = step]
PlannerGoes(q, op) == planner' = [planner EXCEPT ![q] = IF op = "idle" THEN NoPlan ELSE [@ EXCEPT !.op = op]]
\* The request ends with a write: what others have read may be out of date.
PlannerWrote(q) == planner' = [r \in Planners |->
    IF r = q THEN NoPlan
    ELSE IF planner[r].op \in {"validate", "write", "count", "switch"} THEN [planner[r] EXCEPT !.fresh = FALSE]
    ELSE planner[r]]

\* The link an event will have: given, or as it was read.
LinkOf(p) == IF p.dto.link \in Links THEN p.dto.link ELSE IF p.seen = "new" THEN "none" ELSE p.seen
-----------------------------------------------------------------------------
\* create of an event (prepareCreateContext).
createEvent(q, future, link) ==
    /\ occasion = NoEvent
    /\ PlannerBegins(q, [op |-> "validate", seen |-> "new", fresh |-> TRUE,
                 dto |-> [status |-> "AGENDADO", future |-> future, link |-> link]])
    /\ UNCHANGED <<switches, occasion, clashed>>

\* update reads the event, with its links if the request gives none.
updateEvent(q, dto) ==
    /\ occasion # NoEvent
    /\ PlannerBegins(q, [op |-> "validate", dto |-> dto, seen |-> occasion.link, fresh |-> TRUE])
    /\ UNCHANGED <<switches, occasion, clashed>>

\* A mutated form of validateMinisterios, used by no action.
validateOnlyNewMinisterios(p) ==
    p.dto.link \in {"part", "schedule"} => switches.active /\ (p.dto.link = "schedule" => switches.uses)

\* Every ministry of the event is active, and has schedules if it needs one.
validateMinisterios(p) ==
    LinkOf(p) # "none" => switches.active /\ (LinkOf(p) = "schedule" => switches.uses)

validateEvent(q) ==
    /\ planner[q].op = "validate"
    /\ PlannerGoes(q, IF validateMinisterios(planner[q]) THEN "write" ELSE "idle")
    /\ UNCHANGED <<switches, occasion, clashed>>

\* The write, of the fields given; a row that is gone is an error.
writeEvent(q) ==
    LET p == planner[q]
        row == IF p.seen = "new" THEN [status |-> "AGENDADO", future |-> TRUE, link |-> "none"] ELSE occasion
    IN
    /\ p.op = "write"
    /\ IF (p.seen = "new") # (occasion = NoEvent)
       THEN PlannerGoes(q, "idle") /\ UNCHANGED <<occasion, clashed>>
       ELSE /\ occasion' = [status |-> IF p.dto.status = "omitted" THEN row.status ELSE p.dto.status,
                            future |-> IF p.dto.future = "omitted" THEN row.future ELSE p.dto.future = "yes",
                            link |-> IF p.dto.link = "omitted" THEN row.link ELSE LinkOf(p)]
            /\ clashed' = (clashed \/ ~p.fresh)
            /\ PlannerWrote(q)
    /\ UNCHANGED switches

\* remove of an event.
removeEvent(q) ==
    /\ occasion # NoEvent
    /\ PlannerBegins(q, [op |-> "delete"])
    /\ UNCHANGED <<switches, occasion, clashed>>
deleteEvent(q) ==
    /\ planner[q].op = "delete"
    /\ occasion' = NoEvent
    /\ PlannerWrote(q)
    /\ UNCHANGED <<switches, clashed>>

\* The day of the event goes by.
eventPasses ==
    /\ occasion # NoEvent /\ occasion.future
    /\ occasion' = [occasion EXCEPT !.future = FALSE]
    /\ UNCHANGED <<switches, planner, clashed>>

\* update of the ministry reads it, and counts events only to switch schedules off.
updateMinistry(q, dto) ==
    /\ PlannerBegins(q, [op |-> IF dto.uses = "no" /\ switches.uses THEN "count" ELSE "switch", dto |-> dto, fresh |-> TRUE])
    /\ UNCHANGED <<switches, occasion, clashed>>

countEvents(q) ==
    /\ planner[q].op = "count"
    /\ PlannerGoes(q, IF occasion # NoEvent /\ occasion.status = "AGENDADO" /\ occasion.future /\ occasion.link = "schedule"
             THEN "idle" ELSE "switch")
    /\ UNCHANGED <<switches, occasion, clashed>>

writeMinistry(q) ==
    LET d == planner[q].dto IN
    /\ planner[q].op = "switch"
    /\ switches' = [active |-> IF d.active = "omitted" THEN switches.active ELSE d.active = "yes",
                    uses |-> IF d.uses = "omitted" THEN switches.uses ELSE d.uses = "yes"]
    /\ clashed' = (clashed \/ ~planner[q].fresh)
    /\ PlannerWrote(q)
    /\ UNCHANGED occasion

\* remove of the ministry: no event is looked at.
removeMinistry(q) ==
    /\ PlannerBegins(q, [op |-> "deactivate"])
    /\ UNCHANGED <<switches, occasion, clashed>>
deactivateMinistry(q) ==
    /\ planner[q].op = "deactivate"
    /\ switches' = [switches EXCEPT !.active = FALSE]
    /\ PlannerWrote(q)
    /\ UNCHANGED <<occasion, clashed>>

NeedsNext ==
    \/ \E q \in Planners :
         \/ \E future \in {"yes", "no"}, link \in Links : createEvent(q, future, link)
         \/ \E dto \in EventForms : updateEvent(q, dto)
         \/ \E dto \in MinistryForms : updateMinistry(q, dto)
         \/ validateEvent(q) \/ writeEvent(q) \/ removeEvent(q) \/ deleteEvent(q)
         \/ countEvents(q) \/ writeMinistry(q) \/ removeMinistry(q) \/ deactivateMinistry(q)
    \/ eventPasses

NeedsSpec == NeedsInit /\ [][NeedsNext]_needVars
-----------------------------------------------------------------------------
NeedsTypeOK ==
    /\ switches \in [active : BOOLEAN, uses : BOOLEAN]
    /\ occasion \in Occasions \cup {NoEvent}
    /\ planner \in [Planners -> PlannerSteps \cup {NoPlan}]
    /\ clashed \in BOOLEAN

\* "Este ministerio possui evento(s) agendado(s), de hoje em diante, que ainda
\* precisam de escala": no future event waits for a schedule of a ministry that
\* has none, however events are moved, cancelled, taken up again and edited,
\* unless two requests wrote over what the other had read.
NoEventWaitsForNothing ==
    ~clashed /\ occasion # NoEvent /\ occasion.status = "AGENDADO" /\ occasion.future /\ occasion.link = "schedule"
        => switches.uses
=============================================================================
