------------------------------ MODULE OfficeProofs ------------------------------
(***************************************************************************)
(* The records of the office that several statements keep together, with   *)
(* no transaction over them: an event and the ministry it needs            *)
(* (EventNeeds), the membership of a ministry and its positions            *)
(* (Memberships), a row and the file it names (StoredMedia), a schedule    *)
(* and the notices of it (ScheduleNotices).  For each, an inductive        *)
(* invariant that says what a request or a job in progress has read and    *)
(* done, and the theorem that the records agree; and then that the whole   *)
(* (BackOffice) is each of its parts.                                      *)
(***************************************************************************)
EXTENDS BackOffice, TLAPS

-----------------------------------------------------------------------------
\* Events that need a schedule.

Planning == [op : {"validate", "write"}, dto : EventDtos, seen : Links \cup {"new"}, fresh : BOOLEAN]
Switching == [op : {"count", "switch"}, dto : MinistryDtos, fresh : BOOLEAN]
Ending == [op : {"deactivate", "delete"}]

WaitsForASchedule ==
    occasion # NoEvent /\ occasion.status = "AGENDADO" /\ occasion.future /\ occasion.link = "schedule"

\* A request that nobody has overtaken has read the link the event still has;
\* past the validation it has found the ministry with schedules, if it needs
\* them, and one that counted before it does away with them has found no event.
ReadsTheLink(p) ==
    p.op \in {"validate", "write"} /\ p.fresh /\ p.seen # "new" => occasion # NoEvent /\ occasion.link = p.seen
IsValidated(p) == p.op = "write" /\ p.fresh /\ LinkOf(p) = "schedule" => switches.uses
HasCounted(p) == ~clashed /\ p.op = "switch" /\ p.fresh /\ p.dto.uses = "no" => ~WaitsForASchedule
PlanOK(p) == ReadsTheLink(p) /\ IsValidated(p) /\ HasCounted(p)

NeedsInv == NeedsTypeOK /\ NoEventWaitsForNothing /\ \A q \in Planners : PlanOK(planner[q])

LEMMA PlansAre == PlannerSteps \cup {NoPlan} = {NoPlan} \cup Planning \cup Switching \cup Ending
  BY DEF PlannerSteps, NoPlan, Planning, Switching, Ending

LEMMA PlanByOp ==
    ASSUME NEW p \in PlannerSteps \cup {NoPlan}
    PROVE  /\ p.op \in {"validate", "write"} => p \in Planning
           /\ p.op \in {"count", "switch"} => p \in Switching
           /\ p.op \in {"deactivate", "delete"} => p \in Ending
           /\ p.op \in {"idle", "validate", "write", "count", "switch", "deactivate", "delete"}
  BY DEF PlannerSteps, NoPlan, Planning, Switching, Ending

LEMMA NoPlanIsOK == PlanOK(NoPlan) /\ NoPlan \in PlannerSteps \cup {NoPlan}
  BY DEF PlanOK, ReadsTheLink, IsValidated, HasCounted, NoPlan

\* What is no longer fresh, or awaits only its turn, is well whatever is written.
LEMMA OvertakenIsOK ==
    ASSUME NEW p \in PlannerSteps \cup {NoPlan}
    PROVE  /\ p.op \in {"validate", "write", "count", "switch"} =>
                /\ [p EXCEPT !.fresh = FALSE] \in PlannerSteps \cup {NoPlan}
                /\ PlanOK([p EXCEPT !.fresh = FALSE])'
           /\ p.op \notin {"validate", "write", "count", "switch"} => PlanOK(p)'
<1>1. CASE p \in Planning
      BY <1>1, PlansAre DEF Planning, PlanOK, ReadsTheLink, IsValidated, HasCounted
<1>2. CASE p \in Switching
      BY <1>2, PlansAre DEF Switching, PlanOK, ReadsTheLink, IsValidated, HasCounted
<1>3. CASE p \in Ending \cup {NoPlan}
      BY <1>3 DEF Ending, NoPlan, PlanOK, ReadsTheLink, IsValidated, HasCounted
<1> QED BY <1>1, <1>2, <1>3, PlansAre

LEMMA NeedsInitially == NeedsInit => NeedsInv
<1> SUFFICES ASSUME NeedsInit PROVE NeedsInv
    OBVIOUS
<1>1. NeedsTypeOK
      BY DEF NeedsInit, NeedsTypeOK
<1> QED BY <1>1, NoPlanIsOK DEF NeedsInit, NeedsInv, NoEventWaitsForNothing

\* A step that writes nothing, of one request.
LEMMA PlanKept ==
    ASSUME NeedsInv, UNCHANGED <<switches, occasion, clashed>>,
           NEW q \in Planners, NEW p \in PlannerSteps \cup {NoPlan}, PlanOK(p),
           planner' = [planner EXCEPT ![q] = p]
    PROVE  NeedsInv'
<1>1. NeedsTypeOK'
      BY DEF NeedsInv, NeedsTypeOK
<1>2. NoEventWaitsForNothing'
      BY DEF NeedsInv, NoEventWaitsForNothing
<1>3. ASSUME NEW r \in Planners PROVE PlanOK(planner[r])'
  <2>1. PlanOK(planner'[r])
        BY DEF NeedsInv, NeedsTypeOK
  <2> QED BY <2>1 DEF PlanOK, ReadsTheLink, IsValidated, HasCounted, LinkOf, WaitsForASchedule
<1> QED BY <1>1, <1>2, <1>3 DEF NeedsInv

\* A step that writes: the others are overtaken.
LEMMA PlanWritten ==
    ASSUME NeedsInv, NEW q \in Planners, PlannerWrote(q),
           switches' \in [active : BOOLEAN, uses : BOOLEAN], occasion' \in Occasions \cup {NoEvent}, clashed' \in BOOLEAN,
           NoEventWaitsForNothing'
    PROVE  NeedsInv'
<1>1. ASSUME NEW r \in Planners
      PROVE  planner'[r] \in PlannerSteps \cup {NoPlan} /\ PlanOK(planner[r])'
  <2>1. planner[r] \in PlannerSteps \cup {NoPlan}
        BY DEF NeedsInv, NeedsTypeOK
  <2>2. CASE r = q
        BY <2>2, NoPlanIsOK DEF PlannerWrote, PlanOK, ReadsTheLink, IsValidated, HasCounted, NoPlan
  <2>3. CASE r # q /\ planner[r].op \in {"validate", "write", "count", "switch"}
    <3>1. planner'[r] = [planner[r] EXCEPT !.fresh = FALSE]
          BY <2>3 DEF PlannerWrote
    <3> QED BY <3>1, <2>1, <2>3, OvertakenIsOK
  <2>4. CASE r # q /\ planner[r].op \notin {"validate", "write", "count", "switch"}
    <3>1. planner'[r] = planner[r]
          BY <2>4 DEF PlannerWrote
    <3> QED BY <3>1, <2>1, <2>4, OvertakenIsOK
  <2> QED BY <2>2, <2>3, <2>4
<1>2. planner' \in [Planners -> PlannerSteps \cup {NoPlan}]
      BY <1>1 DEF PlannerWrote
<1> QED BY <1>1, <1>2 DEF NeedsInv, NeedsTypeOK

\* The write of an event: who waits for a schedule has been found with one.
LEMMA EventWritten ==
    ASSUME NeedsInv, NEW q \in Planners, writeEvent(q)
    PROVE  NeedsInv'
<1> DEFINE p == planner[q]
<1>1. p \in Planning /\ p.op = "write" /\ PlanOK(p)
      BY PlanByOp DEF writeEvent, NeedsInv, NeedsTypeOK
<1>2. CASE (p.seen = "new") # (occasion = NoEvent)
  <2>1. planner' = [planner EXCEPT ![q] = NoPlan] /\ UNCHANGED <<switches, occasion, clashed>>
        BY <1>2 DEF writeEvent, PlannerGoes
  <2> QED BY <2>1, NoPlanIsOK, PlanKept
<1>3. CASE (p.seen = "new") <=> (occasion = NoEvent)
  <2> DEFINE row == IF p.seen = "new" THEN [status |-> "AGENDADO", future |-> TRUE, link |-> "none"] ELSE occasion
  <2>1. row \in Occasions
        BY <1>3 DEF NeedsInv, NeedsTypeOK, Occasions, Links
  <2>2. /\ occasion' = [status |-> IF p.dto.status = "omitted" THEN row.status ELSE p.dto.status,
                        future |-> IF p.dto.future = "omitted" THEN row.future ELSE p.dto.future = "yes",
                        link |-> IF p.dto.link = "omitted" THEN row.link ELSE LinkOf(p)]
        /\ clashed' = (clashed \/ ~p.fresh) /\ PlannerWrote(q) /\ UNCHANGED switches
        BY <1>3 DEF writeEvent
  <2>3. LinkOf(p) \in Links
        BY <1>1 DEF LinkOf, Planning, Links
  <2>4. occasion' \in Occasions
    <3>1. p.dto \in EventDtos
          BY <1>1 DEF Planning
    <3> QED BY <2>1, <2>2, <2>3, <3>1 DEF Occasions, EventDtos
  <2>5. clashed' \in BOOLEAN /\ switches' \in [active : BOOLEAN, uses : BOOLEAN]
        BY <2>2, <1>1 DEF NeedsInv, NeedsTypeOK, Planning
  <2>6. NoEventWaitsForNothing'
    <3> SUFFICES ASSUME ~clashed', occasion'.link = "schedule" PROVE switches.uses
        BY <2>2 DEF NoEventWaitsForNothing
    <3>1. p.fresh
          BY <2>2, <1>1 DEF Planning
    <3>2. LinkOf(p) = "schedule"
      <4>1. CASE p.dto.link = "omitted"
        <5>1. occasion'.link = row.link
              BY <2>2, <4>1
        <5>2. p.seen # "new" /\ occasion.link = "schedule"
              BY <5>1
        <5> QED BY <5>2, <3>1, <1>1, <4>1 DEF PlanOK, ReadsTheLink, LinkOf, Links
      <4>2. CASE p.dto.link # "omitted"
            BY <2>2, <4>2
      <4> QED BY <4>1, <4>2
    <3> QED BY <3>1, <3>2, <1>1 DEF PlanOK, IsValidated
  <2> QED BY <2>2, <2>4, <2>5, <2>6, PlanWritten
<1> QED BY <1>2, <1>3

\* The switch of a ministry: who does away with schedules has found no event.
LEMMA MinistryWritten ==
    ASSUME NeedsInv, NEW q \in Planners, writeMinistry(q)
    PROVE  NeedsInv'
<1> DEFINE p == planner[q]
<1>1. p \in Switching /\ p.op = "switch" /\ PlanOK(p)
      BY PlanByOp DEF writeMinistry, NeedsInv, NeedsTypeOK
<1>2. switches' \in [active : BOOLEAN, uses : BOOLEAN] /\ clashed' \in BOOLEAN /\ occasion' \in Occasions \cup {NoEvent}
  <2>1. p.dto \in MinistryDtos /\ p.fresh \in BOOLEAN
        BY <1>1 DEF Switching
  <2> QED BY <2>1 DEF writeMinistry, NeedsInv, NeedsTypeOK, MinistryDtos
<1>3. NoEventWaitsForNothing'
  <2> SUFFICES ASSUME ~clashed', WaitsForASchedule PROVE switches'.uses
      BY DEF NoEventWaitsForNothing, WaitsForASchedule, writeMinistry
  <2>1. ~clashed /\ p.fresh
        BY <1>1 DEF writeMinistry, Switching
  <2>2. p.dto.uses # "no"
        BY <2>1, <1>1 DEF PlanOK, HasCounted
  <2>3. switches.uses
        BY <2>1 DEF NeedsInv, NoEventWaitsForNothing, WaitsForASchedule
  <2>4. p.dto.uses \in {"omitted", "yes", "no"}
        BY <1>1 DEF Switching, MinistryDtos
  <2> QED BY <2>2, <2>3, <2>4 DEF writeMinistry
<1> QED BY <1>2, <1>3, PlanWritten DEF writeMinistry

\* A request begins, or goes on, with what it has read.
LEMMA PlanBegun ==
    ASSUME NeedsInv, UNCHANGED <<switches, occasion, clashed>>,
           NEW q \in Planners, NEW p, PlannerBegins(q, p), p \in PlannerSteps, PlanOK(p)
    PROVE  NeedsInv'
  BY PlanKept DEF PlannerBegins

LEMMA Validated ==
    ASSUME NeedsInv, NEW q \in Planners, validateEvent(q)
    PROVE  NeedsInv'
<1> DEFINE p == planner[q]
<1>1. p \in Planning /\ PlanOK(p)
      BY PlanByOp DEF validateEvent, NeedsInv, NeedsTypeOK
<1>2. CASE validateMinisterios(p)
  <2> DEFINE n == [p EXCEPT !.op = "write"]
  <2>1. n \in Planning /\ n.op = "write" /\ n.seen = p.seen /\ n.fresh = p.fresh /\ n.dto = p.dto
        BY <1>1 DEF Planning
  <2>2. PlanOK(n)
    <3>1. LinkOf(n) = LinkOf(p)
          BY <2>1 DEF LinkOf
    <3>2. IsValidated(n)
          BY <3>1, <1>2 DEF IsValidated, validateMinisterios
    <3>3. ReadsTheLink(n)
          BY <2>1, <1>1 DEF validateEvent, PlanOK, ReadsTheLink
    <3> HIDE DEF n
    <3> QED BY <2>1, <3>2, <3>3 DEF PlanOK, HasCounted
  <2>3. planner' = [planner EXCEPT ![q] = n]
        BY <1>2 DEF validateEvent, PlannerGoes, NeedsInv, NeedsTypeOK
  <2> HIDE DEF n
  <2> QED BY <2>1, <2>2, <2>3, PlansAre, PlanKept DEF validateEvent
<1>3. CASE ~validateMinisterios(p)
  <2>1. planner' = [planner EXCEPT ![q] = NoPlan]
        BY <1>3 DEF validateEvent, PlannerGoes
  <2> QED BY <2>1, NoPlanIsOK, PlanKept DEF validateEvent
<1> QED BY <1>2, <1>3

LEMMA EventsCounted ==
    ASSUME NeedsInv, NEW q \in Planners, countEvents(q)
    PROVE  NeedsInv'
<1> DEFINE p == planner[q]
<1>1. p \in Switching /\ PlanOK(p)
      BY PlanByOp DEF countEvents, NeedsInv, NeedsTypeOK
<1>2. CASE ~WaitsForASchedule
  <2> DEFINE n == [p EXCEPT !.op = "switch"]
  <2>1. n \in Switching /\ n.op = "switch"
        BY <1>1 DEF Switching
  <2>2. planner' = [planner EXCEPT ![q] = n]
        BY <1>2 DEF countEvents, PlannerGoes, WaitsForASchedule, NeedsInv, NeedsTypeOK
  <2> HIDE DEF n
  <2>3. PlanOK(n)
        BY <2>1, <1>2 DEF PlanOK, ReadsTheLink, IsValidated, HasCounted
  <2> QED BY <2>1, <2>2, <2>3, PlansAre, PlanKept DEF countEvents
<1>3. CASE WaitsForASchedule
  <2>1. planner' = [planner EXCEPT ![q] = NoPlan]
        BY <1>3 DEF countEvents, PlannerGoes, WaitsForASchedule
  <2> QED BY <2>1, NoPlanIsOK, PlanKept DEF countEvents
<1> QED BY <1>2, <1>3

LEMMA NeedsStep == NeedsInv /\ [NeedsNext]_needVars => NeedsInv'
<1> SUFFICES ASSUME NeedsInv, [NeedsNext]_needVars PROVE NeedsInv'
    OBVIOUS
<1> USE NeedsAssumption
<1>1. CASE UNCHANGED needVars
      BY <1>1 DEF needVars, NeedsInv, NeedsTypeOK, NoEventWaitsForNothing, PlanOK, ReadsTheLink, IsValidated, HasCounted, LinkOf,
                  WaitsForASchedule
<1>2. ASSUME NEW q \in Planners, NEW future \in {"yes", "no"}, NEW link \in Links, createEvent(q, future, link)
      PROVE  NeedsInv'
  <2> DEFINE p == [op |-> "validate", seen |-> "new", fresh |-> TRUE,
                   dto |-> [status |-> "AGENDADO", future |-> future, link |-> link]]
  <2>1. p \in Planning /\ PlanOK(p)
        BY DEF Planning, EventDtos, Links, PlanOK, ReadsTheLink, IsValidated, HasCounted
  <2> QED BY <1>2, <2>1, PlanBegun DEF createEvent, Planning, PlannerSteps
<1>3. ASSUME NEW q \in Planners, NEW dto \in EventForms, updateEvent(q, dto)  PROVE NeedsInv'
  <2> DEFINE p == [op |-> "validate", dto |-> dto, seen |-> occasion.link, fresh |-> TRUE]
  <2>1. occasion.link \in Links
        BY <1>3 DEF updateEvent, NeedsInv, NeedsTypeOK, Occasions
  <2>2. p \in Planning /\ PlanOK(p)
        BY <1>3, <2>1 DEF updateEvent, Planning, PlanOK, ReadsTheLink, IsValidated, HasCounted
  <2> QED BY <1>3, <2>2, PlanBegun DEF updateEvent, Planning, PlannerSteps
<1>4. ASSUME NEW q \in Planners, NEW dto \in MinistryForms, updateMinistry(q, dto)  PROVE NeedsInv'
  <2> DEFINE p == [op |-> IF dto.uses = "no" /\ switches.uses THEN "count" ELSE "switch", dto |-> dto, fresh |-> TRUE]
  <2>1. p \in Switching
        BY DEF Switching
  <2>2. PlanOK(p)
        BY DEF PlanOK, ReadsTheLink, IsValidated, HasCounted, NeedsInv, NoEventWaitsForNothing, WaitsForASchedule
  <2> QED BY <1>4, <2>1, <2>2, PlanBegun DEF updateMinistry, Switching, PlannerSteps
<1>5. ASSUME NEW q \in Planners, removeEvent(q) \/ removeMinistry(q)  PROVE NeedsInv'
  <2>1. PICK p \in Ending : PlannerBegins(q, p) /\ UNCHANGED <<switches, occasion, clashed>>
        BY <1>5 DEF removeEvent, removeMinistry, Ending
  <2>2. PlanOK(p) /\ p \in PlannerSteps
        BY DEF Ending, PlannerSteps, PlanOK, ReadsTheLink, IsValidated, HasCounted
  <2> QED BY <2>1, <2>2, PlanBegun
<1>6. ASSUME NEW q \in Planners, deleteEvent(q)  PROVE NeedsInv'
      BY <1>6, PlanWritten DEF deleteEvent, NeedsInv, NeedsTypeOK, NoEventWaitsForNothing
<1>7. ASSUME NEW q \in Planners, deactivateMinistry(q)  PROVE NeedsInv'
      BY <1>7, PlanWritten DEF deactivateMinistry, NeedsInv, NeedsTypeOK, NoEventWaitsForNothing
<1>8. CASE eventPasses
  <2>1. occasion' \in Occasions /\ occasion'.link = occasion.link /\ ~occasion'.future
        BY <1>8 DEF eventPasses, NeedsInv, NeedsTypeOK, Occasions
  <2>2. NeedsTypeOK' /\ NoEventWaitsForNothing'
        BY <1>8, <2>1 DEF eventPasses, NeedsInv, NeedsTypeOK, NoEventWaitsForNothing
  <2>3. NoEvent \notin Occasions
        BY DEF NoEvent, Occasions
  <2>4. ASSUME NEW r \in Planners PROVE PlanOK(planner[r])'
        BY <1>8, <2>1, <2>3 DEF eventPasses, NeedsInv, PlanOK, ReadsTheLink, IsValidated, HasCounted, LinkOf, WaitsForASchedule
  <2> QED BY <2>2, <2>4 DEF NeedsInv
<1> QED BY <1>1, <1>2, <1>3, <1>4, <1>5, <1>6, <1>7, <1>8, EventWritten, MinistryWritten, Validated, EventsCounted DEF NeedsNext

\* What requests have read is true as long as nobody has written (EventNeeds).
THEOREM NeedsInvariant == NeedsSpec => []NeedsInv
<1>1. NeedsInit => NeedsInv
      BY NeedsInitially
<1>2. NeedsInv /\ [NeedsNext]_needVars => NeedsInv'
      BY NeedsStep
<1> QED BY <1>1, <1>2, PTL DEF NeedsSpec

\* No future event waits for a schedule of a ministry that has none, unless two
\* requests wrote over what the other had read (validateMinisterios, update of a
\* ministry).
THEOREM NoEventIsLeftWaiting == NeedsSpec => []NoEventWaitsForNothing
<1>1. NeedsInv => NoEventWaitsForNothing
      BY DEF NeedsInv
<1> QED BY <1>1, NeedsInvariant, PTL

-----------------------------------------------------------------------------
\* Members of a ministry and their positions.

Filling == [op : {"validate", "join", "check", "clear", "fill"}, member : Servants, wanted : Wishes \cup {Keep},
            joins : BOOLEAN, crossed : BOOLEAN]
Naming == [op : {"drop", "offer"}, kept : Wishes]

\* A request that writes positions gives some; and while nobody crosses one that
\* is about to insert them, its member has no other.
GivesPositions(r) == r.op \in {"check", "clear", "fill"} => r.wanted \in Wishes
HasNoOther(r) == r.op = "fill" /\ ~r.crossed => skills[r.member] \subseteq r.wanted
RequestOK(r) == GivesPositions(r) /\ HasNoOther(r)

MembershipsInv ==
    /\ MembershipsTypeOK
    /\ MembershipsAreWhole
    /\ \A q \in Leaders : RequestOK(leader[q])

LEMMA RequestsAre == Requests \cup {Idle} = {Idle} \cup Filling \cup Naming
  BY DEF Requests, Filling, Naming

LEMMA RequestByOp ==
    ASSUME NEW r \in Requests \cup {Idle}
    PROVE  /\ r.op \in {"validate", "join", "check", "clear", "fill"} => r \in Filling
           /\ r.op \in {"drop", "offer"} => r \in Naming
           /\ r.op = "idle" => r = Idle
           /\ r.op \in {"idle", "validate", "join", "check", "clear", "fill", "drop", "offer"}
  BY DEF Requests, Idle, Filling, Naming

LEMMA IdleIsOK == Idle \in Requests \cup {Idle} /\ RequestOK(Idle)
  BY DEF Idle, RequestOK, GivesPositions, HasNoOther

LEMMA MembershipsInitially == MembershipsInit => MembershipsInv
<1> SUFFICES ASSUME MembershipsInit PROVE MembershipsInv
    OBVIOUS
<1>1. MembershipsTypeOK
      BY DEF MembershipsInit, MembershipsTypeOK, Wishes
<1> QED BY <1>1, IdleIsOK DEF MembershipsInit, MembershipsInv, MembershipsAreWhole

\* A step of one request that writes no positions of members.
LEMMA RequestKept ==
    ASSUME MembershipsInv, UNCHANGED <<person, skills, asked, mixed>>,
           belongs' \in SUBSET Servants, offered' \in Wishes, late' \in SUBSET Servants,
           \A m \in belongs' : person[m] = "removed" => m \in late',
           NEW q \in Leaders, NEW r \in Requests \cup {Idle}, RequestOK(r), leader' = [leader EXCEPT ![q] = r]
    PROVE  MembershipsInv'
<1>1. MembershipsTypeOK'
      BY DEF MembershipsInv, MembershipsTypeOK
<1>2. MembershipsAreWhole'
      BY DEF MembershipsInv, MembershipsAreWhole
<1>3. ASSUME NEW p \in Leaders PROVE RequestOK(leader[p])'
  <2>1. RequestOK(leader'[p])
        BY DEF MembershipsInv, MembershipsTypeOK
  <2> QED BY <2>1 DEF RequestOK, GivesPositions, HasNoOther
<1> QED BY <1>1, <1>2, <1>3 DEF MembershipsInv

\* What becomes of a request when the positions of a member are written.
CrossedFor(r, m) == IF r.op = "fill" /\ r.member = m THEN [r EXCEPT !.crossed = TRUE] ELSE r

LEMMA CrossedIsOK ==
    ASSUME NEW r \in Requests \cup {Idle}, RequestOK(r), skills \in [Servants -> Wishes],
           NEW m \in Servants, NEW S \in Wishes, skills' = [skills EXCEPT ![m] = S]
    PROVE  CrossedFor(r, m) \in Requests \cup {Idle} /\ RequestOK(CrossedFor(r, m))'
<1>1. r \in Requests \cup {Idle} /\ RequestOK(r) /\ skills \in [Servants -> Wishes]
      OBVIOUS
<1>2. CASE r.op = "fill"
  <2>1. r \in Filling
        BY <1>1, <1>2, RequestByOp
  <2>2. CASE r.member = m
    <3>1. /\ CrossedFor(r, m) \in Filling
          /\ CrossedFor(r, m).crossed /\ CrossedFor(r, m).wanted = r.wanted /\ CrossedFor(r, m).op = r.op
          BY <2>1, <2>2, <1>2 DEF CrossedFor, Filling
    <3>2. GivesPositions(CrossedFor(r, m))
          BY <3>1, <1>1 DEF RequestOK, GivesPositions
    <3> QED BY <3>1, <3>2, RequestsAre DEF RequestOK, GivesPositions, HasNoOther, CrossedFor
  <2>3. CASE r.member # m
    <3>1. skills'[r.member] = skills[r.member]
          BY <1>1, <2>1, <2>3 DEF Filling
    <3> QED BY <3>1, <1>1, <2>3 DEF CrossedFor, RequestOK, GivesPositions, HasNoOther
  <2> QED BY <2>2, <2>3
<1>3. CASE r.op # "fill"
      BY <1>1, <1>3 DEF CrossedFor, RequestOK, GivesPositions, HasNoOther
<1> QED BY <1>2, <1>3

\* Positions of m are deleted: they are those that are asked, or others go on.
LEMMA OthersDeleted ==
    ASSUME MembershipsInv, NEW q \in Leaders, deleteOthers(q)
    PROVE  MembershipsInv'
<1> DEFINE r == leader[q]  m == r.member  wanted == r.wanted
<1>1. r \in Filling /\ wanted \in Wishes /\ m \in Servants /\ r.op = "clear"
  <2>1. r \in Filling /\ RequestOK(r)
        BY RequestByOp DEF deleteOthers, MembershipsInv, MembershipsTypeOK
  <2> QED BY <2>1 DEF deleteOthers, RequestOK, GivesPositions, Filling
<1>2. skills' = [skills EXCEPT ![m] = skills[m] \cap wanted] /\ skills[m] \cap wanted \in Wishes
  <2>1. skills[m] \ (skills[m] \ wanted) = skills[m] \cap wanted
        OBVIOUS
  <2>2. skills' = [skills EXCEPT ![m] = skills[m] \ (skills[m] \ wanted)]
        BY DEF deleteOthers, Others
  <2> QED BY <1>1, <2>1, <2>2 DEF Wishes
<1>3. asked' = [asked EXCEPT ![m] = IF wanted = {} THEN {} ELSE asked[m]]
      BY DEF deleteOthers
<1>4. ASSUME NEW p \in Leaders
      PROVE  leader'[p] \in Requests \cup {Idle} /\ RequestOK(leader[p])'
  <2>1. CASE p # q
    <3>1. leader'[p] = CrossedFor(leader[p], m)
          BY <2>1 DEF deleteOthers, SkillsWrote, CrossedFor
    <3> QED BY <3>1, <1>1, <1>2, CrossedIsOK DEF MembershipsInv, MembershipsTypeOK
  <2>2. CASE p = q /\ wanted = {}
    <3>1. leader'[p] = Idle
          BY <2>2 DEF deleteOthers, SkillsWrote
    <3> QED BY <3>1, IdleIsOK DEF RequestOK, GivesPositions, HasNoOther, Idle
  <2>3. CASE p = q /\ wanted # {}
    <3> DEFINE n == [r EXCEPT !.op = "fill"]
    <3>1. leader'[p] = n
          BY <2>3 DEF deleteOthers, SkillsWrote
    <3>2. n \in Filling /\ n.member = m /\ n.wanted = wanted
          BY <1>1 DEF Filling
    <3>3. skills'[m] = skills[m] \cap wanted
          BY <1>1, <1>2 DEF MembershipsInv, MembershipsTypeOK
    <3> HIDE DEF n
    <3> QED BY <3>1, <3>2, <3>3, <1>1, RequestsAre DEF RequestOK, GivesPositions, HasNoOther
  <2> QED BY <2>1, <2>2, <2>3
<1>5. MembershipsTypeOK'
  <2>1. leader' \in [Leaders -> Requests \cup {Idle}]
        BY <1>4 DEF deleteOthers, SkillsWrote
  <2>2. skills' \in [Servants -> Wishes] /\ asked' \in [Servants -> Wishes]
        BY <1>1, <1>2, <1>3 DEF MembershipsInv, MembershipsTypeOK, Wishes
  <2> QED BY <2>1, <2>2, <1>1 DEF deleteOthers, MembershipsInv, MembershipsTypeOK
<1>6. MembershipsAreWhole'
  <2>1. ASSUME NEW s \in Servants \ mixed' PROVE skills'[s] = asked'[s]
    <3>1. CASE s = m
      <4>1. wanted = {}
            BY <2>1, <3>1 DEF deleteOthers
      <4> QED BY <4>1, <3>1, <1>2, <1>3, <1>1 DEF MembershipsInv, MembershipsTypeOK
    <3>2. CASE s # m
      <4>1. s \in Servants \ mixed
            BY <2>1, <3>2 DEF deleteOthers
      <4> QED BY <4>1, <3>2, <1>2, <1>3 DEF MembershipsInv, MembershipsAreWhole, MembershipsTypeOK
    <3> QED BY <3>1, <3>2
  <2> QED BY <2>1 DEF MembershipsInv, MembershipsAreWhole, deleteOthers
<1> QED BY <1>4, <1>5, <1>6 DEF MembershipsInv

\* And inserted: if nobody crossed, they are what the request asked.
LEMMA SkillsInserted ==
    ASSUME MembershipsInv, NEW q \in Leaders, insertSkills(q)
    PROVE  MembershipsInv'
<1> DEFINE r == leader[q]  m == r.member  wanted == r.wanted
<1>1. r \in Filling /\ wanted \in Wishes /\ m \in Servants /\ r.op = "fill" /\ RequestOK(r)
  <2>1. r \in Filling /\ RequestOK(r)
        BY RequestByOp DEF insertSkills, MembershipsInv, MembershipsTypeOK
  <2> QED BY <2>1 DEF insertSkills, RequestOK, GivesPositions, Filling
<1>2. CASE ~(m \in belongs /\ wanted \subseteq offered)
  <2>1. leader' = [leader EXCEPT ![q] = Idle]
        BY <1>2 DEF insertSkills, LeaderGoes
  <2> QED BY <2>1, <1>2, IdleIsOK, RequestKept DEF insertSkills, MembershipsInv, MembershipsTypeOK, MembershipsAreWhole
<1>3. CASE m \in belongs /\ wanted \subseteq offered
  <2>1. /\ skills' = [skills EXCEPT ![m] = skills[m] \cup wanted] /\ skills[m] \cup wanted \in Wishes
        /\ asked' = [asked EXCEPT ![m] = wanted]
        BY <1>1, <1>3 DEF insertSkills, Wishes, MembershipsInv, MembershipsTypeOK
  <2>2. ASSUME NEW p \in Leaders
        PROVE  leader'[p] \in Requests \cup {Idle} /\ RequestOK(leader[p])'
    <3>1. CASE p # q
      <4>1. leader'[p] = CrossedFor(leader[p], m)
            BY <3>1, <1>3 DEF insertSkills, SkillsWrote, CrossedFor
      <4> QED BY <4>1, <1>1, <2>1, CrossedIsOK DEF MembershipsInv, MembershipsTypeOK
    <3>2. CASE p = q
      <4>1. leader'[p] = Idle
            BY <3>2, <1>3 DEF insertSkills, SkillsWrote
      <4> QED BY <4>1, IdleIsOK DEF RequestOK, GivesPositions, HasNoOther, Idle
    <3> QED BY <3>1, <3>2
  <2>3. MembershipsTypeOK'
    <3>1. leader' \in [Leaders -> Requests \cup {Idle}]
          BY <2>2, <1>3 DEF insertSkills, SkillsWrote
    <3>2. skills' \in [Servants -> Wishes] /\ asked' \in [Servants -> Wishes]
          BY <1>1, <2>1 DEF MembershipsInv, MembershipsTypeOK
    <3> QED BY <3>1, <3>2, <1>1, <1>3 DEF insertSkills, MembershipsInv, MembershipsTypeOK
  <2>4. MembershipsAreWhole'
    <3>1. ASSUME NEW s \in Servants \ mixed' PROVE skills'[s] = asked'[s]
      <4>1. CASE s = m
        <5>1. ~r.crossed
              BY <3>1, <4>1, <1>3 DEF insertSkills
        <5>2. skills[m] \subseteq wanted
              BY <5>1, <1>1 DEF RequestOK, HasNoOther
        <5> QED BY <5>2, <4>1, <2>1, <1>1 DEF MembershipsInv, MembershipsTypeOK
      <4>2. CASE s # m
        <5>1. s \in Servants \ mixed
              BY <3>1, <4>2, <1>3 DEF insertSkills
        <5> QED BY <5>1, <4>2, <2>1 DEF MembershipsInv, MembershipsAreWhole, MembershipsTypeOK
      <4> QED BY <4>1, <4>2
    <3> QED BY <3>1 DEF MembershipsInv, MembershipsAreWhole, insertSkills
  <2> QED BY <2>2, <2>3, <2>4 DEF MembershipsInv
<1> QED BY <1>2, <1>3

\* Who leaves the ministry, or the tenant, leaves its positions.
LEMMA MemberLeft ==
    ASSUME MembershipsInv, NEW m \in Servants, removeMembro(m) \/ removeFromTenant(m)
    PROVE  MembershipsInv'
<1>1. /\ Leave(m) /\ late' = late \ {m} /\ mixed' = mixed \ {m} /\ UNCHANGED offered
      /\ person' \in [Servants -> {"ATIVO", "INATIVO", "removed"}]
      /\ \A s \in Servants : s # m => person'[s] = person[s]
      BY DEF removeMembro, removeFromTenant, MembershipsInv, MembershipsTypeOK
<1>2. skills' = [skills EXCEPT ![m] = {}] /\ {} \in Wishes /\ asked' = [asked EXCEPT ![m] = {}] /\ belongs' = belongs \ {m}
      BY <1>1 DEF Leave, Wishes
<1>3. ASSUME NEW p \in Leaders
      PROVE  leader'[p] \in Requests \cup {Idle} /\ RequestOK(leader[p])'
  <2>1. leader'[p] = CrossedFor(leader[p], m)
        BY <1>1 DEF Leave, CrossedFor
  <2> QED BY <2>1, <1>2, CrossedIsOK DEF MembershipsInv, MembershipsTypeOK
<1>4. MembershipsTypeOK'
  <2>1. leader' \in [Leaders -> Requests \cup {Idle}]
        BY <1>1, <1>3 DEF Leave
  <2> QED BY <2>1, <1>1, <1>2 DEF MembershipsInv, MembershipsTypeOK
<1>5. MembershipsAreWhole'
  <2>1. ASSUME NEW s \in Servants \ mixed' PROVE skills'[s] = asked'[s]
    <3>1. CASE s = m
          BY <3>1, <1>2 DEF MembershipsInv, MembershipsTypeOK
    <3>2. CASE s # m
          BY <3>2, <2>1, <1>1, <1>2 DEF MembershipsInv, MembershipsAreWhole, MembershipsTypeOK
    <3> QED BY <3>1, <3>2
  <2>2. ASSUME NEW s \in belongs', person'[s] = "removed" PROVE s \in late'
        BY <2>2, <1>1, <1>2 DEF MembershipsInv, MembershipsAreWhole, MembershipsTypeOK
  <2> QED BY <2>1, <2>2 DEF MembershipsAreWhole
<1> QED BY <1>3, <1>4, <1>5 DEF MembershipsInv

\* A request begins, or goes on to another statement, or ends.
LEMMA RequestGoesOn ==
    ASSUME NEW r \in Filling, NEW op \in {"join", "check", "clear"}, op \in {"check", "clear"} => r.wanted \in Wishes
    PROVE  [r EXCEPT !.op = op] \in Requests \cup {Idle} /\ RequestOK([r EXCEPT !.op = op])
<1> DEFINE n == [r EXCEPT !.op = op]
<1>1. n \in Filling /\ n.op = op /\ n.wanted = r.wanted
      BY DEF Filling
<1>2. ASSUME NEW x, x \in Filling, x.op = op, x.wanted = r.wanted
      PROVE  x \in Requests \cup {Idle} /\ RequestOK(x)
      BY <1>2, RequestsAre DEF RequestOK, GivesPositions, HasNoOther
<1> HIDE DEF n
<1>3. n \in Requests \cup {Idle} /\ RequestOK(n)
      BY <1>1, <1>2
<1> QED BY <1>3 DEF n

LEMMA Proceeds ==
    ASSUME MembershipsInv, NEW q \in Leaders, NEW op \in {"idle", "join", "check", "clear"}, LeaderGoes(q, op),
           op # "idle" => leader[q] \in Filling, op \in {"check", "clear"} => leader[q].wanted \in Wishes,
           UNCHANGED <<person, skills, asked, mixed, offered>>, belongs' \in SUBSET Servants, late' \in SUBSET Servants,
           \A m \in belongs' : person[m] = "removed" => m \in late'
    PROVE  MembershipsInv'
<1> DEFINE n == IF op = "idle" THEN Idle ELSE [leader[q] EXCEPT !.op = op]
<1>1. leader' = [leader EXCEPT ![q] = n]
      BY DEF LeaderGoes, MembershipsInv, MembershipsTypeOK
<1>2. n \in Requests \cup {Idle} /\ RequestOK(n)
  <2>1. CASE op = "idle"
        BY <2>1, IdleIsOK
  <2>2. CASE op # "idle"
        BY <2>2, RequestGoesOn
  <2> QED BY <2>1, <2>2
<1> HIDE DEF n
<1> QED BY <1>1, <1>2, RequestKept DEF MembershipsInv, MembershipsTypeOK

LEMMA Begins ==
    ASSUME MembershipsInv, NEW q \in Leaders, NEW r \in Requests, LeaderBegins(q, r), RequestOK(r),
           UNCHANGED <<person, belongs, offered, skills, asked, late, mixed>>
    PROVE  MembershipsInv'
  BY RequestKept DEF LeaderBegins, MembershipsInv, MembershipsTypeOK, MembershipsAreWhole

LEMMA PositionsDropped ==
    ASSUME MembershipsInv, NEW q \in Leaders, NEW held \in BOOLEAN, dropPositions(q, held)
    PROVE  MembershipsInv'
<1> DEFINE r == leader[q]  kept == r.kept
<1>1. r \in Naming /\ kept \in Wishes
  <2>1. r \in Naming
        BY RequestByOp DEF dropPositions, MembershipsInv, MembershipsTypeOK
  <2> QED BY <2>1 DEF Naming
<1>2. PICK n \in Requests \cup {Idle} : leader' = [leader EXCEPT ![q] = n] /\ RequestOK(n) /\ n.op \in {"idle", "offer"}
  <2>1. CASE kept = {}
        BY <2>1, IdleIsOK DEF dropPositions, LeaderGoes, Idle
  <2>2. CASE kept # {}
    <3> DEFINE n == [r EXCEPT !.op = "offer"]
    <3>1. leader' = [leader EXCEPT ![q] = n]
          BY <2>2 DEF dropPositions, LeaderGoes, MembershipsInv, MembershipsTypeOK
    <3>2. n \in Naming /\ n.op = "offer"
          BY <1>1 DEF Naming
    <3> HIDE DEF n
    <3> QED BY <3>1, <3>2, RequestsAre DEF RequestOK, GivesPositions, HasNoOther
  <2> QED BY <2>1, <2>2
<1>3. CASE held
      BY <1>2, <1>3, RequestKept DEF dropPositions, MembershipsInv, MembershipsTypeOK, MembershipsAreWhole
<1>4. CASE ~held
  <2>1. /\ offered' = offered \cap kept /\ UNCHANGED <<person, belongs, late, mixed>>
        /\ skills' = [m \in Servants |-> skills[m] \cap kept] /\ asked' = [m \in Servants |-> asked[m] \cap kept]
        BY <1>4 DEF dropPositions
  <2>2. MembershipsTypeOK'
        BY <1>1, <1>2, <2>1 DEF MembershipsInv, MembershipsTypeOK, Wishes
  <2>3. MembershipsAreWhole'
        BY <2>1 DEF MembershipsInv, MembershipsAreWhole
  <2>4. ASSUME NEW p \in Leaders PROVE RequestOK(leader[p])'
    <3>1. CASE p = q
          BY <3>1, <1>2 DEF RequestOK, GivesPositions, HasNoOther, MembershipsInv, MembershipsTypeOK
    <3>2. CASE p # q
      <4>1. leader'[p] = leader[p] /\ RequestOK(leader[p]) /\ leader[p] \in Requests \cup {Idle}
            BY <3>2, <1>2 DEF MembershipsInv, MembershipsTypeOK
      <4>2. ASSUME leader[p].op = "fill", ~leader[p].crossed
            PROVE  skills'[leader[p].member] \subseteq leader[p].wanted
        <5>1. leader[p].member \in Servants
              BY <4>1, <4>2, RequestByOp DEF Filling
        <5> QED BY <5>1, <4>1, <4>2, <2>1 DEF RequestOK, HasNoOther
      <4> QED BY <4>1, <4>2 DEF RequestOK, GivesPositions, HasNoOther
    <3> QED BY <3>1, <3>2
  <2> QED BY <2>2, <2>3, <2>4 DEF MembershipsInv
<1> QED BY <1>3, <1>4

LEMMA PositionPut ==
    ASSUME MembershipsInv, NEW q \in Leaders, NEW p \in Positions, putPosition(q, p)
    PROVE  MembershipsInv'
<1> DEFINE r == leader[q]  left == r.kept \ {p}  n == IF left = {} THEN Idle ELSE [r EXCEPT !.kept = left]
<1>1. r \in Naming /\ r.op = "offer"
      BY RequestByOp DEF putPosition, MembershipsInv, MembershipsTypeOK
<1>2. leader' = [leader EXCEPT ![q] = n]
      BY DEF putPosition, MembershipsInv, MembershipsTypeOK
<1>3. n \in Requests \cup {Idle} /\ RequestOK(n)
  <2>1. [r EXCEPT !.kept = left] \in Naming /\ [r EXCEPT !.kept = left].op = "offer"
        BY <1>1 DEF Naming, Wishes
  <2>2. RequestOK([r EXCEPT !.kept = left])
        BY <2>1 DEF RequestOK, GivesPositions, HasNoOther
  <2> QED BY <2>1, <2>2, IdleIsOK, RequestsAre
<1>4. offered' \in Wishes
      BY DEF putPosition, MembershipsInv, MembershipsTypeOK, Wishes
<1> HIDE DEF n
<1> QED BY <1>2, <1>3, <1>4, RequestKept DEF putPosition, MembershipsInv, MembershipsTypeOK, MembershipsAreWhole

LEMMA MembershipsStep == MembershipsInv /\ [MembershipsNext]_membershipVars => MembershipsInv'
<1> SUFFICES ASSUME MembershipsInv, [MembershipsNext]_membershipVars PROVE MembershipsInv'
    OBVIOUS
<1> USE MembershipsAssumption
<1>1. CASE UNCHANGED membershipVars
      BY <1>1 DEF membershipVars, MembershipsInv, MembershipsTypeOK, MembershipsAreWhole, RequestOK, GivesPositions, HasNoOther
<1>2. ASSUME NEW q \in Leaders, NEW m \in Servants, NEW wanted \in Wishes \cup {Keep},
             addMembro(q, m, wanted) \/ updateMembroRole(q, m, wanted)
      PROVE  MembershipsInv'
  <2>1. PICK joins \in BOOLEAN :
            LeaderBegins(q, [op |-> "validate", member |-> m, wanted |-> wanted, joins |-> joins, crossed |-> FALSE])
        BY <1>2 DEF addMembro, updateMembroRole
  <2> DEFINE r == [op |-> "validate", member |-> m, wanted |-> wanted, joins |-> joins, crossed |-> FALSE]
  <2>2. r \in Requests /\ RequestOK(r)
        BY DEF Requests, RequestOK, GivesPositions, HasNoOther
  <2> QED BY <1>2, <2>1, <2>2, Begins DEF addMembro, updateMembroRole
<1>3. ASSUME NEW q \in Leaders, validateFuncoes(q)  PROVE MembershipsInv'
  <2>1. leader[q] \in Filling
        BY <1>3, RequestByOp DEF validateFuncoes, MembershipsInv, MembershipsTypeOK
  <2>2. leader[q].wanted = Keep \/ leader[q].wanted \in Wishes
        BY <2>1 DEF Filling
  <2> DEFINE op == IF ~Offered(leader[q].wanted) THEN "idle"
                   ELSE IF leader[q].joins THEN "join"
                   ELSE IF leader[q].wanted = Keep THEN "idle" ELSE "check"
  <2>3. op \in {"idle", "join", "check", "clear"} /\ (op \in {"check", "clear"} => leader[q].wanted \in Wishes)
        BY <2>2
  <2>4. LeaderGoes(q, op)
        BY <1>3 DEF validateFuncoes
  <2> HIDE DEF op
  <2> QED BY <1>3, <2>1, <2>3, <2>4, Proceeds DEF validateFuncoes, MembershipsInv, MembershipsTypeOK, MembershipsAreWhole
<1>4. ASSUME NEW q \in Leaders, joinMinistry(q)  PROVE MembershipsInv'
  <2>1. leader[q] \in Filling
        BY <1>4, RequestByOp DEF joinMinistry, MembershipsInv, MembershipsTypeOK
  <2>2. (leader[q].wanted = Keep \/ leader[q].wanted \in Wishes) /\ leader[q].member \in Servants
        BY <2>1 DEF Filling
  <2> DEFINE op == IF leader[q].wanted = Keep THEN "idle" ELSE "check"
  <2>3. op \in {"idle", "join", "check", "clear"} /\ (op \in {"check", "clear"} => leader[q].wanted \in Wishes)
        BY <2>2
  <2>4. LeaderGoes(q, op)
        BY <1>4 DEF joinMinistry
  <2> HIDE DEF op
  <2>5. belongs' \in SUBSET Servants /\ late' \in SUBSET Servants
        BY <1>4, <2>2 DEF joinMinistry, MembershipsInv, MembershipsTypeOK
  <2>6. \A m \in belongs' : person[m] = "removed" => m \in late'
        BY <1>4 DEF joinMinistry, MembershipsInv, MembershipsAreWhole
  <2> QED BY <1>4, <2>1, <2>3, <2>4, <2>5, <2>6, Proceeds DEF joinMinistry
<1>5. ASSUME NEW q \in Leaders, syncFuncoesDisponiveis(q)  PROVE MembershipsInv'
  <2>1. leader[q] \in Filling /\ leader[q].wanted \in Wishes
        BY <1>5, RequestByOp DEF syncFuncoesDisponiveis, MembershipsInv, MembershipsTypeOK, RequestOK, GivesPositions
  <2> DEFINE op == IF Offered(leader[q].wanted) THEN "clear" ELSE "idle"
  <2>2. LeaderGoes(q, op) /\ op \in {"idle", "join", "check", "clear"}
        BY <1>5 DEF syncFuncoesDisponiveis
  <2> HIDE DEF op
  <2> QED BY <1>5, <2>1, <2>2, Proceeds DEF syncFuncoesDisponiveis, MembershipsInv, MembershipsTypeOK, MembershipsAreWhole
<1>6. ASSUME NEW q \in Leaders, membershipCutOff(q)  PROVE MembershipsInv'
      BY <1>6, Proceeds DEF membershipCutOff, MembershipsInv, MembershipsTypeOK, MembershipsAreWhole
<1>7. ASSUME NEW q \in Leaders, NEW kept \in Wishes, updatePositions(q, kept)  PROVE MembershipsInv'
  <2>1. [op |-> "drop", kept |-> kept] \in Requests /\ RequestOK([op |-> "drop", kept |-> kept])
        BY DEF Requests, RequestOK, GivesPositions, HasNoOther
  <2> QED BY <1>7, <2>1, Begins DEF updatePositions
<1>8. ASSUME NEW m \in Servants, NEW status \in {"ATIVO", "INATIVO"}, updateMembro(m, status)  PROVE MembershipsInv'
      BY <1>8 DEF updateMembro, MembershipsInv, MembershipsTypeOK, MembershipsAreWhole, RequestOK, GivesPositions, HasNoOther
<1> QED BY <1>1, <1>2, <1>3, <1>4, <1>5, <1>6, <1>7, <1>8, OthersDeleted, SkillsInserted, MemberLeft, PositionsDropped, PositionPut
        DEF MembershipsNext

\* A request that nobody crosses finds the positions of its member as it left
\* them (syncFuncoesDisponiveis).
THEOREM MembershipsInvariant == MembershipsSpec => []MembershipsInv
<1>1. MembershipsInit => MembershipsInv
      BY MembershipsInitially
<1>2. MembershipsInv /\ [MembershipsNext]_membershipVars => MembershipsInv'
      BY MembershipsStep
<1> QED BY <1>1, <1>2, PTL DEF MembershipsSpec

\* A member who was removed serves nowhere, and the positions of a member are
\* those that one request asked, but for the named accidents (addMembro,
\* updateMembroRole, removeMembro).
THEOREM MembershipsStayWhole == MembershipsSpec => []MembershipsAreWhole
<1>1. MembershipsInv => MembershipsAreWhole
      BY DEF MembershipsInv
<1> QED BY <1>1, MembershipsInvariant, PTL
-----------------------------------------------------------------------------
\* Files and the rows that name them.

\* The file a request brings and has not named in the row yet.
Pending(u) ==
    u.path # NoFile /\ (u.op \in {"store", "write"} \/ (u.op = "drop" /\ DeletesFirst(u.for)))

\* Which requests there are, and what each has found and done by its operation.
Shaped(u) ==
    /\ u.for = "replace" <=> u.path # NoFile
    /\ u.for = "member" => kind = "photo"
    /\ u.op = "store" => u.for = "replace"
    /\ u.op = "drop" => u.old # NoFile
    /\ u.op = "cleanup" => kind = "icon" /\ u.for = "replace"
HasStored(u) ==
    Pending(u) => /\ u.op # "store" => stored[u.path] = "whole"
                  /\ u.op = "store" /\ kind # "icon" => stored[u.path] = "absent"
HasDropped(u) ==
    u.op = "write" /\ DeletesFirst(u.for) /\ u.old # NoFile => stored[u.old] = "absent"
MayDrop(u) ==
    /\ u.op = "drop" /\ ~DeletesFirst(u.for) => u.old # named
    /\ u.op = "cleanup" /\ u.path = named => u.path \in broken
UploadOK(u) == Shaped(u) /\ HasStored(u) /\ HasDropped(u) /\ MayDrop(u)

\* Nobody else knows the path of a pending file.
Apart(q, p) ==
    upload[q] # NoUpload /\ upload[p] # NoUpload /\ Pending(upload[q]) =>
      /\ upload[q].path # upload[p].old
      /\ p # q => upload[q].path # upload[p].path
Unpublished(u) == Pending(u) => u.path # named /\ u.path \notin broken \cup stranded
OnTheirOwn ==
    /\ \A q \in Uploaders : upload[q] # NoUpload => Unpublished(upload[q])
    /\ \A q, p \in Uploaders : Apart(q, p)

\* Files in the hands of a request that will name or delete them.
Holds(u, f) ==
    u # NoUpload /\ ((f = u.path /\ (Pending(u) \/ u.op = "cleanup")) \/ (f = u.old /\ u.op = "drop"))
Owned(f) == stored[f] # "absent" => f = named \/ f \in stranded \/ \E q \in Uploaders : Holds(upload[q], f)

MediaInv ==
    /\ MediaTypeOK
    /\ \A q \in Uploaders : upload[q] # NoUpload => UploadOK(upload[q])
    /\ OnTheirOwn
    /\ \A f \in Files : Owned(f)
    /\ PublishedFileIsStored

LEMMA HandsAre ==
    /\ NoUpload \notin Uploads /\ NoUpload.op = "idle"
    /\ \A u \in Uploads : /\ u.op \in {"store", "write", "drop", "cleanup"}
                          /\ u.for \in {"replace", "remove", "member"}
                          /\ u.old \in Files \cup {NoFile} /\ u.path \in Files \cup {NoFile}
  BY DEF NoUpload, Uploads

\* A request goes on, with the paths it has, or ends.
LEMMA UploadMoves ==
    ASSUME MediaTypeOK, NEW q \in Uploaders, upload[q] # NoUpload,
           NEW op \in {"idle", "store", "write", "drop", "cleanup"}, UploadGoes(q, op)
    PROVE  /\ upload' \in [Uploaders -> Uploads \cup {NoUpload}]
           /\ \A p \in Uploaders : p # q => upload'[p] = upload[p]
           /\ op = "idle" => upload'[q] = NoUpload
           /\ op # "idle" => /\ upload'[q] # NoUpload /\ upload'[q].op = op
                             /\ upload'[q].for = upload[q].for
                             /\ upload'[q].old = upload[q].old /\ upload'[q].path = upload[q].path
<1> DEFINE n == IF op = "idle" THEN NoUpload ELSE [upload[q] EXCEPT !.op = op]
<1>1. upload[q] \in Uploads
      BY DEF MediaTypeOK
<1>2. upload' = [upload EXCEPT ![q] = n]
      BY DEF UploadGoes, MediaTypeOK
<1>3. n \in Uploads \cup {NoUpload}
      BY <1>1 DEF Uploads
<1>4. op # "idle" => /\ n # NoUpload /\ n.op = op /\ n.for = upload[q].for
                     /\ n.old = upload[q].old /\ n.path = upload[q].path
      BY <1>1, HandsAre DEF Uploads
<1>5. op = "idle" => n = NoUpload
      OBVIOUS
<1> HIDE DEF n
<1> QED BY <1>2, <1>3, <1>4, <1>5 DEF MediaTypeOK

LEMMA MediaInitially == MediaInit => MediaInv
  BY HandsAre DEF MediaInit, MediaInv, MediaTypeOK, OnTheirOwn, Apart, Owned, PublishedFileIsStored, Kinds

LEMMA BeginUpload ==
    ASSUME MediaInv, NEW q \in Uploaders, NEW f \in Files, beginUpload(q, f)
    PROVE  MediaInv'
<1>1. PICK n \in Uploads : /\ n # NoUpload /\ upload' = [upload EXCEPT ![q] = n]
                           /\ n.op = "store" /\ n.for = "replace" /\ n.old = named /\ n.path = f
  <2> DEFINE r == [op |-> "store", for |-> "replace", old |-> named, path |-> f]
  <2>1. r \in Uploads /\ r.op = "store" /\ r.for = "replace" /\ r.old = named /\ r.path = f
        BY DEF Uploads, MediaInv, MediaTypeOK
  <2>2. upload' = [upload EXCEPT ![q] = r]
        BY DEF beginUpload
  <2> HIDE DEF r
  <2> QED BY <2>1, <2>2, HandsAre
<1>2. f # NoFile
      BY MediaAssumption
<1>3. MediaTypeOK'
      BY <1>1 DEF beginUpload, MediaInv, MediaTypeOK
<1>4. upload'[q] = n /\ \A p \in Uploaders : p # q => upload'[p] = upload[p]
      BY <1>1 DEF MediaInv, MediaTypeOK
<1>5. UNCHANGED <<kind, named, stored, broken, stranded>> /\ Fresh(f) /\ upload[q] = NoUpload
      BY DEF beginUpload
<1>6. UploadOK(n)' /\ Unpublished(n)'
      BY <1>1, <1>2, <1>5 DEF UploadOK, Shaped, HasStored, HasDropped, MayDrop, Pending, Unpublished, Fresh
<1>7. \A p \in Uploaders : (upload[p] # NoUpload => UploadOK(upload[p]))'
      BY <1>4, <1>5, <1>6 DEF MediaInv, UploadOK, Shaped, HasStored, HasDropped, MayDrop, Pending, DeletesFirst
<1>8. OnTheirOwn'
  <2>1. ASSUME NEW p \in Uploaders PROVE (upload[p] # NoUpload => Unpublished(upload[p]))'
        BY <1>4, <1>5, <1>6 DEF MediaInv, OnTheirOwn, Unpublished, Pending, DeletesFirst
  <2>2. ASSUME NEW a \in Uploaders, NEW b \in Uploaders PROVE Apart(a, b)'
        BY <1>1, <1>4, <1>5 DEF MediaInv, OnTheirOwn, Apart, Unpublished, Pending, DeletesFirst, Fresh
  <2> QED BY <2>1, <2>2 DEF OnTheirOwn
<1>9. \A g \in Files : Owned(g)'
      BY <1>4, <1>5 DEF MediaInv, Owned, Holds, Pending, DeletesFirst
<1>10. PublishedFileIsStored'
       BY <1>4, <1>5, HandsAre DEF MediaInv, PublishedFileIsStored
<1> QED BY <1>3, <1>7, <1>8, <1>9, <1>10 DEF MediaInv

LEMMA BeginRemoval ==
    ASSUME MediaInv, NEW q \in Uploaders, NEW purpose \in {"remove", "member"}, beginRemoval(q, purpose)
    PROVE  MediaInv'
<1>1. PICK n \in Uploads : /\ n # NoUpload /\ upload' = [upload EXCEPT ![q] = n]
                           /\ n.op \in {"drop", "write"}
                           /\ n.op = "drop" => DeletesFirst(purpose) /\ named # NoFile
                           /\ n.op = "write" => ~DeletesFirst(purpose) \/ named = NoFile
                           /\ n.for = purpose /\ n.old = named /\ n.path = NoFile
  <2> DEFINE r == [op |-> IF DeletesFirst(purpose) /\ named # NoFile THEN "drop" ELSE "write",
                   for |-> purpose, old |-> named, path |-> NoFile]
  <2>1. r \in Uploads /\ r.for = purpose /\ r.old = named /\ r.path = NoFile
        BY DEF Uploads, MediaInv, MediaTypeOK
  <2>2. /\ r.op \in {"drop", "write"}
        /\ r.op = "drop" => DeletesFirst(purpose) /\ named # NoFile
        /\ r.op = "write" => ~DeletesFirst(purpose) \/ named = NoFile
        BY DEF DeletesFirst
  <2>3. upload' = [upload EXCEPT ![q] = r]
        BY DEF beginRemoval
  <2> HIDE DEF r
  <2> QED BY <2>1, <2>2, <2>3, HandsAre
<1>2. upload'[q] = n /\ \A p \in Uploaders : p # q => upload'[p] = upload[p]
      BY <1>1 DEF MediaInv, MediaTypeOK
<1>3. UNCHANGED <<kind, named, alive, stored, broken, stranded>> /\ upload[q] = NoUpload
      BY DEF beginRemoval
<1>4. MediaTypeOK'
      BY <1>1, <1>3 DEF MediaInv, MediaTypeOK
<1>5. UploadOK(n)' /\ Unpublished(n)' /\ ~Pending(n)'
  <2>1. ~Pending(n)'
        BY <1>1 DEF Pending
  <2>2. purpose = "member" => kind = "photo"
        BY DEF beginRemoval
  <2> QED BY <2>1, <2>2, <1>1, <1>3 DEF UploadOK, Shaped, HasStored, HasDropped, MayDrop, Unpublished, DeletesFirst
<1>6. \A p \in Uploaders : (upload[p] # NoUpload => UploadOK(upload[p]))'
      BY <1>2, <1>3, <1>5 DEF MediaInv, UploadOK, Shaped, HasStored, HasDropped, MayDrop, Pending, DeletesFirst
<1>7. OnTheirOwn'
  <2>1. ASSUME NEW p \in Uploaders PROVE (upload[p] # NoUpload => Unpublished(upload[p]))'
        BY <1>2, <1>3, <1>5 DEF MediaInv, OnTheirOwn, Unpublished, Pending, DeletesFirst
  <2>2. ASSUME NEW a \in Uploaders, NEW b \in Uploaders PROVE Apart(a, b)'
    <3>1. CASE a = q
          BY <3>1, <1>2, <1>5 DEF Apart
    <3>2. CASE a # q /\ b = q
      <4>1. upload'[a] = upload[a] /\ (Pending(upload[a])' <=> Pending(upload[a])) /\ upload'[b] = n
            BY <3>2, <1>2, <1>3 DEF Pending, DeletesFirst
      <4>2. upload[a] # NoUpload /\ Pending(upload[a]) => upload[a].path \notin {named, NoFile}
            BY DEF MediaInv, OnTheirOwn, Unpublished, Pending
      <4> QED BY <4>1, <4>2, <3>2, <1>1 DEF Apart
    <3>3. CASE a # q /\ b # q
          BY <3>3, <1>2, <1>3 DEF MediaInv, OnTheirOwn, Apart, Pending, DeletesFirst
    <3> QED BY <3>1, <3>2, <3>3
  <2> QED BY <2>1, <2>2 DEF OnTheirOwn
<1>8. \A g \in Files : Owned(g)'
      BY <1>2, <1>3 DEF MediaInv, Owned, Holds, Pending, DeletesFirst
<1>9. PublishedFileIsStored'
      BY <1>2, <1>3, HandsAre DEF MediaInv, PublishedFileIsStored
<1> QED BY <1>4, <1>6, <1>7, <1>8, <1>9 DEF MediaInv

\* A request goes on or ends: upload'[q], which it leaves with the paths it had.
Proceeded(q) ==
    /\ \A p \in Uploaders : p # q => upload'[p] = upload[p]
    /\ upload'[q] = NoUpload \/ (/\ upload'[q] # NoUpload /\ upload'[q].for = upload[q].for
                                 /\ upload'[q].old = upload[q].old /\ upload'[q].path = upload[q].path)

\* It names, breaks and leaves behind only paths it knows and the one in the
\* row, and what it brings only when it has named it or given it up.
LEMMA StaysApart ==
    ASSUME MediaInv, NEW q \in Uploaders, upload[q] # NoUpload, kind' = kind, Proceeded(q),
           (upload[q] # NoUpload /\ Pending(upload[q]))' => Pending(upload[q]) /\ UNCHANGED <<named, broken, stranded>>,
           named' \in {named, upload[q].path},
           broken' \cup stranded' \subseteq broken \cup stranded \cup {named, upload[q].old, upload[q].path}
    PROVE  OnTheirOwn'
<1>1. ASSUME NEW p \in Uploaders PROVE (upload[p] # NoUpload => Unpublished(upload[p]))'
  <2>1. CASE p = q
        BY <2>1 DEF MediaInv, OnTheirOwn, Unpublished, Proceeded
  <2>2. CASE p # q
        BY <2>2 DEF MediaInv, OnTheirOwn, Unpublished, Apart, Proceeded, Pending, DeletesFirst
  <2> QED BY <2>1, <2>2
<1>2. ASSUME NEW a \in Uploaders, NEW b \in Uploaders PROVE Apart(a, b)'
  <2>1. /\ Pending(upload[a])' /\ upload'[a] # NoUpload => Pending(upload[a]) /\ upload[a] # NoUpload
        /\ upload'[a] # NoUpload => upload[a] # NoUpload /\ upload'[a].path = upload[a].path
        /\ upload'[b] # NoUpload => /\ upload[b] # NoUpload
                                    /\ upload'[b].old = upload[b].old /\ upload'[b].path = upload[b].path
        BY DEF Proceeded, Pending, DeletesFirst
  <2> QED BY <2>1 DEF MediaInv, OnTheirOwn, Apart
<1> QED BY <1>1, <1>2 DEF OnTheirOwn

\* What the others have found is kept when no file they wait for is touched.
LEMMA OthersAreOK ==
    ASSUME MediaInv, NEW q \in Uploaders, upload[q] # NoUpload, kind' = kind, Proceeded(q),
           named' \in {named, upload[q].path}, named' = named \/ named' = NoFile \/ Pending(upload[q]),
           broken \subseteq broken',
           \A f \in Files : \/ stored'[f] = stored[f]
                            \/ stored'[f] = "absent" /\ f \in {upload[q].old, upload[q].path}
                            \/ f = upload[q].path /\ Pending(upload[q]),
           NEW p \in Uploaders, p # q
    PROVE  (upload[p] # NoUpload => UploadOK(upload[p]))'
<1> SUFFICES ASSUME upload'[p] # NoUpload PROVE UploadOK(upload[p])'
    OBVIOUS
<1>1. /\ upload'[p] = upload[p] /\ UploadOK(upload[p]) /\ Apart(p, q) /\ Apart(q, p)
      /\ upload[p] \in Uploads /\ upload[q] \in Uploads
      BY DEF Proceeded, MediaInv, MediaTypeOK, OnTheirOwn
<1>2. /\ upload[p].old \in Files \cup {NoFile} /\ upload[p].path \in Files \cup {NoFile}
      /\ Pending(upload[q]) => upload[q].path \notin {upload[p].old, upload[p].path}
      /\ Pending(upload[p]) => upload[p].path \notin {upload[q].old, upload[q].path}
      BY <1>1, HandsAre DEF Apart
<1>3. Shaped(upload[p])'
      BY <1>1 DEF UploadOK, Shaped
<1>4. HasStored(upload[p])'
      BY <1>1, <1>2 DEF UploadOK, HasStored, Pending, DeletesFirst
<1>5. HasDropped(upload[p])'
      BY <1>1, <1>2 DEF UploadOK, HasDropped, DeletesFirst
<1>6. MayDrop(upload[p])'
      BY <1>1, <1>2, MediaAssumption DEF UploadOK, Shaped, MayDrop, DeletesFirst
<1> QED BY <1>3, <1>4, <1>5, <1>6 DEF UploadOK

\* A step of a request is well if it leaves itself, the files and the row well.
LEMMA MediaKept ==
    ASSUME MediaInv, MediaTypeOK', NEW q \in Uploaders, upload[q] # NoUpload, kind' = kind, Proceeded(q),
           (upload[q] # NoUpload /\ Pending(upload[q]))' => Pending(upload[q]) /\ UNCHANGED <<named, broken, stranded>>,
           named' \in {named, upload[q].path}, named' = named \/ named' = NoFile \/ Pending(upload[q]),
           broken \subseteq broken',
           broken' \cup stranded' \subseteq broken \cup stranded \cup {named, upload[q].old, upload[q].path},
           \A f \in Files : \/ stored'[f] = stored[f]
                            \/ stored'[f] = "absent" /\ f \in {upload[q].old, upload[q].path}
                            \/ f = upload[q].path /\ Pending(upload[q]),
           (upload[q] # NoUpload => UploadOK(upload[q]))',
           \A f \in Files : Owned(f)', PublishedFileIsStored'
    PROVE  MediaInv'
<1>1. OnTheirOwn'
      BY StaysApart
<1>2. ASSUME NEW p \in Uploaders PROVE (upload[p] # NoUpload => UploadOK(upload[p]))'
      BY OthersAreOK
<1> QED BY <1>1, <1>2 DEF MediaInv

\* The files that were in the row, with this request or nowhere are the ones to account for.
LEMMA FilesKept ==
    ASSUME MediaInv, NEW q \in Uploaders, Proceeded(q), kind' = kind, stranded \subseteq stranded',
           \A f \in Files : (f = named \/ Holds(upload[q], f) \/ stored[f] = "absent") /\ stored'[f] # "absent"
                            => f = named' \/ f \in stranded' \/ Holds(upload[q], f)'
    PROVE  \A f \in Files : Owned(f)'
<1> SUFFICES ASSUME NEW f \in Files, stored'[f] # "absent", f \notin stranded'
             PROVE  f = named' \/ \E p \in Uploaders : Holds(upload[p], f)'
    BY DEF Owned
<1>1. CASE f = named \/ Holds(upload[q], f) \/ stored[f] = "absent"
      BY <1>1
<1>2. CASE ~(f = named \/ Holds(upload[q], f) \/ stored[f] = "absent")
  <2>1. PICK p \in Uploaders : Holds(upload[p], f)
        BY <1>2 DEF MediaInv, Owned
  <2>2. Holds(upload[p], f)'
        BY <2>1, <1>2 DEF Proceeded, Holds, Pending, DeletesFirst
  <2> QED BY <2>2
<1> QED BY <1>1, <1>2

\* A file deleted before the row is written, by a request that is about to.
Announced(u) == u.op = "write" /\ u.old = named /\ (kind = "receipt" \/ u.for = "member")

LEMMA PublishedKept ==
    ASSUME MediaInv, NEW q \in Uploaders, Proceeded(q), kind' = kind, broken \subseteq broken',
           named' = NoFile \/ stored'[named'] = "whole" \/ named' \in broken' \/ Announced(upload[q])'
           \/ /\ named' = named /\ stored'[named] = stored[named] /\ ~Announced(upload[q])
    PROVE  PublishedFileIsStored'
<1> SUFFICES ASSUME named' # NoFile, stored'[named'] # "whole", named' \notin broken'
             PROVE  \E p \in Uploaders : Announced(upload[p])'
    BY DEF PublishedFileIsStored, Announced
<1>1. CASE Announced(upload[q])'
      BY <1>1
<1>2. CASE named' = named /\ stored'[named] = stored[named] /\ ~Announced(upload[q])
  <2>1. PICK p \in Uploaders : Announced(upload[p])
        BY <1>2 DEF MediaInv, PublishedFileIsStored, Announced
  <2>2. Announced(upload[p])'
        BY <2>1, <1>2 DEF Announced, Proceeded
  <2> QED BY <2>2
<1> QED BY <1>1, <1>2

LEMMA InHand ==
    ASSUME MediaInv, NEW q \in Uploaders, upload[q].op # "idle"
    PROVE  /\ upload[q] # NoUpload /\ upload[q] \in Uploads /\ UploadOK(upload[q]) /\ Unpublished(upload[q])
           /\ upload[q].op \in {"store", "write", "drop", "cleanup"}
           /\ upload[q].for \in {"replace", "remove", "member"}
           /\ upload[q].old \in Files \cup {NoFile} /\ upload[q].path \in Files \cup {NoFile}
  BY HandsAre DEF MediaInv, MediaTypeOK, OnTheirOwn

\* uploadPublicObject and the first objects of an icon.
LEMMA UploadStored ==
    ASSUME MediaInv, NEW q \in Uploaders, uploadPublicObject(q)
    PROVE  MediaInv'
<1> DEFINE u == upload[q]
<1>1. u \in Uploads /\ u.op = "store" /\ Pending(u) /\ u.path \in Files /\ UploadOK(u) /\ Unpublished(u) /\ u # NoUpload
      BY InHand DEF uploadPublicObject, UploadOK, Shaped, Pending
<1>2. /\ upload' \in [Uploaders -> Uploads \cup {NoUpload}] /\ Proceeded(q)
      /\ upload'[q] # NoUpload /\ upload'[q].op = AfterStore(u)
      /\ upload'[q].for = u.for /\ upload'[q].old = u.old /\ upload'[q].path = u.path
      BY <1>1, UploadMoves DEF uploadPublicObject, AfterStore, Proceeded, MediaInv
<1>3. stored' = [stored EXCEPT ![u.path] = "whole"] /\ UNCHANGED <<kind, named, alive, broken, stranded>>
      BY DEF uploadPublicObject
<1>4. MediaTypeOK'
      BY <1>1, <1>2, <1>3 DEF MediaInv, MediaTypeOK
<1>5. UploadOK(upload[q])'
      BY <1>1, <1>2, <1>3 DEF MediaInv, MediaTypeOK, UploadOK, Shaped, HasStored, HasDropped, MayDrop, Pending, AfterStore, DeletesFirst
<1>6. \A f \in Files : Owned(f)'
      BY <1>1, <1>2, <1>3, FilesKept DEF Holds, Pending, AfterStore, DeletesFirst, MediaInv, MediaTypeOK
<1>7. PublishedFileIsStored'
      BY <1>1, <1>2, <1>3, PublishedKept DEF Announced, Unpublished, MediaInv, MediaTypeOK
<1> HIDE DEF u
<1> QED BY <1>1, <1>2, <1>3, <1>4, <1>5, <1>6, <1>7, MediaKept DEF u

LEMMA VariantStored ==
    ASSUME MediaInv, NEW q \in Uploaders, uploadVariant(q)
    PROVE  MediaInv'
<1> DEFINE u == upload[q]
<1>1. u \in Uploads /\ u.op = "store" /\ Pending(u) /\ u.path \in Files /\ UploadOK(u) /\ Unpublished(u) /\ u # NoUpload
      BY InHand DEF uploadVariant, UploadOK, Shaped, Pending
<1>2. /\ stored' = [stored EXCEPT ![u.path] = "part"] /\ UNCHANGED <<kind, named, alive, upload, broken, stranded>>
      /\ kind = "icon" /\ Proceeded(q)
      BY <1>1 DEF uploadVariant, Proceeded
<1>3. MediaTypeOK'
      BY <1>1, <1>2 DEF MediaInv, MediaTypeOK
<1>4. UploadOK(upload[q])'
      BY <1>1, <1>2 DEF UploadOK, Shaped, HasStored, HasDropped, MayDrop, Pending, DeletesFirst
<1>5. \A f \in Files : Owned(f)'
      BY <1>1, <1>2, FilesKept DEF Holds, Pending, DeletesFirst, MediaInv, MediaTypeOK
<1>6. PublishedFileIsStored'
      BY <1>1, <1>2, PublishedKept DEF Announced, Unpublished, MediaInv, MediaTypeOK
<1> HIDE DEF u
<1> QED BY <1>1, <1>2, <1>3, <1>4, <1>5, <1>6, MediaKept DEF u, Proceeded, Pending, DeletesFirst

LEMMA UploadFailed ==
    ASSUME MediaInv, NEW q \in Uploaders, uploadFails(q)
    PROVE  MediaInv'
<1> DEFINE u == upload[q]  op == IF kind = "icon" THEN "cleanup" ELSE "idle"
<1>1. u \in Uploads /\ u.op = "store" /\ Pending(u) /\ u.path \in Files /\ UploadOK(u) /\ Unpublished(u) /\ u # NoUpload
      BY InHand DEF uploadFails, UploadOK, Shaped, Pending
<1>2. /\ upload' \in [Uploaders -> Uploads \cup {NoUpload}] /\ Proceeded(q)
      /\ kind = "icon" => /\ upload'[q] # NoUpload /\ upload'[q].op = "cleanup"
                          /\ upload'[q].for = u.for /\ upload'[q].old = u.old /\ upload'[q].path = u.path
      /\ kind # "icon" => upload'[q] = NoUpload
      BY <1>1, UploadMoves DEF uploadFails, Proceeded, MediaInv
<1>3. UNCHANGED <<kind, named, alive, stored, broken, stranded>>
      BY DEF uploadFails
<1>4. MediaTypeOK'
      BY <1>2, <1>3 DEF MediaInv, MediaTypeOK
<1>5. (upload[q] # NoUpload => UploadOK(upload[q]) /\ ~Pending(upload[q]))'
      BY <1>1, <1>2, <1>3 DEF UploadOK, Shaped, HasStored, HasDropped, MayDrop, Pending, Unpublished
<1>6. \A f \in Files : Owned(f)'
      BY <1>1, <1>2, <1>3, FilesKept DEF Holds, Pending, UploadOK, HasStored, MediaInv, MediaTypeOK
<1>7. PublishedFileIsStored'
      BY <1>1, <1>2, <1>3, PublishedKept DEF Announced
<1> HIDE DEF u
<1> QED BY <1>1, <1>2, <1>3, <1>4, <1>5, <1>6, <1>7, MediaKept DEF u

\* writeRow: the row is written; what was read in it is deleted next, or was before.
LEMMA RowWritten ==
    ASSUME MediaInv, NEW q \in Uploaders, writeRow(q)
    PROVE  MediaInv'
<1> DEFINE u == upload[q]
<1>1. /\ u \in Uploads /\ u.op = "write" /\ UploadOK(u) /\ Unpublished(u) /\ u # NoUpload
      /\ u.old \in Files \cup {NoFile} /\ u.path \in Files \cup {NoFile}
      /\ u.path # NoFile => Pending(u)
      BY InHand DEF writeRow, Pending
<1>2. /\ upload' \in [Uploaders -> Uploads \cup {NoUpload}] /\ Proceeded(q)
      /\ IF DeletesFirst(u.for) \/ u.old = NoFile
         THEN upload'[q] = NoUpload
         ELSE /\ upload'[q] # NoUpload /\ upload'[q].op = "drop"
              /\ upload'[q].for = u.for /\ upload'[q].old = u.old /\ upload'[q].path = u.path
      BY <1>1, UploadMoves DEF writeRow, AfterWrite, Proceeded, MediaInv
<1>3. /\ named' = u.path /\ stranded' = stranded \cup Overwritten(u) /\ UNCHANGED <<kind, stored, broken>>
      /\ alive' \in BOOLEAN
      BY DEF writeRow
<1>4. Overwritten(u) = ({named} \ {u.old}) \ {NoFile}
      BY DEF Overwritten, Paths
<1>5. MediaTypeOK'
      BY <1>1, <1>2, <1>3, <1>4 DEF MediaInv, MediaTypeOK
<1>6. (upload[q] # NoUpload => UploadOK(upload[q]) /\ ~Pending(upload[q]))'
  <2>1. u.path # u.old \/ u.path = NoFile
        BY <1>1 DEF MediaInv, OnTheirOwn, Apart
  <2> QED BY <2>1, <1>1, <1>2, <1>3 DEF UploadOK, Shaped, HasStored, HasDropped, MayDrop, Pending, DeletesFirst
<1>7. \A f \in Files : Owned(f)'
      BY <1>1, <1>2, <1>3, <1>4, FilesKept, MediaAssumption DEF Holds, Pending, UploadOK, HasDropped, DeletesFirst, MediaInv, MediaTypeOK
<1>8. PublishedFileIsStored'
      BY <1>1, <1>2, <1>3, PublishedKept DEF UploadOK, HasStored
<1> HIDE DEF u
<1> QED BY <1>1, <1>2, <1>3, <1>4, <1>5, <1>6, <1>7, <1>8, MediaKept DEF u

\* The write that fails, done or not.
LEMMA RowWriteFailed ==
    ASSUME MediaInv, NEW q \in Uploaders, NEW done \in BOOLEAN, writeFails(q, done)
    PROVE  MediaInv'
<1> DEFINE u == upload[q]
<1>1. /\ u \in Uploads /\ u.op = "write" /\ UploadOK(u) /\ Unpublished(u) /\ u # NoUpload
      /\ u.old \in Files \cup {NoFile} /\ u.path \in Files \cup {NoFile}
      /\ u.path # NoFile => Pending(u)
      BY InHand DEF writeFails, Pending
<1>2. /\ upload' \in [Uploaders -> Uploads \cup {NoUpload}] /\ Proceeded(q)
      /\ IF kind = "icon" /\ u.path # NoFile
         THEN /\ upload'[q] # NoUpload /\ upload'[q].op = "cleanup"
              /\ upload'[q].for = u.for /\ upload'[q].old = u.old /\ upload'[q].path = u.path
         ELSE upload'[q] = NoUpload
      BY <1>1, UploadMoves DEF writeFails, Proceeded, MediaInv
<1>3. /\ named' = IF done THEN u.path ELSE named
      /\ UNCHANGED <<kind, stored>> /\ alive' \in BOOLEAN
      BY DEF writeFails
<1>4. /\ broken \subseteq broken' /\ broken' \subseteq broken \cup {u.old, u.path}
      /\ broken' \subseteq Files
      /\ kind = "icon" /\ done /\ u.path # NoFile => u.path \in broken'
      /\ DeletesFirst(u.for) /\ u.old # NoFile => u.old \in broken'
      BY <1>1 DEF writeFails, Paths, MediaInv, MediaTypeOK
<1>5. /\ stranded \subseteq stranded' /\ stranded' \subseteq stranded \cup {named, u.old, u.path}
      /\ stranded' \subseteq Files
      /\ u.old # NoFile => u.old \in stranded'
      /\ ~done /\ u.path # NoFile => u.path \in stranded'
      /\ done /\ named # NoFile => named \in stranded'
      BY <1>1 DEF writeFails, Paths, Overwritten, MediaInv, MediaTypeOK
<1>6. MediaTypeOK'
      BY <1>1, <1>2, <1>3, <1>4, <1>5 DEF MediaInv, MediaTypeOK
<1>7. (upload[q] # NoUpload => UploadOK(upload[q]) /\ ~Pending(upload[q]))'
      BY <1>1, <1>2, <1>3, <1>4 DEF UploadOK, Shaped, HasStored, HasDropped, MayDrop, Pending, DeletesFirst, Unpublished
<1>8. \A f \in Files : Owned(f)'
      BY <1>1, <1>2, <1>3, <1>5, FilesKept, MediaAssumption DEF Holds, MediaInv, MediaTypeOK
<1>9. PublishedFileIsStored'
  <2>1. CASE done
        BY <2>1, <1>1, <1>2, <1>3, <1>4, PublishedKept DEF UploadOK, HasStored
  <2>2. CASE ~done
        BY <2>2, <1>1, <1>2, <1>3, <1>4, PublishedKept DEF Announced, DeletesFirst
  <2> QED BY <2>1, <2>2
<1> HIDE DEF u
<1> QED BY <1>1, <1>2, <1>3, <1>4, <1>5, <1>6, <1>7, <1>8, <1>9, MediaKept DEF u

\* A deletion that is acknowledged.
LEMMA ObjectDeleted ==
    ASSUME MediaInv, NEW q \in Uploaders, deleteObject(q)
    PROVE  MediaInv'
<1> DEFINE u == upload[q]
<1>1. u \in Uploads /\ u.op = "drop" /\ UploadOK(u) /\ Unpublished(u) /\ u # NoUpload /\ u.old \in Files
      BY InHand DEF deleteObject, UploadOK, Shaped
<1>2. /\ upload' \in [Uploaders -> Uploads \cup {NoUpload}] /\ Proceeded(q)
      /\ IF DeletesFirst(u.for)
         THEN /\ upload'[q] # NoUpload /\ upload'[q].op = "write"
              /\ upload'[q].for = u.for /\ upload'[q].old = u.old /\ upload'[q].path = u.path
         ELSE upload'[q] = NoUpload
      BY <1>1, UploadMoves DEF deleteObject, Proceeded, MediaInv
<1>3. stored' = [stored EXCEPT ![u.old] = "absent"] /\ UNCHANGED <<kind, named, alive, broken, stranded>>
      BY DEF deleteObject
<1>4. MediaTypeOK'
      BY <1>1, <1>2, <1>3 DEF MediaInv, MediaTypeOK
<1>5. Pending(u) => u.path # u.old
      BY <1>1 DEF MediaInv, OnTheirOwn, Apart
<1>6. (upload[q] # NoUpload => UploadOK(upload[q]))'
      BY <1>1, <1>2, <1>3, <1>5 DEF MediaInv, MediaTypeOK, UploadOK, Shaped, HasStored, HasDropped, MayDrop, Pending, DeletesFirst
<1>7. \A f \in Files : Owned(f)'
      BY <1>1, <1>2, <1>3, FilesKept DEF Holds, Pending, DeletesFirst, MediaInv, MediaTypeOK
<1>8. PublishedFileIsStored'
  <2>1. CASE DeletesFirst(u.for) /\ u.old = named
        BY <2>1, <1>1, <1>2, <1>3, PublishedKept DEF Announced, DeletesFirst
  <2>2. CASE u.old # named
        BY <2>2, <1>1, <1>2, <1>3, PublishedKept DEF Announced, MediaInv, MediaTypeOK
  <2> QED BY <2>1, <2>2, <1>1 DEF UploadOK, MayDrop
<1>9. (upload[q] # NoUpload /\ Pending(upload[q]))' => Pending(u)
      BY <1>1, <1>2, <1>3 DEF Pending, DeletesFirst
<1> HIDE DEF u
<1> QED BY <1>1, <1>2, <1>3, <1>4, <1>6, <1>7, <1>8, <1>9, MediaKept DEF u, MediaInv, MediaTypeOK

\* One that is refused, or not acknowledged.
LEMMA DeletionFailed ==
    ASSUME MediaInv, NEW q \in Uploaders, NEW gone \in BOOLEAN, deleteFails(q, gone)
    PROVE  MediaInv'
<1> DEFINE u == upload[q]
<1>1. /\ u \in Uploads /\ u.op = "drop" /\ UploadOK(u) /\ u # NoUpload /\ u.old \in Files /\ u.path \in Files \cup {NoFile}
      /\ DeletesFirst(u.for) \/ u.old # named
      BY InHand DEF deleteFails, UploadOK, Shaped, MayDrop
<1>2. upload' \in [Uploaders -> Uploads \cup {NoUpload}] /\ Proceeded(q) /\ upload'[q] = NoUpload
      BY <1>1, UploadMoves DEF deleteFails, Proceeded, MediaInv
<1>3. /\ UNCHANGED <<kind, named, alive>> /\ stranded' = stranded \cup ({u.old, u.path} \ {NoFile})
      /\ stored' = IF gone THEN [stored EXCEPT ![u.old] = "absent"] ELSE stored
      /\ broken' = IF gone /\ DeletesFirst(u.for) THEN broken \cup {u.old} ELSE broken
      BY DEF deleteFails, Paths
<1>4. MediaTypeOK'
      BY <1>1, <1>2, <1>3 DEF MediaInv, MediaTypeOK
<1>5. \A f \in Files : Owned(f)'
      BY <1>1, <1>2, <1>3, FilesKept, MediaAssumption DEF Holds, MediaInv, MediaTypeOK
<1>6. PublishedFileIsStored'
      BY <1>1, <1>2, <1>3, PublishedKept DEF Announced, DeletesFirst, MediaInv, MediaTypeOK
<1> HIDE DEF u
<1> QED BY <1>1, <1>2, <1>3, <1>4, <1>5, <1>6, MediaKept DEF u, MediaInv, MediaTypeOK

\* The objects of an icon that was not published are taken back.
LEMMA VariantsDiscarded ==
    ASSUME MediaInv, NEW q \in Uploaders, NEW gone \in BOOLEAN, discardVariants(q, gone)
    PROVE  MediaInv'
<1> DEFINE u == upload[q]
<1>1. /\ u \in Uploads /\ u.op = "cleanup" /\ u # NoUpload /\ u.path \in Files
      /\ u.path = named => u.path \in broken
      BY InHand DEF discardVariants, UploadOK, Shaped, MayDrop
<1>2. upload' \in [Uploaders -> Uploads \cup {NoUpload}] /\ Proceeded(q) /\ upload'[q] = NoUpload
      BY <1>1, UploadMoves DEF discardVariants, Proceeded, MediaInv
<1>3. /\ UNCHANGED <<kind, named, alive, broken>> /\ stranded' = stranded \cup {u.path}
      /\ stored' = IF gone THEN [stored EXCEPT ![u.path] = "absent"] ELSE stored
      BY DEF discardVariants
<1>4. MediaTypeOK'
      BY <1>1, <1>2, <1>3 DEF MediaInv, MediaTypeOK
<1>5. \A f \in Files : Owned(f)'
      BY <1>1, <1>2, <1>3, FilesKept DEF Holds, Pending, MediaInv, MediaTypeOK
<1>6. PublishedFileIsStored'
      BY <1>1, <1>2, <1>3, PublishedKept DEF Announced, MediaInv, MediaTypeOK
<1> HIDE DEF u
<1> QED BY <1>1, <1>2, <1>3, <1>4, <1>5, <1>6, MediaKept DEF u, MediaInv, MediaTypeOK

\* The process dies.
LEMMA UploadLost ==
    ASSUME MediaInv, NEW q \in Uploaders, uploadCutOff(q)
    PROVE  MediaInv'
<1> DEFINE u == upload[q]
<1>1. /\ u \in Uploads /\ u # NoUpload /\ u.op # "idle"
      /\ u.old \in Files \cup {NoFile} /\ u.path \in Files \cup {NoFile}
      BY HandsAre DEF uploadCutOff, MediaInv, MediaTypeOK
<1>2. upload' \in [Uploaders -> Uploads \cup {NoUpload}] /\ Proceeded(q) /\ upload'[q] = NoUpload
      BY <1>1, UploadMoves DEF uploadCutOff, Proceeded, MediaInv
<1>3. /\ UNCHANGED <<kind, named, alive, stored>> /\ stranded' = stranded \cup ({u.old, u.path} \ {NoFile})
      /\ broken' = IF u.op = "write" /\ DeletesFirst(u.for) THEN broken \cup ({u.old} \ {NoFile}) ELSE broken
      BY DEF uploadCutOff, Paths
<1>4. MediaTypeOK'
      BY <1>1, <1>2, <1>3 DEF MediaInv, MediaTypeOK
<1>5. \A f \in Files : Owned(f)'
      BY <1>1, <1>2, <1>3, FilesKept, MediaAssumption DEF Holds, MediaInv, MediaTypeOK
<1>6. PublishedFileIsStored'
      BY <1>1, <1>2, <1>3, PublishedKept DEF Announced, DeletesFirst, MediaInv, MediaTypeOK
<1> HIDE DEF u
<1> QED BY <1>1, <1>2, <1>3, <1>4, <1>5, <1>6, MediaKept DEF u, MediaInv, MediaTypeOK

LEMMA MediaUntouched ==
    ASSUME MediaInv, UNCHANGED <<kind, named, stored, upload, broken, stranded>>, alive' \in BOOLEAN
    PROVE  MediaInv'
<1>1. MediaTypeOK' /\ PublishedFileIsStored'
      BY DEF MediaInv, MediaTypeOK, PublishedFileIsStored
<1>2. \A q \in Uploaders : (upload[q] # NoUpload => UploadOK(upload[q]))'
      BY DEF MediaInv, UploadOK, Shaped, HasStored, HasDropped, MayDrop, Pending, DeletesFirst
<1>3. OnTheirOwn'
      BY DEF MediaInv, OnTheirOwn, Apart, Unpublished, Pending, DeletesFirst
<1>4. \A f \in Files : Owned(f)'
      BY DEF MediaInv, Owned, Holds, Pending, DeletesFirst
<1> QED BY <1>1, <1>2, <1>3, <1>4 DEF MediaInv

LEMMA MediaStep == MediaInv /\ [MediaNext]_mediaVars => MediaInv'
<1> SUFFICES ASSUME MediaInv, [MediaNext]_mediaVars PROVE MediaInv'
    OBVIOUS
<1>1. CASE UNCHANGED mediaVars
      BY <1>1, MediaUntouched DEF mediaVars, MediaInv, MediaTypeOK
<1>2. CASE cancelReceiptOwner
      BY <1>2, MediaUntouched DEF cancelReceiptOwner
<1> QED BY <1>1, <1>2, BeginUpload, BeginRemoval, UploadStored, VariantStored, UploadFailed, RowWritten, RowWriteFailed,
           ObjectDeleted, DeletionFailed, VariantsDiscarded, UploadLost DEF MediaNext

\* What a request brings is known to itself alone until it names it, and what it
\* deletes is no longer named, or will not be (DeletesFirst).
THEOREM MediaInvariant == MediaSpec => []MediaInv
<1>1. MediaInit => MediaInv
      BY MediaInitially
<1>2. MediaInv /\ [MediaNext]_mediaVars => MediaInv'
      BY MediaStep
<1> QED BY <1>1, <1>2, PTL DEF MediaSpec

\* The row names a whole file and the store keeps no file nobody reaches, but
\* for the named failures and races (replacePhoto, replaceLogo, uploadReceipt).
THEOREM FilesStayWithTheirRows == MediaSpec => []FilesAndRowsAgree
<1>1. MediaInv => FilesAndRowsAgree
      BY DEF MediaInv, FilesAndRowsAgree, EveryFileIsOwned, Owned, Holds, PublishedFileIsStored
<1> QED BY <1>1, MediaInvariant, PTL
-----------------------------------------------------------------------------
\* The notices of schedules.

Programs == [status : ProgramStates, aged : BOOLEAN, touched : BOOLEAN]
Updating == [op : {"update"}, status : ProgramStates, first : BOOLEAN]
Answering == [op : {"answer", "tell"}, turn : Turns, status : ConfirmationStates, actor : Users, tell : BOOLEAN]
Asking == {NoAsk} \cup [op : {"announce", "await"}] \cup Updating \cup Answering
Running == [kind : JobKinds, todo : SUBSET (Turns \cup Celebrants \cup {"everyone"}), stars : SUBSET Celebrants]

\* A job has found people or turns, by its kind.
Sorted(j) == j # NoJob => IF j.kind = "birthday" THEN j.todo \subseteq Celebrants \cup {"everyone"} ELSE j.todo \subseteq Turns

\* Only an answer is told.
Telling(a) == a.op = "tell" \/ (a.op = "answer" /\ a.tell) => a.status \in Replies

Tables ==
    /\ program \in Programs
    /\ turn \in [Turns -> ConfirmationStates \cup {"none", "gone"}]
    /\ clock \in [phase : 1..4, minute : 0..MaxMinute]
    /\ silenced \subseteq Users \X {"notifySchedules", "notifyBirthdays"} /\ absent \subseteq Users /\ ruleOff \subseteq NoticeRules
    /\ effort \in 0..MaxEffort
    /\ lastWord \in [Turns -> Replies \cup {"none"}] /\ excused \subseteq Turns
Asked == asker \in [Askers -> Asking] /\ \A q \in Askers : Telling(asker[q])
Jobs ==
    /\ job \in [Hosts -> {NoJob} \cup Running] /\ \A h \in Hosts : Sorted(job[h])
    /\ fired \in [Hosts -> SUBSET (JobKinds \X (1..4))]
Told == creating \subseteq Rows /\ notices \subseteq Rows
Owing == owed \in [Hosts -> SUBSET (Turns \cup Celebrants)]

NoticesShape == Tables /\ Asked /\ Jobs /\ Told /\ Owing

LEMMA PhasesAre == DOMAIN Phases = 1..4 /\ Len(Phases) = 4
BY DEF Phases

LEMMA ShapeIsType == NoticesShape => NoticesTypeOK
BY PhasesAre DEF NoticesShape, NoticesTypeOK, Tables, Asked, Jobs, Told, Owing, Programs, Asking, Updating, Answering, Running

LEMMA AskPerOp ==
  ASSUME NEW a \in Asking
  PROVE  /\ a.op = "update" => a \in Updating
         /\ a.op \in {"answer", "tell"} <=> a \in Answering
         /\ a.op \in {"idle", "announce", "await"} => a = NoAsk \/ a \in [op : {"announce", "await"}]
         /\ a.op = "idle" <=> a = NoAsk
BY DEF Asking, Updating, Answering, NoAsk

LEMMA JobsRun == ASSUME NEW j \in {NoJob} \cup Running PROVE j # NoJob <=> j \in Running
BY DEF NoJob, Running, JobKinds

\* A step takes from what a job owes, and a new job owes what it has found.
LEMMA OwedShape ==
  ASSUME NoticesShape, Jobs', owed' = StillOwed
  PROVE  Owing'
<1> SUFFICES ASSUME NEW h \in Hosts PROVE StillOwed[h] \subseteq Turns \cup Celebrants
  BY DEF Owing, StillOwed
<1>1. CASE job'[h] = NoJob
  BY <1>1 DEF StillOwed
<1>2. CASE job'[h] # NoJob /\ job[h] = NoJob
  <2>1. job'[h] \in Running
    BY <1>2, JobsRun DEF Jobs
  <2>2. job'[h].todo \subseteq Turns \cup Celebrants \cup {"everyone"}
    BY <2>1 DEF Running
  <2> QED BY <1>2, <2>2 DEF StillOwed
<1>3. CASE job'[h] # NoJob /\ job[h] # NoJob
  BY <1>3 DEF StillOwed, NoticesShape, Owing
<1> QED BY <1>1, <1>2, <1>3

LEMMA CreationShape ==
  ASSUME NoticesShape, NEW by \in Hosts \cup Askers, NEW calls,
         \A c \in calls : c[1] \in Topics /\ c[2] \subseteq Users
  PROVE  Creations(by, calls) \subseteq Rows
<1> SUFFICES ASSUME NEW c \in calls PROVE Creation(by, c[1], c[2]) \in Rows
  BY DEF Creations
<1>1. {u \in c[2] : u \notin absent /\ <<u, Preference(c[1])>> \notin silenced} \in SUBSET Users
  OBVIOUS
<1> QED BY <1>1 DEF Creation, Rows

LEMMA CallShape ==
  ASSUME NoticesShape, NEW j \in Running, Sorted(j), NEW x \in j.todo
  PROVE  CallFor(j, x)[1] \in Topics /\ CallFor(j, x)[2] \subseteq Users
<1>1. CASE x = "everyone"
  <2>1. CallFor(j, x) = <<Topic("community", "everyone"), Users \ (absent \cup j.stars)>>
    BY <1>1, NoticesAssumption DEF CallFor, Users
  <2> QED BY <2>1 DEF Topics
<1>2. CASE x # "everyone" /\ x \in Volunteers
  BY <1>2 DEF CallFor, Topics, Topic, Users
<1>3. CASE x # "everyone" /\ x \notin Volunteers
  <2>1. x \in Turns /\ j.kind \in {"pending", "today"}
    BY <1>3, NoticesAssumption, JobsRun DEF Sorted, Running, JobKinds
  <2>2. Holder[x] \in Users
    BY <2>1, NoticesAssumption DEF Users
  <2> QED BY <1>3, <2>1, <2>2 DEF CallFor, Topics, Topic
<1> QED BY <1>1, <1>2, <1>3

-----------------------------------------------------------------------------
\* One variable at a time.
LEMMA AskSet ==
  ASSUME NoticesShape, NEW q \in Askers, NEW a \in Asking, Telling(a), asker' = [asker EXCEPT ![q] = a]
  PROVE  Asked'
BY DEF NoticesShape, Asked

LEMMA IdleAsks == NoAsk \in Asking /\ Telling(NoAsk) /\ [op |-> "await"] \in Asking /\ Telling([op |-> "await"])
                  /\ [op |-> "announce"] \in Asking /\ Telling([op |-> "announce"])
BY DEF NoAsk, Asking, Telling

LEMMA JobEnds ==
  ASSUME NoticesShape, NEW H, job' = [h \in Hosts |-> IF h \in H THEN NoJob ELSE job[h]], fired' = fired
  PROVE  Jobs'
BY DEF NoticesShape, Jobs, Sorted

LEMMA NoticesShapeAtFirst == NoticesInit => NoticesShape
<1> SUFFICES ASSUME NoticesInit PROVE NoticesShape
  OBVIOUS
<1>1. Tables
  <2>1. program \in Programs
    <3>1. CASE program = [status |-> "RASCUNHO", aged |-> FALSE, touched |-> FALSE]
      BY <3>1 DEF Programs, ProgramStates
    <3>2. CASE program = [status |-> "PUBLICADA", aged |-> TRUE, touched |-> TRUE]
      BY <3>2 DEF Programs, ProgramStates
    <3> QED BY <3>1, <3>2 DEF NoticesInit
  <2>3. effort \in 0..MaxEffort
    BY NoticesAssumption DEF NoticesInit
  <2>2. turn \in [Turns -> ConfirmationStates \cup {"none", "gone"}]
    BY DEF NoticesInit, ConfirmationStates
  <2> QED BY <2>1, <2>2, <2>3, NoticesAssumption DEF NoticesInit, Tables
<1>2. Asked /\ Jobs /\ Told /\ Owing
  BY IdleAsks DEF NoticesInit, Asked, Jobs, Told, Owing, Sorted
<1> QED BY <1>1, <1>2 DEF NoticesShape

-----------------------------------------------------------------------------
\* The shape but for what is owed, by each step.
Kept == Tables' /\ Asked' /\ Jobs' /\ Told'

LEMMA SameAsked == NoticesShape /\ asker' = asker => Asked'
BY DEF NoticesShape, Asked
LEMMA SameJobs == NoticesShape /\ job' = job /\ fired' = fired => Jobs'
BY DEF NoticesShape, Jobs
LEMMA SameTold == NoticesShape /\ creating' \subseteq creating /\ notices' = notices => Told'
BY DEF NoticesShape, Told
LEMMA SameTables ==
  NoticesShape /\ UNCHANGED <<program, turn, clock, silenced, absent, ruleOff, effort, lastWord, excused>> => Tables'
BY DEF NoticesShape, Tables
LEMMA SpentTables ==
  NoticesShape /\ Spends /\ UNCHANGED <<program, turn, clock, silenced, absent, ruleOff, lastWord, excused>> => Tables'
BY NoticesAssumption DEF NoticesShape, Tables, Spends
LEMMA SpentEffort == NoticesShape /\ Spends => effort' \in 0..MaxEffort
BY NoticesAssumption DEF NoticesShape, Tables, Spends

LEMMA RowShape ==
  ASSUME NoticesShape, NEW c \in creating
  PROVE  /\ c.by \in Hosts \cup Askers /\ c.topic \in Topics
         /\ c.topic.about = "resp" => c.topic.of \in Turns /\ c.topic.reply \in Replies
<1>1. c.by \in Hosts \cup Askers /\ c.topic \in Topics
  BY DEF NoticesShape, Told, Rows
<1> QED BY <1>1 DEF Topics, Topic

LEMMA KeptCreate ==
  ASSUME NoticesShape, NEW c \in creating, createNotification(c)
  PROVE  Kept
<1>1. Asked' /\ Jobs'
  BY SameAsked, SameJobs DEF createNotification
<1>2. Told'
  BY DEF createNotification, NoticesShape, Told
<1>3. Tables'
  BY RowShape DEF createNotification, NoticesShape, Tables
<1> QED BY <1>1, <1>2, <1>3 DEF Kept

LEMMA KeptFails ==
  ASSUME NoticesShape, NEW c \in creating, createFails(c)
  PROVE  Kept
<1>1. Asked' /\ Told'
  BY SameAsked, SameTold DEF createFails
<1>2. Jobs'
  <2>1. job' = [h \in Hosts |-> IF h \in {c.by} THEN NoJob ELSE job[h]] /\ fired' = fired
    BY DEF createFails
  <2> QED BY <2>1, JobEnds
<1>3. Tables'
  BY RowShape, SpentEffort DEF createFails, NoticesShape, Tables
<1> QED BY <1>1, <1>2, <1>3 DEF Kept

LEMMA FoundSorted ==
  ASSUME NEW k \in JobKinds
  PROVE  IF k = "birthday" THEN Found(k) \subseteq Celebrants \cup {"everyone"} ELSE Found(k) \subseteq Turns
BY DEF Found

LEMMA KeptStart ==
  ASSUME NoticesShape, NEW h \in Hosts, NEW k \in JobKinds, startJob(h, k)
  PROVE  Kept
<1> DEFINE j == [kind |-> k, todo |-> Found(k), stars |-> Celebrants \ absent]
<1>1. Asked' /\ Told' /\ Tables'
  BY SameAsked, SameTold, SpentTables DEF startJob
<1>2. j \in Running /\ Sorted(j)
  BY FoundSorted DEF Running, Sorted
<1>3. job' = [job EXCEPT ![h] = j]
  BY DEF startJob
<1>4. <<k, clock.phase>> \in JobKinds \X (1..4)
  BY DEF NoticesShape, Tables
<1>5. fired' \in [Hosts -> SUBSET (JobKinds \X (1..4))]
  BY <1>4 DEF startJob, NoticesShape, Jobs
<1> HIDE DEF j
<1>6. Jobs'
  BY <1>2, <1>3, <1>5 DEF NoticesShape, Jobs
<1> QED BY <1>1, <1>6 DEF Kept

LEMMA Visited ==
  ASSUME NoticesShape, NEW h \in Hosts, NEW x, visit(h, x)
  PROVE  /\ job[h] \in Running /\ Sorted(job[h]) /\ x \in job[h].todo
         /\ job'[h] \in Running /\ job'[h].kind = job[h].kind /\ job'[h].todo = job[h].todo \ {x} /\ job'[h].stars = job[h].stars
         /\ job' = [job EXCEPT ![h] = job'[h]]
<1>1. job[h] \in Running /\ Sorted(job[h]) /\ x \in job[h].todo
  BY JobsRun DEF visit, NoticesShape, Jobs
<1>2. job' = [job EXCEPT ![h].todo = @ \ {x}]
  BY DEF visit
<1>3. job'[h] = [job[h] EXCEPT !.todo = @ \ {x}]
  BY <1>2 DEF NoticesShape, Jobs
<1>4. /\ job'[h] \in Running /\ job'[h].kind = job[h].kind
      /\ job'[h].todo = job[h].todo \ {x} /\ job'[h].stars = job[h].stars
  BY <1>1, <1>3 DEF Running
<1>5. job' = [job EXCEPT ![h] = job'[h]]
  BY <1>2 DEF NoticesShape, Jobs
<1> QED BY <1>1, <1>4, <1>5

LEMMA KeptVisit ==
  ASSUME NoticesShape, NEW h \in Hosts, NEW x, visit(h, x)
  PROVE  Kept
<1>1. Asked' /\ Tables'
  BY SameAsked, SameTables DEF visit
<1>2. Sorted(job'[h])
  BY Visited, JobsRun DEF Sorted
<1>3. Jobs'
  BY <1>2, Visited DEF visit, NoticesShape, Jobs
<1>4. Creations(h, {CallFor(job[h], x)}) \subseteq Rows
  BY Visited, CallShape, CreationShape
<1>5. Told'
  BY <1>4 DEF visit, NoticesShape, Told
<1> QED BY <1>1, <1>3, <1>5 DEF Kept

LEMMA KeptEnds ==
  ASSUME NoticesShape, NEW h \in Hosts, endJob(h) \/ hostStops(h)
  PROVE  Kept
<1>1. Asked' /\ Told' /\ Tables'
  BY SameAsked, SameTold, SameTables, SpentTables DEF endJob, hostStops
<1>2. job' = [g \in Hosts |-> IF g \in {h} THEN NoJob ELSE job[g]] /\ fired' = fired
  BY DEF endJob, hostStops, NoticesShape, Jobs
<1>3. Jobs'
  BY <1>2, JobEnds
<1> QED BY <1>1, <1>3 DEF Kept

\* Requests.
LEMMA KeptAsk ==
  ASSUME NoticesShape, NEW q \in Askers, NEW a \in Asking, Telling(a), asker' = [asker EXCEPT ![q] = a],
         Tables', Told', job' = job, fired' = fired
  PROVE  Kept
BY AskSet, SameJobs DEF Kept

LEMMA KeptUpdates ==
  ASSUME NoticesShape, NEW q \in Askers, NEW status \in ProgramStates, updateProgram(q, status)
  PROVE  Kept
<1> DEFINE a == [op |-> "update", status |-> status,
                 first |-> program.status = "RASCUNHO" /\ status = "PUBLICADA" /\ ~program.touched]
<1>1. a \in Asking /\ Telling(a)
  BY DEF Asking, Updating, Telling
<1>2. asker' = [asker EXCEPT ![q] = a]
  BY DEF updateProgram
<1>3. Tables' /\ Told'
  BY SpentTables, SameTold DEF updateProgram
<1> HIDE DEF a
<1> QED BY <1>1, <1>2, <1>3, KeptAsk DEF updateProgram

LEMMA KeptWrite ==
  ASSUME NoticesShape, NEW q \in Askers, writeProgram(q)
  PROVE  Kept
<1>1. asker[q] \in Updating
  BY AskPerOp DEF writeProgram, NoticesShape, Asked
<1>2. program' \in Programs
  <2>1. program \in Programs /\ asker[q].status \in ProgramStates
    BY <1>1 DEF NoticesShape, Tables, Updating
  <2> QED BY <2>1 DEF writeProgram, Programs
<1>3. Tables' /\ Told'
  BY <1>2, SameTold DEF writeProgram, NoticesShape, Tables
<1>4. asker' = [asker EXCEPT ![q] = NoAsk] \/ asker' = [asker EXCEPT ![q] = [op |-> "announce"]]
  BY DEF writeProgram
<1> QED BY <1>3, <1>4, IdleAsks, KeptAsk DEF writeProgram

LEMMA KeptAnnounce ==
  ASSUME NoticesShape, NEW q \in Askers, notifyEscalaPublished(q)
  PROVE  Kept
<1> DEFINE people == IF program.status = "PUBLICADA"
                     THEN {Holder[t] : t \in {s \in Turns : turn[s] \in ConfirmationStates}} \ absent ELSE {}
           calls == {<<Topic("published", u), {u}>> : u \in people}
<1>1. people \subseteq Volunteers
  BY NoticesAssumption
<1>2. \A c \in calls : c[1] \in Topics /\ c[2] \subseteq Users
  BY <1>1 DEF Topics, Topic, Users
<1>3. creating' = creating \cup Creations(q, calls)
  BY DEF notifyEscalaPublished
<1> HIDE DEF calls
<1>4. Told'
  BY <1>2, <1>3, CreationShape DEF notifyEscalaPublished, NoticesShape, Told
<1>5. Tables'
  BY SameTables DEF notifyEscalaPublished
<1> QED BY <1>4, <1>5, IdleAsks, KeptAsk DEF notifyEscalaPublished

LEMMA KeptConfirm ==
  ASSUME NoticesShape, NEW q \in Askers, NEW t \in Turns, NEW status \in ConfirmationStates, NEW actor \in Users,
         confirmar(q, t, status, actor)
  PROVE  Kept
<1> DEFINE a == [op |-> "answer", turn |-> t, status |-> status, actor |-> actor, tell |-> ShouldTellLeaders(turn[t], status)]
<1>1. a \in Asking /\ Telling(a)
  BY DEF Asking, Answering, Telling, ShouldTellLeaders
<1>2. asker' = [asker EXCEPT ![q] = a]
  BY DEF confirmar
<1>3. Tables' /\ Told'
  BY SpentEffort, SameTold DEF confirmar, NoticesShape, Tables
<1> HIDE DEF a
<1> QED BY <1>1, <1>2, <1>3, KeptAsk DEF confirmar

LEMMA KeptAnswer ==
  ASSUME NoticesShape, NEW q \in Askers, writeAnswer(q)
  PROVE  Kept
<1> DEFINE a == asker[q]
           b == [a EXCEPT !.op = "tell"]
<1>1. a \in Answering /\ a.op = "answer" /\ Telling(a)
  BY AskPerOp DEF writeAnswer, NoticesShape, Asked
<1>2. b \in Answering /\ b.op = "tell" /\ b.status = a.status
  BY <1>1 DEF Answering
<1>3. a.tell => b \in Asking /\ Telling(b)
  BY <1>1, <1>2 DEF Asking, Telling
<1>4. a.turn \in Turns /\ a.status \in ConfirmationStates
  BY <1>1 DEF Answering
<1>5. Tables' /\ Told'
  BY <1>4, SameTold DEF writeAnswer, NoticesShape, Tables
<1>6. asker' = [asker EXCEPT ![q] = NoAsk] \/ (a.tell /\ asker' = [asker EXCEPT ![q] = b])
  BY DEF writeAnswer
<1> HIDE DEF b
<1> QED BY <1>3, <1>5, <1>6, IdleAsks, KeptAsk DEF writeAnswer

LEMMA KeptTell ==
  ASSUME NoticesShape, NEW q \in Askers, tellLeaders(q)
  PROVE  Kept
<1> DEFINE a == asker[q]
           topic == AnswerTopic(a.turn, a.status, clock.minute)
           chiefs == Chiefs \ (absent \cup {a.actor})
<1>1. a \in Answering /\ a.op = "tell" /\ Telling(a)
  BY AskPerOp DEF tellLeaders, NoticesShape, Asked
<1>2. a.turn \in Turns /\ a.status \in Replies
  BY <1>1 DEF Answering, Telling
<1>3. topic \in Topics /\ chiefs \subseteq Users
  BY <1>2 DEF Topics, AnswerTopic, Users, NoticesShape, Tables
<1>4. \A c \in {<<topic, chiefs>>} : c[1] \in Topics /\ c[2] \subseteq Users
  BY <1>3
<1>5. Creations(q, {<<topic, chiefs>>}) \subseteq Rows
  BY <1>4, CreationShape
<1>6. Told'
  BY <1>5 DEF tellLeaders, NoticesShape, Told
<1>7. Tables'
  BY <1>2 DEF tellLeaders, NoticesShape, Tables
<1> QED BY <1>6, <1>7, IdleAsks, KeptAsk DEF tellLeaders

LEMMA KeptAskEnds ==
  ASSUME NoticesShape, NEW q \in Askers, requestEnds(q) \/ requestCutOff(q)
  PROVE  Kept
<1>1. CASE requestEnds(q)
  BY <1>1, SameTables, SameTold, IdleAsks, KeptAsk DEF requestEnds
<1>2. CASE requestCutOff(q)
  <2>1. {c.topic.of : c \in {d \in InFlight(q) : d.topic.about = "resp"}} \subseteq Turns
    BY RowShape DEF InFlight
  <2>2. (IF asker[q].op = "tell" THEN {asker[q].turn} ELSE {}) \subseteq Turns
    BY AskPerOp DEF NoticesShape, Asked, Answering
  <2>3. Tables'
    BY <1>2, <2>1, <2>2, SpentEffort DEF requestCutOff, NoticesShape, Tables
  <2> QED BY <1>2, <2>3, SameTold, IdleAsks, KeptAsk DEF requestCutOff, InFlight
<1> QED BY <1>1, <1>2

LEMMA KeptTurn ==
  ASSUME NoticesShape, NEW t \in Turns,
         addTurn(t) \/ removeTurn(t) \/ \E status \in ConfirmationStates : updateItemStatus(t, status)
  PROVE  Kept
<1>1. Asked' /\ Jobs' /\ Told'
  BY SameAsked, SameJobs, SameTold DEF addTurn, removeTurn, updateItemStatus
<1>2. turn' \in [Turns -> ConfirmationStates \cup {"none", "gone"}]
  BY DEF addTurn, removeTurn, updateItemStatus, NoticesShape, Tables, ConfirmationStates
<1>3. Tables'
  BY <1>2, SpentEffort DEF addTurn, removeTurn, updateItemStatus, NoticesShape, Tables
<1> QED BY <1>1, <1>3 DEF Kept

LEMMA KeptProgram ==
  ASSUME NoticesShape, editNotes \/ removeProgram \/ \E phase \in DOMAIN Phases : tick(phase)
  PROVE  Kept
<1>1. Asked' /\ Jobs' /\ Told'
  BY SameAsked, SameJobs, SameTold DEF editNotes, removeProgram, tick
<1>2. program \in Programs
  BY DEF NoticesShape, Tables
<1>3. CASE editNotes
  <2>1. program' \in Programs
    BY <1>2, <1>3 DEF editNotes, Programs
  <2>2. Tables'
    BY <1>3, <2>1, SpentEffort DEF editNotes, NoticesShape, Tables
  <2> QED BY <1>1, <2>2 DEF Kept
<1>4. CASE removeProgram
  <2>1. program' \in Programs
    BY <1>2, <1>4 DEF removeProgram, Programs, ProgramStates
  <2>2. Tables'
    BY <1>4, <2>1, SpentEffort DEF removeProgram, NoticesShape, Tables
  <2> QED BY <1>1, <2>2 DEF Kept
<1>5. ASSUME NEW phase \in DOMAIN Phases, tick(phase) PROVE Kept
  <2>1. program' \in Programs
    BY <1>2, <1>5 DEF tick, Programs
  <2>2. clock' \in [phase : 1..4, minute : 0..MaxMinute]
    BY <1>5, PhasesAre, NoticesAssumption DEF tick, NoticesShape, Tables
  <2>3. Tables'
    BY <1>5, <2>1, <2>2 DEF tick, NoticesShape, Tables
  <2> QED BY <1>1, <2>3 DEF Kept
<1> QED BY <1>3, <1>4, <1>5

LEMMA KeptSwitches ==
  ASSUME NoticesShape,
         \/ \E u \in Restless : switchUser(u) \/ \E p \in {"notifySchedules", "notifyBirthdays"} : updateUserPreferences(u, p)
         \/ \E rule \in Switchable : updateRules(rule)
  PROVE  Kept
<1>1. Asked' /\ Jobs' /\ Told'
  BY SameAsked, SameJobs, SameTold DEF switchUser, updateUserPreferences, updateRules
<1>2. effort' \in 0..MaxEffort /\ UNCHANGED <<program, turn, clock, lastWord, excused>>
  BY SpentEffort DEF switchUser, updateUserPreferences, updateRules
<1>3. ruleOff' \subseteq NoticeRules /\ absent' \subseteq Users
  BY NoticesAssumption DEF switchUser, updateUserPreferences, updateRules, NoticesShape, Tables
<1>4. silenced' \subseteq Users \X {"notifySchedules", "notifyBirthdays"}
  <2>1. ASSUME NEW u \in Restless, NEW p \in {"notifySchedules", "notifyBirthdays"}, updateUserPreferences(u, p)
        PROVE  silenced' \subseteq silenced \cup {<<u, p>>} /\ u \in Users
    BY <2>1, NoticesAssumption DEF updateUserPreferences
  <2>2. silenced' = silenced \/ \E u \in Users, p \in {"notifySchedules", "notifyBirthdays"} : silenced' \subseteq silenced \cup {<<u, p>>}
    BY <2>1 DEF switchUser, updateRules
  <2> QED BY <2>2 DEF NoticesShape, Tables
<1>5. Tables'
  BY <1>2, <1>3, <1>4 DEF NoticesShape, Tables
<1> QED BY <1>1, <1>5 DEF Kept

LEMMA KeptByAll == NoticesShape /\ NoticeSteps => Kept
BY KeptCreate, KeptFails, KeptStart, KeptVisit, KeptEnds, KeptUpdates, KeptConfirm, KeptWrite, KeptAnnounce, KeptAnswer, KeptTell,
   KeptAskEnds, KeptTurn, KeptProgram, KeptSwitches DEF NoticeSteps

LEMMA NoticesShapeStep == NoticesShape /\ [NoticesNext]_noticeVars => NoticesShape'
<1> SUFFICES ASSUME NoticesShape, [NoticesNext]_noticeVars PROVE NoticesShape'
  OBVIOUS
<1>1. CASE NoticesNext
  <2>1. Kept /\ owed' = StillOwed
    BY <1>1, KeptByAll DEF NoticesNext
  <2> QED BY <2>1, OwedShape DEF Kept, NoticesShape
<1>2. CASE UNCHANGED noticeVars
  <2>1. Kept
    BY <1>2, SameAsked, SameJobs, SameTold, SameTables DEF noticeVars, Kept
  <2>2. Owing'
    BY <1>2 DEF noticeVars, NoticesShape, Owing
  <2> QED BY <2>1, <2>2 DEF Kept, NoticesShape
<1> QED BY <1>1, <1>2

\* The types of the notices' variables, the sorts of the jobs and of the answers
\* with them (NoticesShape).
THEOREM NoticesType == NoticesSpec => []NoticesTypeOK
<1> QED BY NoticesShapeAtFirst, NoticesShapeStep, ShapeIsType, PTL DEF NoticesSpec
-----------------------------------------------------------------------------
\* What a job found and would still find is still to come, told or being told.
Due(h, x) ==
    LET topic == CallFor(job[h], x)[1] IN
    x \in job[h].todo \/ AlreadyTold(topic) \/ \E c \in creating : c.by = h /\ c.topic = topic

OneNotice == \A m, n \in notices : m.topic = n.topic => m = n
AllDue == \A h \in Hosts : job[h] # NoJob => \A x \in owed[h] : x # "everyone" /\ Due(h, x)
FindInv == NoticesShape /\ OneNotice /\ AllDue

LEMMA OneNoticeStep == OneNotice /\ NoticeSteps => OneNotice'
<1> SUFFICES ASSUME OneNotice, NoticeSteps PROVE OneNotice'
  OBVIOUS
<1>1. notices' = notices \/ \E c \in creating : notices' = notices \cup {c} /\ KeyIsFree(c.topic)
  BY DEF NoticeSteps, createNotification, createFails, startJob, visit, endJob, hostStops, updateProgram, confirmar, writeProgram,
         notifyEscalaPublished, writeAnswer, tellLeaders, requestEnds, requestCutOff, addTurn, removeTurn, updateItemStatus,
         editNotes, removeProgram, switchUser, updateUserPreferences, updateRules, tick
<1> QED BY <1>1 DEF OneNotice, KeyIsFree

\* A step that leaves the job of a process alone, and its creations, or ends them
\* with their notice.
LEMMA DueStays ==
  ASSUME NEW h \in Hosts, NEW x, Due(h, x), job'[h] = job[h], notices \subseteq notices',
         \A c \in creating : c.by = h => c \in creating' \/ AlreadyTold(c.topic)'
  PROVE  Due(h, x)'
BY DEF Due, AlreadyTold, CallFor, Topic

LEMMA OwedGoesDown ==
  ASSUME owed' = StillOwed, NEW h \in Hosts, job[h] # NoJob
  PROVE  owed'[h] \subseteq owed[h]
BY DEF StillOwed

\* Jobs that a step does not touch.
LEMMA AllDueStays ==
  ASSUME FindInv, owed' = StillOwed, notices \subseteq notices',
         \A h \in Hosts : \/ job'[h] = NoJob
                          \/ /\ job'[h] = job[h]
                             /\ \A c \in creating : c.by = h => c \in creating' \/ AlreadyTold(c.topic)'
  PROVE  AllDue'
<1> SUFFICES ASSUME NEW h \in Hosts, job'[h] # NoJob, NEW x \in owed'[h] PROVE x # "everyone" /\ Due(h, x)'
  BY DEF AllDue
<1>1. job'[h] = job[h]
  OBVIOUS
<1>2. x \in owed[h]
  BY <1>1, OwedGoesDown
<1> QED BY <1>1, <1>2, DueStays DEF FindInv, AllDue

LEMMA DueByStart ==
  ASSUME FindInv, owed' = StillOwed, NEW h \in Hosts, NEW k \in JobKinds, startJob(h, k)
  PROVE  AllDue'
<1> SUFFICES ASSUME NEW g \in Hosts, job'[g] # NoJob, NEW x \in owed'[g] PROVE x # "everyone" /\ Due(g, x)'
  BY DEF AllDue
<1>1. CASE g # h
  <2>1. job'[g] = job[g] /\ creating' = creating /\ notices' = notices
    BY <1>1 DEF startJob, FindInv, NoticesShape, Jobs
  <2>2. x \in owed[g]
    BY <2>1, OwedGoesDown
  <2> QED BY <2>1, <2>2, DueStays DEF FindInv, AllDue
<1>2. CASE g = h
  <2>1. job[h] = NoJob
    BY DEF startJob
  <2>2. x \in job'[h].todo \ {"everyone"}
    BY <1>2, <2>1 DEF StillOwed
  <2> QED BY <1>2, <2>2 DEF Due
<1> QED BY <1>1, <1>2

LEMMA DueByVisit ==
  ASSUME FindInv, owed' = StillOwed, NEW h \in Hosts, NEW y, visit(h, y)
  PROVE  AllDue'
<1> SUFFICES ASSUME NEW g \in Hosts, job'[g] # NoJob, NEW x \in owed'[g] PROVE x # "everyone" /\ Due(g, x)'
  BY DEF AllDue
<1>1. notices' = notices /\ creating \subseteq creating'
  BY DEF visit
<1>2. CASE g # h
  <2>1. job'[g] = job[g]
    BY <1>2 DEF visit, FindInv, NoticesShape, Jobs
  <2>2. x \in owed[g]
    BY <2>1, OwedGoesDown
  <2> QED BY <1>1, <2>1, <2>2, DueStays DEF FindInv, AllDue
<1>3. CASE g = h
  <2>1. job[h] # NoJob /\ job[h] \in Running
    BY Visited, JobsRun DEF FindInv, visit
  <2>2. x \in owed[h] /\ x # "everyone" /\ Due(h, x)
    BY <1>3, <2>1, OwedGoesDown DEF FindInv, AllDue
  <2>3. job'[h].kind = job[h].kind /\ job'[h].todo = job[h].todo \ {y} /\ job'[h].stars = job[h].stars
    BY Visited DEF FindInv
  <2> DEFINE topic == CallFor(job[h], x)[1]
  <2>5. CallFor(job[h], x)[1]' = topic
    BY <2>2, <2>3, NoticesAssumption DEF CallFor, Users
  <2>6. CASE x # y
    BY <1>1, <1>3, <2>2, <2>3, <2>5, <2>6 DEF Due, AlreadyTold
  <2>7. CASE x = y
    <3>1. ~(x \in Turns /\ job[h].kind \in ruleOff)
      BY <1>3, <2>3, <2>7 DEF StillOwed, visit
    <3>2. creating' = creating \cup Creations(h, {CallFor(job[h], x)})
      BY <2>2, <2>7, <3>1 DEF visit
    <3>3. AlreadyTold(topic) \/ \E c \in creating' : c.by = h /\ c.topic = topic
      <4>1. CASE ~AlreadyTold(topic)
        <5>1. Creation(h, topic, CallFor(job[h], x)[2]) \in Creations(h, {CallFor(job[h], x)})
          BY <4>1 DEF Creations
        <5>2. Creation(h, topic, CallFor(job[h], x)[2]).by = h /\ Creation(h, topic, CallFor(job[h], x)[2]).topic = topic
          BY DEF Creation
        <5> QED BY <3>2, <5>1, <5>2
      <4> QED BY <4>1
    <3>4. AlreadyTold(topic)' \/ \E c \in creating' : c.by = h /\ c.topic = topic'
      BY <1>1, <2>5, <3>3 DEF AlreadyTold
    <3> QED BY <1>3, <2>2, <3>4 DEF Due
  <2> QED BY <2>6, <2>7
<1> QED BY <1>2, <1>3

LEMMA AllDueStep == FindInv /\ NoticesNext => AllDue'
<1> SUFFICES ASSUME FindInv, NoticesNext PROVE AllDue'
  OBVIOUS
<1>0. NoticeSteps /\ owed' = StillOwed
  BY DEF NoticesNext
<1>1. ASSUME NEW c \in creating, createNotification(c) PROVE AllDue'
  <2>1. job' = job /\ notices \subseteq notices' /\ AlreadyTold(c.topic)' /\ creating' = creating \ {c}
    BY <1>1 DEF createNotification, KeyIsFree, AlreadyTold
  <2> QED BY <1>0, <2>1, AllDueStays
<1>2. ASSUME NEW c \in creating, createFails(c) PROVE AllDue'
  BY <1>0, <1>2, AllDueStays DEF createFails
<1>3. ASSUME NEW h \in Hosts, endJob(h) \/ hostStops(h) PROVE AllDue'
  <2>1. \A g \in Hosts : job'[g] = IF g = h THEN NoJob ELSE job[g]
    BY <1>3 DEF endJob, hostStops, FindInv, NoticesShape, Jobs
  <2>2. notices' = notices /\ creating \ InFlight(h) \subseteq creating'
    BY <1>3 DEF endJob, hostStops
  <2> QED BY <1>0, <2>1, <2>2, AllDueStays DEF InFlight
<1>4. ASSUME NEW q \in Askers, requestCutOff(q) PROVE AllDue'
  BY <1>0, <1>4, NoticesAssumption, AllDueStays DEF requestCutOff, InFlight
<1>5. ASSUME UNCHANGED <<job, notices>>, creating \subseteq creating' PROVE AllDue'
  BY <1>0, <1>5, AllDueStays
<1>6. ASSUME NEW q \in Askers,
             \/ \E status \in ProgramStates : updateProgram(q, status)
             \/ \E t \in Turns, status \in ConfirmationStates, actor \in Users : confirmar(q, t, status, actor)
             \/ writeProgram(q) \/ notifyEscalaPublished(q) \/ writeAnswer(q) \/ tellLeaders(q) \/ requestEnds(q)
      PROVE  AllDue'
  BY <1>5, <1>6 DEF updateProgram, confirmar, writeProgram, notifyEscalaPublished, writeAnswer, tellLeaders, requestEnds
<1>7. ASSUME \/ \E t \in Turns : addTurn(t) \/ removeTurn(t) \/ \E status \in ConfirmationStates : updateItemStatus(t, status)
             \/ editNotes \/ removeProgram
             \/ \E u \in Restless : switchUser(u) \/ \E p \in {"notifySchedules", "notifyBirthdays"} : updateUserPreferences(u, p)
             \/ \E rule \in Switchable : updateRules(rule)
             \/ \E phase \in DOMAIN Phases : tick(phase)
      PROVE  AllDue'
  BY <1>5, <1>7 DEF addTurn, removeTurn, updateItemStatus, editNotes, removeProgram, switchUser, updateUserPreferences, updateRules, tick
<1> QED BY <1>0, <1>1, <1>2, <1>3, <1>4, <1>6, <1>7, DueByStart, DueByVisit DEF NoticeSteps

\* What the daily jobs find is told once and only once, whatever processes,
\* crashes and failures they meet (createNotification, the three jobs of
\* notifications.service.ts).
THEOREM FindsAreToldOnce == NoticesSpec => []EveryFindIsToldOnce
<1>1. NoticesInit => FindInv
  BY NoticesShapeAtFirst DEF NoticesInit, FindInv, OneNotice, AllDue
<1>2. FindInv /\ [NoticesNext]_noticeVars => FindInv'
  <2> SUFFICES ASSUME FindInv, [NoticesNext]_noticeVars PROVE FindInv'
    OBVIOUS
  <2>1. NoticesShape'
    BY NoticesShapeStep DEF FindInv
  <2>2. CASE NoticesNext
    BY <2>1, <2>2, OneNoticeStep, AllDueStep DEF NoticesNext, FindInv
  <2>3. CASE UNCHANGED noticeVars
    BY <2>1, <2>3 DEF noticeVars, FindInv, OneNotice, AllDue, Due, AlreadyTold, CallFor, Topic
  <2> QED BY <2>2, <2>3
<1>3. FindInv => EveryFindIsToldOnce
  BY DEF FindInv, OneNotice, AllDue, Due, EveryFindIsToldOnce, NobodyIsToldTwice, EveryFindIsTold, JobIsThrough, InFlight
<1> QED BY <1>1, <1>2, <1>3, PTL DEF NoticesSpec
-----------------------------------------------------------------------------
\* A request that answers for a turn, and a notice of its answer.
AnswersFor(a, t) == a.op \in {"answer", "tell"} /\ a.turn = t
ReplyOn(c, t) == c.topic.about = "resp" /\ c.topic.of = t

\* One answer at a time is under way, and it is the answer of the turn.
OneAnswer(t) ==
    /\ \A p, q \in Askers : AnswersFor(asker[p], t) /\ AnswersFor(asker[q], t) => p = q
    /\ \A c, d \in creating : ReplyOn(c, t) /\ ReplyOn(d, t) => c = d
    /\ \A q \in Askers, c \in creating : ~(AnswersFor(asker[q], t) /\ ReplyOn(c, t))
AnswerIsTold(t) ==
    /\ \A q \in Askers : AnswersFor(asker[q], t) =>
         /\ asker[q].op = "answer" /\ turn[t] \in ConfirmationStates =>
              (asker[q].tell <=> ShouldTellLeaders(turn[t], asker[q].status))
         /\ asker[q].op = "tell" /\ turn[t] \in Replies => turn[t] = asker[q].status
    /\ \A c \in creating : ReplyOn(c, t) /\ turn[t] \in Replies => turn[t] = c.topic.reply
    /\ \/ turn[t] \in Replies => lastWord[t] = turn[t]
       \/ \E q \in Askers : asker[q].op = "tell" /\ asker[q].turn = t
       \/ \E c \in creating : ReplyOn(c, t)
Awaited == \A c \in creating : c.topic.about = "resp" => c.by \in Askers /\ asker[c.by].op = "await"
Answered == \A q \in Askers : asker[q].op \in {"answer", "tell"} => turn[asker[q].turn] # "none"
HeardInv == NoticesShape /\ Awaited /\ Answered /\ \A t \in Turns \ excused : OneAnswer(t) /\ AnswerIsTold(t)

LEMMA StatesDiffer == /\ "none" \notin ConfirmationStates /\ "gone" \notin ConfirmationStates
                      /\ Replies \subseteq ConfirmationStates /\ "PENDENTE" \notin Replies
BY DEF ConfirmationStates, Replies

\* Nobody begins to answer, and an answer given up is excused.
GivesUp(q) ==
    /\ asker'[q].op \notin {"answer", "tell"}
    /\ asker[q].op = "tell" => asker[q].turn \in excused'
    /\ \A c \in creating' : c.topic.about = "resp" => c.by # q

LEMMA HeardKept ==
  ASSUME HeardInv, NoticesShape', excused \subseteq excused',
         \A t \in Turns \ excused' : /\ lastWord'[t] = lastWord[t]
                                     /\ turn'[t] = turn[t] \/ turn'[t] = "gone" \/ (turn[t] = "none" /\ turn'[t] = "PENDENTE"),
         \A t \in Turns : turn'[t] = "none" => turn[t] = "none",
         \A c \in creating' : c.topic.about = "resp" => c \in creating,
         \A c \in creating : c.topic.about = "resp" => c \in creating' \/ c.topic.of \in excused',
         \A q \in Askers : asker'[q] = asker[q] \/ GivesUp(q)
  PROVE  HeardInv'
<1>1. Awaited'
  BY DEF HeardInv, Awaited, GivesUp
<1>2. Answered'
  <2> SUFFICES ASSUME NEW q \in Askers, asker'[q].op \in {"answer", "tell"} PROVE turn'[asker'[q].turn] # "none"
    BY DEF Answered
  <2>1. asker'[q] = asker[q] /\ asker[q] \in Answering
    BY AskPerOp DEF GivesUp, HeardInv, NoticesShape, Asked
  <2>2. asker[q].turn \in Turns
    BY <2>1 DEF Answering
  <2> QED BY <2>1, <2>2 DEF HeardInv, Answered
<1>3. ASSUME NEW t \in Turns \ excused' PROVE OneAnswer(t)' /\ AnswerIsTold(t)'
  <2>1. t \in Turns \ excused /\ OneAnswer(t) /\ AnswerIsTold(t) /\ lastWord'[t] = lastWord[t]
    BY DEF HeardInv
  <2>2. \A q \in Askers : AnswersFor(asker'[q], t) => asker'[q] = asker[q]
    BY DEF AnswersFor, GivesUp
  <2>3. \A c \in creating' : ReplyOn(c, t) => c \in creating
    BY DEF ReplyOn
  <2>4. \A c \in creating : ReplyOn(c, t) => c \in creating'
    BY DEF ReplyOn
  <2>5. turn'[t] \in ConfirmationStates => turn'[t] = turn[t] \/ (turn[t] = "none" /\ turn'[t] = "PENDENTE")
    BY StatesDiffer
  <2>6. turn'[t] \in Replies => turn'[t] = turn[t]
    BY <2>5, StatesDiffer
  <2>7. OneAnswer(t)'
    BY <2>1, <2>2, <2>3 DEF OneAnswer
  <2>8. ASSUME NEW q \in Askers, AnswersFor(asker'[q], t)
        PROVE  /\ asker'[q].op = "answer" /\ turn'[t] \in ConfirmationStates =>
                    (asker'[q].tell <=> ShouldTellLeaders(turn'[t], asker'[q].status))
               /\ asker'[q].op = "tell" /\ turn'[t] \in Replies => turn'[t] = asker'[q].status
    <3>1. asker'[q] = asker[q] /\ AnswersFor(asker[q], t)
      BY <2>2, <2>8
    <3>2. turn[t] # "none"
      BY <3>1 DEF AnswersFor, HeardInv, Answered
    <3>3. turn'[t] \in ConfirmationStates => turn'[t] = turn[t]
      BY <2>5, <3>2
    <3> QED BY <2>1, <2>6, <3>1, <3>3 DEF AnswerIsTold
  <2>9. \A c \in creating' : ReplyOn(c, t) /\ turn'[t] \in Replies => turn'[t] = c.topic.reply
    BY <2>1, <2>3, <2>6 DEF AnswerIsTold
  <2>10. \/ turn'[t] \in Replies => lastWord'[t] = turn'[t]
         \/ \E q \in Askers : asker'[q].op = "tell" /\ asker'[q].turn = t
         \/ \E c \in creating' : ReplyOn(c, t)
    <3>1. CASE turn[t] \in Replies => lastWord[t] = turn[t]
      BY <2>1, <2>6, <3>1
    <3>2. ASSUME NEW q \in Askers, asker[q].op = "tell", asker[q].turn = t
          PROVE  asker'[q].op = "tell" /\ asker'[q].turn = t
      BY <3>2 DEF GivesUp
    <3>3. CASE \E c \in creating : ReplyOn(c, t)
      BY <2>4, <3>3
    <3> QED BY <2>1, <3>1, <3>2, <3>3 DEF AnswerIsTold
  <2> QED BY <2>7, <2>8, <2>9, <2>10 DEF AnswerIsTold
<1> QED BY <1>1, <1>2, <1>3 DEF HeardInv

LEMMA HeardCreate ==
  ASSUME HeardInv, NoticesShape', NEW c \in creating, createNotification(c)
  PROVE  HeardInv'
<1>1. asker' = asker /\ turn' = turn /\ creating' = creating \ {c}
  BY DEF createNotification
<1>2. c.topic.about = "resp" => c.topic.of \in Turns
  BY RowShape DEF HeardInv
<1>3. CASE c.topic.about # "resp" \/ ~KeyIsFree(c.topic)
  BY <1>1, <1>3, HeardKept DEF createNotification
<1>4. CASE c.topic.about = "resp" /\ KeyIsFree(c.topic)
  <2>1. excused' = excused /\ lastWord' = [lastWord EXCEPT ![c.topic.of] = c.topic.reply]
    BY <1>4 DEF createNotification
  <2>2. Awaited' /\ Answered'
    BY <1>1 DEF HeardInv, Awaited, Answered
  <2>3. ASSUME NEW t \in Turns \ excused' PROVE OneAnswer(t)' /\ AnswerIsTold(t)'
    <3>1. t \in Turns \ excused /\ OneAnswer(t) /\ AnswerIsTold(t)
      BY <2>1 DEF HeardInv
    <3>2. OneAnswer(t)'
      BY <1>1, <3>1 DEF OneAnswer
    <3>3. lastWord'[t] = IF t = c.topic.of THEN c.topic.reply ELSE lastWord[t]
      BY <2>1 DEF HeardInv, NoticesShape, Tables
    <3>4. CASE t = c.topic.of
      <4>1. turn'[t] \in Replies => lastWord'[t] = turn'[t]
        BY <1>1, <1>4, <3>1, <3>3, <3>4 DEF AnswerIsTold, ReplyOn
      <4> QED BY <1>1, <3>1, <3>2, <4>1 DEF AnswerIsTold
    <3>5. CASE t # c.topic.of
      <4>1. \A d \in creating : ReplyOn(d, t) => d \in creating'
        BY <1>1, <3>5 DEF ReplyOn
      <4> QED BY <1>1, <3>1, <3>2, <3>3, <3>5, <4>1 DEF AnswerIsTold
    <3> QED BY <3>4, <3>5
  <2> QED BY <2>2, <2>3 DEF HeardInv
<1> QED BY <1>3, <1>4

LEMMA HeardConfirm ==
  ASSUME HeardInv, NoticesShape', NEW q \in Askers, NEW s \in Turns, NEW status \in ConfirmationStates, NEW actor \in Users,
         confirmar(q, s, status, actor)
  PROVE  HeardInv'
<1> DEFINE a == [op |-> "answer", turn |-> s, status |-> status, actor |-> actor, tell |-> ShouldTellLeaders(turn[s], status)]
<1>1. /\ creating' = creating /\ turn' = turn /\ lastWord' = lastWord /\ turn[s] \in ConfirmationStates
      /\ excused' = IF BeingAnswered(s) THEN excused \cup {s} ELSE excused
      /\ asker[q] = NoAsk /\ asker' = [asker EXCEPT ![q] = a]
  BY DEF confirmar
<1>2. \A p \in Askers : asker'[p] = IF p = q THEN a ELSE asker[p]
  BY <1>1 DEF HeardInv, NoticesShape, Asked
<1>3. /\ a.op = "answer" /\ a.turn = s /\ a.status = status /\ a.tell = ShouldTellLeaders(turn[s], status)
      /\ asker[q].op = "idle"
  BY <1>1 DEF NoAsk
<1> HIDE DEF a
<1>4. Awaited'
  BY <1>1, <1>2, <1>3 DEF HeardInv, Awaited
<1>5. Answered'
  BY <1>1, <1>2, <1>3, StatesDiffer DEF HeardInv, Answered
<1>6. ASSUME NEW t \in Turns \ excused' PROVE OneAnswer(t)' /\ AnswerIsTold(t)'
  <2>1. t \in Turns \ excused /\ OneAnswer(t) /\ AnswerIsTold(t)
    BY <1>1 DEF HeardInv
  <2>2. t = s => /\ \A p \in Askers : ~AnswersFor(asker[p], t)
                 /\ \A c \in creating : ~ReplyOn(c, t)
    BY <1>1 DEF BeingAnswered, AnswersFor, ReplyOn
  <2>3. \A p \in Askers : AnswersFor(asker'[p], t) => \/ asker'[p] = asker[p] /\ p # q
                                                      \/ p = q /\ asker'[p] = a /\ t = s
    BY <1>2, <1>3 DEF AnswersFor
  <2>4. OneAnswer(t)'
    BY <1>1, <2>1, <2>2, <2>3 DEF OneAnswer
  <2>5. \A p \in Askers : asker[p].op = "tell" /\ asker[p].turn = t => asker'[p] = asker[p]
    BY <1>2, <1>3
  <2>6. ASSUME NEW p \in Askers, AnswersFor(asker'[p], t)
        PROVE  /\ asker'[p].op = "answer" /\ turn'[t] \in ConfirmationStates =>
                    (asker'[p].tell <=> ShouldTellLeaders(turn'[t], asker'[p].status))
               /\ asker'[p].op = "tell" /\ turn'[t] \in Replies => turn'[t] = asker'[p].status
    BY <1>1, <1>3, <2>1, <2>3, <2>6 DEF AnswerIsTold
  <2> QED BY <1>1, <2>1, <2>4, <2>5, <2>6 DEF AnswerIsTold
<1> QED BY <1>4, <1>5, <1>6 DEF HeardInv

LEMMA HeardAnswer ==
  ASSUME HeardInv, NoticesShape', NEW q \in Askers, writeAnswer(q)
  PROVE  HeardInv'
<1> DEFINE a == asker[q]
           s == a.turn
           b == IF a.tell THEN [a EXCEPT !.op = "tell"] ELSE NoAsk
<1>1. a \in Answering /\ a.op = "answer" /\ Telling(a)
  BY AskPerOp DEF writeAnswer, HeardInv, NoticesShape, Asked
<1>2. s \in Turns /\ a.status \in ConfirmationStates
  BY <1>1 DEF Answering
<1>3. UNCHANGED <<creating, excused, lastWord>>
  BY DEF writeAnswer
<1>4. \A c \in creating : c.topic.about = "resp" => c.by # q
  BY <1>1 DEF HeardInv, Awaited
<1>5. CASE turn[s] \notin ConfirmationStates
  <2>1. turn' = turn /\ \A p \in Askers : asker'[p] = IF p = q THEN NoAsk ELSE asker[p]
    BY <1>5 DEF writeAnswer, HeardInv, NoticesShape, Asked
  <2>2. GivesUp(q)
    BY <1>1, <1>3, <1>4, <2>1 DEF GivesUp, NoAsk
  <2> QED BY <1>3, <2>1, <2>2, HeardKept
<1>6. CASE turn[s] \in ConfirmationStates
  <2>1. turn' = [turn EXCEPT ![s] = a.status] /\ asker' = [asker EXCEPT ![q] = b]
    BY <1>6 DEF writeAnswer
  <2>2. /\ \A p \in Askers : asker'[p] = IF p = q THEN b ELSE asker[p]
        /\ \A t \in Turns : turn'[t] = IF t = s THEN a.status ELSE turn[t]
    BY <2>1 DEF HeardInv, NoticesShape, Asked, Tables
  <2>3. IF a.tell THEN b.op = "tell" /\ b.turn = s /\ b.status = a.status ELSE b.op = "idle"
    BY <1>1 DEF Answering, NoAsk
  <2>4. a.tell => a.status \in Replies
    BY <1>1 DEF Telling
  <2> HIDE DEF b
  <2>5. Awaited'
    BY <1>3, <1>4, <2>2 DEF HeardInv, Awaited
  <2>6. Answered'
    <3> SUFFICES ASSUME NEW p \in Askers, asker'[p].op \in {"answer", "tell"} PROVE turn'[asker'[p].turn] # "none"
      BY DEF Answered
    <3>1. CASE p = q
      BY <1>2, <2>2, <2>3, <3>1, StatesDiffer
    <3>2. CASE p # q
      <4>1. asker'[p] = asker[p] /\ turn[asker[p].turn] # "none" /\ asker[p].turn \in Turns
        BY <2>2, <3>2, AskPerOp DEF HeardInv, Answered, NoticesShape, Asked, Answering
      <4> QED BY <1>2, <2>2, <4>1, StatesDiffer
    <3> QED BY <3>1, <3>2
  <2>7. ASSUME NEW t \in Turns \ excused' PROVE OneAnswer(t)' /\ AnswerIsTold(t)'
    <3>1. t \in Turns \ excused /\ OneAnswer(t) /\ AnswerIsTold(t)
      BY <1>3 DEF HeardInv
    <3>2. AnswersFor(a, s)
      BY <1>1 DEF AnswersFor
    <3>3. \A p \in Askers : AnswersFor(asker'[p], t) => AnswersFor(asker[p], t) /\ (p = q => t = s /\ a.tell /\ asker'[p] = b)
      BY <2>2, <2>3, <3>2 DEF AnswersFor
    <3>4. OneAnswer(t)'
      BY <1>3, <3>1, <3>3 DEF OneAnswer
    <3>5. CASE t # s
      <4>1. turn'[t] = turn[t] /\ \A p \in Askers : AnswersFor(asker[p], t) => p # q /\ asker'[p] = asker[p]
        BY <2>2, <3>2, <3>5 DEF AnswersFor
      <4>2. \A p \in Askers : AnswersFor(asker'[p], t) => asker'[p] = asker[p]
        BY <2>2, <3>3, <3>5
      <4>3. \A p \in Askers : asker[p].op = "tell" /\ asker[p].turn = t => asker'[p] = asker[p]
        BY <4>1 DEF AnswersFor
      <4> QED BY <1>3, <3>1, <3>4, <4>1, <4>2, <4>3 DEF AnswerIsTold
    <3>6. CASE t = s
      <4>1. \A c \in creating : ~ReplyOn(c, t)
        BY <3>1, <3>2, <3>6 DEF OneAnswer
      <4>2. \A p \in Askers : AnswersFor(asker[p], t) => p = q
        BY <3>1, <3>2, <3>6 DEF OneAnswer
      <4>3. \A p \in Askers : AnswersFor(asker'[p], t) => asker'[p].op = "tell" /\ asker'[p].status = turn'[t]
        BY <2>2, <2>3, <3>3, <3>6, <4>2
      <4>4. CASE a.tell
        <5>1. asker'[q].op = "tell" /\ asker'[q].turn = t
          BY <2>2, <2>3, <3>6, <4>4
        <5> QED BY <1>3, <3>4, <4>1, <4>3, <5>1 DEF AnswerIsTold
      <4>5. CASE ~a.tell
        <5>1. ~ShouldTellLeaders(turn[t], a.status)
          BY <1>1, <1>6, <3>1, <3>2, <3>6, <4>5 DEF AnswerIsTold
        <5>2. turn[t] \in Replies => lastWord[t] = turn[t]
          BY <1>1, <3>1, <4>1, <4>2 DEF AnswerIsTold, AnswersFor
        <5>3. turn'[t] \in Replies => lastWord'[t] = turn'[t]
          BY <1>3, <2>2, <3>6, <5>1, <5>2 DEF ShouldTellLeaders
        <5> QED BY <1>3, <3>4, <4>1, <4>3, <5>3 DEF AnswerIsTold
      <4> QED BY <4>4, <4>5
    <3> QED BY <3>5, <3>6
  <2> QED BY <2>5, <2>6, <2>7 DEF HeardInv
<1> QED BY <1>5, <1>6

LEMMA HeardTell ==
  ASSUME HeardInv, NoticesShape', NEW q \in Askers, tellLeaders(q)
  PROVE  HeardInv'
<1> DEFINE a == asker[q]
           s == a.turn
           topic == AnswerTopic(s, a.status, clock.minute)
           chiefs == Chiefs \ (absent \cup {a.actor})
           c == Creation(q, topic, chiefs)
           Tells == chiefs # {} /\ ~AlreadyTold(topic)
<1>1. a \in Answering /\ a.op = "tell" /\ AnswersFor(a, s)
  BY AskPerOp DEF tellLeaders, HeardInv, NoticesShape, Asked, AnswersFor
<1>2. s \in Turns
  BY <1>1 DEF Answering
<1>3. turn' = turn /\ lastWord' = lastWord /\ asker' = [asker EXCEPT ![q] = [op |-> "await"]]
  BY DEF tellLeaders
<1>4. excused' = IF Tells THEN excused ELSE excused \cup {s}
  BY DEF tellLeaders
<1>5. creating' = IF Tells THEN creating \cup {c} ELSE creating
  <2>1. ASSUME NEW u, NEW v PROVE Creations(q, {<<u, v>>}) = IF AlreadyTold(u) THEN {} ELSE {Creation(q, u, v)}
    <3>1. <<u, v>>[1] = u /\ <<u, v>>[2] = v
      OBVIOUS
    <3> QED BY <3>1 DEF Creations
  <2>2. creating' = IF chiefs = {} THEN creating ELSE creating \cup Creations(q, {<<topic, chiefs>>})
    BY DEF tellLeaders
  <2> HIDE DEF topic, chiefs
  <2> QED BY <2>1, <2>2
<1>6. c.by = q /\ ReplyOn(c, s) /\ c.topic.reply = a.status /\ c.topic.about = "resp" /\ c.topic.of = s
  BY DEF Creation, AnswerTopic, ReplyOn
<1>7. \A p \in Askers : asker'[p] = IF p = q THEN [op |-> "await"] ELSE asker[p]
  BY <1>3 DEF HeardInv, NoticesShape, Asked
<1> HIDE DEF c, Tells, topic
<1>8. Awaited'
  BY <1>1, <1>5, <1>6, <1>7 DEF HeardInv, Awaited
<1>9. Answered'
  BY <1>3, <1>7 DEF HeardInv, Answered
<1>10. ASSUME NEW t \in Turns \ excused' PROVE OneAnswer(t)' /\ AnswerIsTold(t)'
  <2>1. t \in Turns \ excused /\ OneAnswer(t) /\ AnswerIsTold(t)
    BY <1>4 DEF HeardInv
  <2>2. \A p \in Askers : AnswersFor(asker'[p], t) => p # q /\ asker'[p] = asker[p]
    BY <1>7 DEF AnswersFor
  <2>3. CASE t # s
    <3>1. \A d \in creating' : ReplyOn(d, t) => d \in creating
      BY <1>5, <1>6, <2>3 DEF ReplyOn
    <3>2. creating \subseteq creating'
      BY <1>5
    <3>3. \A p \in Askers : asker[p].op = "tell" /\ asker[p].turn = t => asker'[p] = asker[p]
      BY <1>7, <2>3
    <3>4. OneAnswer(t)'
      BY <2>1, <2>2, <3>1 DEF OneAnswer
    <3> QED BY <1>3, <2>1, <2>2, <3>1, <3>2, <3>3, <3>4 DEF AnswerIsTold
  <2>4. CASE t = s
    <3>1. Tells /\ creating' = creating \cup {c}
      BY <1>4, <1>5, <2>4
    <3>2. \A d \in creating : ~ReplyOn(d, t)
      BY <1>1, <2>1, <2>4 DEF OneAnswer
    <3>3. \A p \in Askers : ~AnswersFor(asker'[p], t)
      BY <1>1, <2>1, <2>2, <2>4 DEF OneAnswer
    <3>4. OneAnswer(t)'
      BY <3>1, <3>2, <3>3 DEF OneAnswer
    <3>5. turn[t] \in Replies => turn[t] = c.topic.reply
      BY <1>1, <1>6, <2>1, <2>4 DEF AnswerIsTold
    <3> QED BY <1>3, <1>6, <2>4, <3>1, <3>2, <3>3, <3>4, <3>5 DEF AnswerIsTold
  <2> QED BY <2>3, <2>4
<1> QED BY <1>8, <1>9, <1>10 DEF HeardInv

\* Everything else.
LEMMA HeardQuiet ==
  ASSUME HeardInv, NoticesShape', UNCHANGED <<turn, asker, lastWord, excused>>,
         \A c \in creating \cup creating' : c.topic.about = "resp" => c \in creating \cap creating'
  PROVE  HeardInv'
BY HeardKept

LEMMA HeardJobs ==
  ASSUME HeardInv, NoticesShape', NEW h \in Hosts,
         \/ \E k \in JobKinds : startJob(h, k)
         \/ \E x \in Turns \cup Celebrants \cup {"everyone"} : visit(h, x)
         \/ endJob(h) \/ hostStops(h)
  PROVE  HeardInv'
<1>1. CASE (\E k \in JobKinds : startJob(h, k)) \/ endJob(h)
  BY <1>1, HeardQuiet DEF startJob, endJob
<1>2. ASSUME NEW x, visit(h, x) PROVE HeardInv'
  <2>1. job[h] \in Running /\ CallFor(job[h], x)[1].about # "resp"
    BY <1>2, Visited DEF HeardInv, CallFor, Topic, Running, JobKinds
  <2>2. \A c \in Creations(h, {CallFor(job[h], x)}) : c.topic.about # "resp"
    BY <2>1 DEF Creations, Creation
  <2> QED BY <1>2, <2>2, HeardQuiet DEF visit
<1>3. CASE hostStops(h)
  <2>1. \A c \in creating : c.topic.about = "resp" => c \notin InFlight(h)
    BY NoticesAssumption DEF InFlight, HeardInv, Awaited
  <2> QED BY <1>3, <2>1, HeardQuiet DEF hostStops
<1> QED BY <1>1, <1>2, <1>3

LEMMA HeardAsks ==
  ASSUME HeardInv, NoticesShape', NEW q \in Askers,
         \/ \E status \in ProgramStates : updateProgram(q, status)
         \/ writeProgram(q) \/ notifyEscalaPublished(q) \/ requestEnds(q) \/ requestCutOff(q)
  PROVE  HeardInv'
<1>1. \A p \in Askers : p # q => asker'[p] = asker[p]
  BY DEF updateProgram, writeProgram, notifyEscalaPublished, requestEnds, requestCutOff, HeardInv, NoticesShape, Asked
<1>2. asker[q].op # "await" => \A c \in creating : c.topic.about = "resp" => c.by # q
  BY DEF HeardInv, Awaited
<1>3. turn' = turn /\ lastWord' = lastWord
  BY DEF updateProgram, writeProgram, notifyEscalaPublished, requestEnds, requestCutOff
<1>4. CASE (\E status \in ProgramStates : updateProgram(q, status)) \/ writeProgram(q)
  <2>1. asker[q].op \in {"idle", "update"} /\ asker'[q].op \in {"idle", "update", "announce"} /\ UNCHANGED <<creating, excused>>
    BY <1>4 DEF updateProgram, writeProgram, NoAsk, HeardInv, NoticesShape, Asked
  <2>2. GivesUp(q)
    BY <1>2, <2>1 DEF GivesUp
  <2> QED BY <1>1, <1>3, <2>1, <2>2, HeardKept
<1>5. CASE notifyEscalaPublished(q)
  <2> DEFINE people == IF program.status = "PUBLICADA"
                       THEN {Holder[t] : t \in {s \in Turns : turn[s] \in ConfirmationStates}} \ absent ELSE {}
             new == Creations(q, {<<Topic("published", u), {u}>> : u \in people})
  <2>1. \A c \in new : c.topic.about # "resp"
    BY DEF Creations, Creation, Topic
  <2>2. creating' = creating \cup new /\ excused' = excused
    BY <1>5 DEF notifyEscalaPublished
  <2>3. asker[q].op = "announce" /\ asker'[q].op = "await"
    BY <1>5 DEF notifyEscalaPublished, HeardInv, NoticesShape, Asked
  <2> HIDE DEF new
  <2>4. GivesUp(q)
    BY <1>2, <2>1, <2>2, <2>3 DEF GivesUp
  <2> QED BY <1>1, <1>3, <2>1, <2>2, <2>4, HeardKept
<1>6. CASE requestEnds(q)
  <2>1. asker[q].op = "await" /\ asker'[q].op = "idle" /\ UNCHANGED <<creating, excused>> /\ InFlight(q) = {}
    BY <1>6 DEF requestEnds, NoAsk, HeardInv, NoticesShape, Asked
  <2>2. GivesUp(q)
    BY <2>1 DEF GivesUp, InFlight
  <2> QED BY <1>1, <1>3, <2>1, <2>2, HeardKept
<1>7. CASE requestCutOff(q)
  <2>1. asker'[q].op = "idle" /\ creating' = creating \ InFlight(q) /\ excused \subseteq excused'
    BY <1>7 DEF requestCutOff, NoAsk, HeardInv, NoticesShape, Asked
  <2>2. \A c \in InFlight(q) : c.topic.about = "resp" => c.topic.of \in excused'
    BY <1>7 DEF requestCutOff
  <2>3. asker[q].op = "tell" => asker[q].turn \in excused'
    BY <1>7 DEF requestCutOff
  <2>4. GivesUp(q)
    BY <2>1, <2>3 DEF GivesUp, InFlight
  <2> QED BY <1>1, <1>3, <2>1, <2>2, <2>4, HeardKept DEF InFlight
<1> QED BY <1>4, <1>5, <1>6, <1>7

LEMMA HeardOthers ==
  ASSUME HeardInv, NoticesShape',
         \/ \E t \in Turns : addTurn(t) \/ removeTurn(t) \/ \E status \in ConfirmationStates : updateItemStatus(t, status)
         \/ \E c \in creating : createFails(c)
         \/ editNotes \/ removeProgram
         \/ \E u \in Restless : switchUser(u) \/ \E p \in {"notifySchedules", "notifyBirthdays"} : updateUserPreferences(u, p)
         \/ \E rule \in Switchable : updateRules(rule)
         \/ \E phase \in DOMAIN Phases : tick(phase)
  PROVE  HeardInv'
<1>1. ASSUME NEW s \in Turns, addTurn(s) \/ removeTurn(s) PROVE HeardInv'
  <2>1. \A t \in Turns : \/ turn'[t] = turn[t] \/ turn'[t] = "gone"
                         \/ turn[t] = "none" /\ turn'[t] = "PENDENTE"
    BY <1>1 DEF addTurn, removeTurn, HeardInv, NoticesShape, Tables
  <2> QED BY <1>1, <2>1, HeardKept DEF addTurn, removeTurn
<1>2. ASSUME NEW s \in Turns, NEW status \in ConfirmationStates, updateItemStatus(s, status) PROVE HeardInv'
  <2>1. \A t \in Turns : turn'[t] = IF t = s THEN status ELSE turn[t]
    BY <1>2 DEF updateItemStatus, HeardInv, NoticesShape, Tables
  <2> QED BY <1>2, <2>1, StatesDiffer, HeardKept DEF updateItemStatus
<1>3. ASSUME NEW c \in creating, createFails(c) PROVE HeardInv'
  BY <1>3, HeardKept DEF createFails
<1>4. CASE removeProgram
  <2>1. \A t \in Turns : turn'[t] = "gone"
    BY <1>4 DEF removeProgram
  <2> QED BY <1>4, <2>1, HeardKept DEF removeProgram
<1>5. CASE \/ editNotes
           \/ \E u \in Restless : switchUser(u) \/ \E p \in {"notifySchedules", "notifyBirthdays"} : updateUserPreferences(u, p)
           \/ \E rule \in Switchable : updateRules(rule)
           \/ \E phase \in DOMAIN Phases : tick(phase)
  BY <1>5, HeardQuiet DEF editNotes, switchUser, updateUserPreferences, updateRules, tick
<1> QED BY <1>1, <1>2, <1>3, <1>4, <1>5

\* The last the leaders were told of a turn is its answer, however requests,
\* failures and edits are interleaved, but for the named cases (confirmar,
\* notifyLeadershipAboutConfirmationResponse).
THEOREM LeadersHear == NoticesSpec => []LeadersHearTheAnswer
<1>1. NoticesInit => HeardInv
  <2> SUFFICES ASSUME NoticesInit PROVE HeardInv
    OBVIOUS
  <2>1. \A q \in Askers : asker[q].op = "idle"
    BY DEF NoticesInit, NoAsk
  <2>2. creating = {} /\ \A t \in Turns : turn[t] \notin Replies
    BY DEF NoticesInit, Replies
  <2> QED BY <2>1, <2>2, NoticesShapeAtFirst DEF HeardInv, Awaited, Answered, OneAnswer, AnswerIsTold, AnswersFor
<1>2. HeardInv /\ [NoticesNext]_noticeVars => HeardInv'
  <2> SUFFICES ASSUME HeardInv, [NoticesNext]_noticeVars PROVE HeardInv'
    OBVIOUS
  <2>1. NoticesShape'
    BY NoticesShapeStep DEF HeardInv
  <2>2. CASE NoticesNext
    <3>1. NoticeSteps
      BY <2>2 DEF NoticesNext
    <3> QED BY <2>1, <3>1, HeardCreate, HeardConfirm, HeardAnswer, HeardTell, HeardJobs, HeardAsks, HeardOthers DEF NoticeSteps
  <2>3. CASE UNCHANGED noticeVars
    BY <2>1, <2>3, HeardQuiet DEF noticeVars
  <2> QED BY <2>2, <2>3
<1>3. HeardInv => LeadersHearTheAnswer
  <2> SUFFICES ASSUME HeardInv, NEW t \in Turns \ excused, \A q \in Askers : asker[q] = NoAsk, turn[t] \in Replies
               PROVE  lastWord[t] = turn[t]
    BY DEF LeadersHearTheAnswer
  <2>1. \A q \in Askers : asker[q].op = "idle"
    BY DEF NoAsk
  <2> QED BY <2>1 DEF HeardInv, Awaited, AnswerIsTold, ReplyOn
<1> QED BY <1>1, <1>2, <1>3, PTL DEF NoticesSpec

-----------------------------------------------------------------------------
\* The parts together.

\* A behaviour of the whole is a behaviour of each of its parts, so what is
\* proved of a part holds in the whole that the runs check (BackOffice).
THEOREM EachPartIsItself ==
  BackOfficeSpec => /\ PermissionsSpec /\ LedgerSpec /\ MediaSpec /\ RegistrySpec
                    /\ MembershipsSpec /\ NeedsSpec /\ CacheSpec /\ NoticesSpec
<1>1. BackOfficeInit => /\ PermissionsInit /\ LedgerInit /\ MediaInit /\ RegistryInit
                        /\ MembershipsInit /\ NeedsInit /\ CacheInit /\ NoticesInit
  BY DEF BackOfficeInit
<1>2. [BackOfficeNext]_backOfficeVars =>
        /\ [PermissionsNext]_permissionVars /\ [LedgerNext]_ledgerVars /\ [MediaNext]_mediaVars /\ [RegistryNext]_registryVars
        /\ [MembershipsNext]_membershipVars /\ [NeedsNext]_needVars /\ [CacheNext]_cacheVars /\ [NoticesNext]_noticeVars
  BY DEF BackOfficeNext, backOfficeVars
<1> QED BY <1>1, <1>2, PTL DEF BackOfficeSpec, PermissionsSpec, LedgerSpec, MediaSpec, RegistrySpec,
                             MembershipsSpec, NeedsSpec, CacheSpec, NoticesSpec
=============================================================================
