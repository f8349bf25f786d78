------------------------- MODULE EventReminderProofs -------------------------
(***************************************************************************)
(* That the reminder of an event follows it, for any number of requests    *)
(* and dates: what three invariants of EventReminder say of a quiet moment *)
(* is made inductive by saying what is still owed while a request is under *)
(* way, and by whom.                                                       *)
(*                                                                         *)
(* While a race or a loss is still to be mended, little is true: a rule    *)
(* that was never switched off is on wherever a reminder is about to be    *)
(* scheduled, and only a recall cancels.  Once it is mended one request at *)
(* most is under way, the event it has read is the one stored, and it is   *)
(* the one that cancels, schedules or moves what is left, and the lead and *)
(* the date it has in hand are by a lead had since it read the rule.       *)
(***************************************************************************)
EXTENDS EventReminder, TLAPS

Ops == {"idle", "write", "rule", "find", "reschedule", "writeReschedule", "schedule", "lookup",
        "insert", "findToCancel", "cancel", "writeCancel", "delete"}
RequestType == [op : Ops, of : {"none", "create", "update", "remove"}, ev : Events \cup {None},
                lead : Leads \cup {0}, at : Int]

\* What holds of a request whatever raced.
RawOK(r) ==
    /\ r.op = "idle" => r = Idle
    /\ r # Idle => r.ev \in Events
    /\ ~recalled =>
         /\ r.op \notin {"cancel", "writeCancel", "delete"} /\ r.of # "remove"
         /\ r.op = "findToCancel" => ~rule.ativo
         /\ r.op \in {"find", "reschedule", "writeReschedule", "lookup", "insert"} => rule.ativo

\* What holds of one that nobody disturbs.
CalmOK(r) ==
    mended # "no" /\ r # Idle =>
        /\ Stored /\ r.ev = event
        /\ r.op \in {"rule", "find", "reschedule", "writeReschedule", "lookup", "insert"} => event.status # "CANCELADO"
        /\ r.op \in {"schedule", "lookup", "insert"} => note.status = "absent"
        /\ r.op = "delete" => note.status # "SCHEDULED"
        /\ r.op = "find" => r.lead \in leads
        /\ r.op \in {"reschedule", "writeReschedule", "lookup", "insert"} => IsGood(r.at)

RequestsOK == \A q \in Requests : RawOK(request[q]) /\ CalmOK(request[q])
OneAtATime == mended # "no" => \A p, q \in Requests : request[p] # Idle /\ request[q] # Idle => p = q

\* Before the event there is nothing; a reminder that ended was sent, and one
\* that was cancelled was recalled.
NotesOK ==
    /\ event = None => Quiet /\ mended = "yes" /\ note.status = "absent"
    /\ note.status \in {"COMPLETED", "FAILED"} => sent
    /\ ~recalled => note.status # "CANCELED" /\ (~rule.ativo => note.status = "absent")

AtOne(ops) == \E q \in Requests : request[q].op \in ops

\* What is owed, and where the request is that will do it.
IsAfoul == note.status = "SCHEDULED" /\ (event = Deleted \/ event.status = "CANCELADO")
IsOwed == ~recalled /\ Stored /\ Eligible(event) /\ event.start > now /\ rule.ativo /\ note.status = "absent"
IsOff == ~recalled /\ ~sent /\ Stored /\ note.status # "absent" /\ ~(note.status = "SCHEDULED" /\ IsGood(note.at))

Ending == {"write", "findToCancel", "cancel", "writeCancel"}
Scheduling == {"rule", "find", "schedule", "lookup", "insert"}
Moving == {"rule", "find", "reschedule", "writeReschedule"}

DebtsOK ==
    /\ mended # "no" /\ IsAfoul => AtOne(Ending)
    /\ mended = "yes" /\ IsOwed => AtOne(Scheduling)
    /\ mended = "yes" /\ IsOff => AtOne(Moving)

IInv == TypeOK /\ RequestsOK /\ OneAtATime /\ NotesOK /\ DebtsOK

-----------------------------------------------------------------------------
\* The records.

LEMMA EventIs ==
    ASSUME NEW ev \in Events
    PROVE  /\ ev.tipo \in Tipos /\ ev.start \in Starts /\ ev.start \in Int /\ ev.status \in Status
           /\ ev # None /\ ev # Deleted /\ ev = [tipo |-> ev.tipo, start |-> ev.start, status |-> ev.status]
  BY ReminderAssumption DEF Events, None, Deleted

LEMMA NonesAre == None # Deleted /\ None \notin Events /\ Deleted \notin Events /\ None.start = 0 /\ Deleted.start = 0
  BY EventIs DEF None, Deleted

LEMMA IdleIs == Idle \in RequestType /\ Idle.op = "idle"
  BY DEF Idle, RequestType, Ops

LEMMA RequestsAre == TypeOK => request \in [Requests -> RequestType]
  BY DEF TypeOK, RequestType, Ops

\* What one statement makes of a request.
LEMMA GoesOn ==
    ASSUME NEW r \in RequestType, NEW op \in Ops
    PROVE  /\ [r EXCEPT !.op = op] \in RequestType
           /\ [r EXCEPT !.op = op].op = op /\ [r EXCEPT !.op = op].of = r.of
           /\ [r EXCEPT !.op = op].ev = r.ev /\ [r EXCEPT !.op = op].at = r.at
           /\ [r EXCEPT !.op = op].lead = r.lead
  BY DEF RequestType

\* A reminder's date is good when it is computed.
LEMMA DateIsGood ==
    ASSUME TypeOK, Stored, NEW lead \in leads
    PROVE  ReminderDate(event, lead) \in Int /\ IsGood(ReminderDate(event, lead))
<1>1. event.start \in Int /\ now \in Int /\ lead \in Int
      BY EventIs, ReminderAssumption DEF TypeOK, Stored
<1> DEFINE date == event.start - lead
           at == ReminderDate(event, lead)
<1>2. date \in Int /\ at = IF date < now THEN now ELSE date
      BY <1>1 DEF ReminderDate
<1>3. at \in Int /\ (at = date \/ (at > date /\ at <= now))
      BY <1>1, <1>2
<1> QED BY <1>3 DEF IsGood

\* The only request that is under way is where anything is done.
LEMMA AtTheOne ==
    ASSUME IInv, mended # "no", NEW q \in Requests, request[q] # Idle, NEW ops, "idle" \notin ops
    PROVE  AtOne(ops) <=> request[q].op \in ops
<1>1. ASSUME NEW p \in Requests, request[p].op \in ops PROVE p = q
      BY <1>1, IdleIs DEF IInv, OneAtATime
<1> QED BY <1>1 DEF AtOne

\* The debts of a quiet moment.
LEMMA QuietOwesNothing ==
    ASSUME IInv, Quiet
    PROVE  /\ mended # "no" => ~IsAfoul
           /\ mended = "yes" => ~IsOwed /\ ~IsOff
  BY IdleIs DEF IInv, Quiet, DebtsOK, AtOne, Ending, Scheduling, Moving

-----------------------------------------------------------------------------
LEMMA Initially == Init => IInv
<1> SUFFICES ASSUME Init PROVE IInv
    OBVIOUS
<1> USE ReminderAssumption
<1>1. TypeOK
  <2>1. request \in [Requests -> RequestType]
        BY IdleIs DEF Init
  <2>2. note \in [status : NoteStatus, at : Int]
        BY DEF Init, NoNote, NoteStatus
  <2>3. updates \in 0..MaxUpdates /\ lost \in 0..MaxLosses /\ now \in 0..MaxNow /\ changes \in 0..MaxChanges
        BY DEF Init
  <2>4. leads \subseteq Leads
        BY DEF Init, Rules
  <2> QED BY <2>1, <2>2, <2>3, <2>4 DEF Init, TypeOK, RequestType, Ops
<1>2. RequestsOK /\ OneAtATime
      BY DEF Init, RequestsOK, RawOK, CalmOK, OneAtATime, Idle
<1>3. NotesOK
      BY DEF Init, NotesOK, Quiet, NoNote
<1>4. DebtsOK
      BY NonesAre DEF Init, DebtsOK, IsAfoul, IsOwed, IsOff, Stored, NoNote
<1> QED BY <1>1, <1>2, <1>3, <1>4 DEF IInv

\* A statement that only takes its request further: it must not leave a debt
\* that was its own.
LEMMA Moves ==
    ASSUME IInv, NEW q \in Requests, request[q] # Idle, NEW r \in RequestType,
           request' = [request EXCEPT ![q] = r], RawOK(r), CalmOK(r),
           UNCHANGED <<now, event, rule, note, told, updates, lost, changes, history>>,
           mended # "no" /\ IsAfoul /\ request[q].op \in Ending => r.op \in Ending,
           mended = "yes" /\ IsOwed /\ request[q].op \in Scheduling => r.op \in Scheduling,
           mended = "yes" /\ IsOff /\ request[q].op \in Moving => r.op \in Moving
    PROVE  IInv'
<1>1. /\ request \in [Requests -> RequestType] /\ request' \in [Requests -> RequestType]
      /\ request'[q] = r /\ \A p \in Requests : p # q => request'[p] = request[p]
      BY RequestsAre DEF IInv
<1>2. UNCHANGED <<mended, recalled, leads, sent>>
      BY DEF history
<1>3. TypeOK'
      BY <1>1, <1>2 DEF IInv, TypeOK, RequestType, Ops
<1>4. ASSUME NEW p \in Requests PROVE (RawOK(request[p]) /\ CalmOK(request[p]))'
  <2>1. RawOK(request'[p]) /\ CalmOK(request'[p])
        BY <1>1 DEF IInv, RequestsOK
  <2> QED BY <1>2, <2>1 DEF RawOK, CalmOK, Stored, IsGood
<1>5. OneAtATime'
      BY <1>1, <1>2 DEF IInv, OneAtATime
<1>6. NotesOK'
      BY <1>1, <1>2 DEF IInv, NotesOK, Quiet
<1>7. /\ IsAfoul' = IsAfoul /\ IsOwed' = IsOwed /\ IsOff' = IsOff
      BY <1>2 DEF IsAfoul, IsOwed, IsOff, Stored, IsGood
<1>8. ASSUME mended # "no", NEW ops, "idle" \notin ops, AtOne(ops), request[q].op \in ops => r.op \in ops
      PROVE  AtOne(ops)'
      BY <1>1, <1>8, AtTheOne DEF AtOne
<1>9. DebtsOK'
  <2>1. mended # "no" /\ IsAfoul => AtOne(Ending)'
        BY <1>8 DEF IInv, DebtsOK, Ending, AtOne
  <2>2. mended = "yes" /\ IsOwed => AtOne(Scheduling)'
        BY <1>8 DEF IInv, DebtsOK, Scheduling, AtOne
  <2>3. mended = "yes" /\ IsOff => AtOne(Moving)'
        BY <1>8 DEF IInv, DebtsOK, Moving, AtOne
  <2> QED BY <1>2, <1>7, <2>1, <2>2, <2>3 DEF DebtsOK
<1> QED BY <1>3, <1>4, <1>5, <1>6, <1>9 DEF IInv, RequestsOK

\* A statement of a request that writes: the others stay where they were.
LEMMA OthersStay ==
    ASSUME IInv, NEW q \in Requests, request[q] # Idle, NEW r \in RequestType,
           request' = [request EXCEPT ![q] = r], rule' = rule, recalled => recalled', mended' # "no" => mended # "no",
           (RawOK(request[q]) /\ CalmOK(request[q]))'
    PROVE  RequestsOK' /\ OneAtATime' /\ request' \in [Requests -> RequestType]
<1>1. /\ request \in [Requests -> RequestType] /\ request' \in [Requests -> RequestType]
      /\ request'[q] = r /\ \A p \in Requests : p # q => request'[p] = request[p]
      BY RequestsAre DEF IInv
<1>2. ASSUME NEW p \in Requests, p # q PROVE (RawOK(request[p]) /\ CalmOK(request[p]))'
  <2>1. RawOK(request[p]) /\ request'[p] = request[p]
        BY <1>1, <1>2 DEF IInv, RequestsOK
  <2>2. mended' # "no" => request[p] = Idle
        BY <1>2 DEF IInv, OneAtATime
  <2> QED BY <2>1, <2>2 DEF RawOK, CalmOK
<1>3. OneAtATime'
      BY <1>1 DEF IInv, OneAtATime
<1> QED BY <1>1, <1>2, <1>3 DEF RequestsOK

\* What is left of TypeOK when a request changes what it will do, and the note.
LEMMA Typed ==
    ASSUME TypeOK, request' \in [Requests -> RequestType], note' \in [status : NoteStatus, at : Int],
           event' \in Events \cup {None, Deleted}, told' \in Starts \cup {0}, rule' \in Rules, now' \in 0..MaxNow,
           updates' \in 0..MaxUpdates, lost' \in 0..MaxLosses, changes' \in 0..MaxChanges, leads' \subseteq Leads,
           mended' \in {"no", "alone", "yes"}, recalled' \in BOOLEAN, sent' \in BOOLEAN
    PROVE  TypeOK'
  BY DEF TypeOK, RequestType, Ops

\* Its request ends, or nobody owes anything.
LEMMA Ended == RawOK(Idle) /\ CalmOK(Idle)
  BY DEF RawOK, CalmOK, Idle

LEMMA EndedThen == (\A q \in Requests : request[q] = Idle => RawOK(request[q]) /\ CalmOK(request[q]))'
  BY DEF RawOK, CalmOK, Idle

-----------------------------------------------------------------------------
\* The statements that write nothing.

\* What is known of a request that is under way.
LEMMA Known ==
    ASSUME IInv, NEW q \in Requests, request[q].op # "idle"
    PROVE  /\ request[q] \in RequestType /\ request[q] # Idle /\ RawOK(request[q]) /\ CalmOK(request[q])
           /\ request[q].ev \in Events
  BY RequestsAre, IdleIs DEF IInv, RequestsOK, RawOK

LEMMA IdleMoves ==
    ASSUME IInv, NEW q \in Requests, request[q] # Idle, End(q),
           UNCHANGED <<now, event, rule, note, told, updates, lost, changes, history>>,
           mended # "no" /\ request[q].op \in Ending => ~IsAfoul,
           mended = "yes" /\ request[q].op \in Scheduling => ~IsOwed,
           mended = "yes" /\ request[q].op \in Moving => ~IsOff
    PROVE  IInv'
  BY Moves, IdleIs, Ended DEF End

LEMMA StepUpdateThrows == ASSUME IInv, NEW q \in Requests, updateThrows(q) PROVE IInv'
<1>1. request[q].op = "write" /\ ~Stored
      BY DEF updateThrows
<1>2. mended = "no"
      BY <1>1, Known DEF CalmOK
<1> QED BY <1>1, <1>2, Known, IdleMoves DEF updateThrows

\* A request that reads the rule on its way to the reminder: whatever the
\* reminder's date is now, this request is the one to put it right.
LEMMA Looks ==
    ASSUME IInv, NEW q \in Requests, request[q] # Idle, request[q].op \notin Ending, NEW r \in RequestType,
           request' = [request EXCEPT ![q] = r], RawOK(r), CalmOK(request[q])',
           r.op \in Scheduling, r.op \in Moving \/ (mended # "no" => note.status = "absent"),
           leads' = {rule.lead}, UNCHANGED <<now, event, rule, note, told, updates, lost, changes, mended, recalled, sent>>
    PROVE  IInv'
<1>1. /\ request \in [Requests -> RequestType] /\ request' \in [Requests -> RequestType]
      /\ request'[q] = r /\ \A p \in Requests : p # q => request'[p] = request[p]
      BY RequestsAre DEF IInv
<1>2. (RawOK(request[q]) /\ CalmOK(request[q]))'
  <2>1. RawOK(request[q])'
        BY <1>1 DEF RawOK
  <2> QED BY <2>1
<1>3. RequestsOK' /\ OneAtATime'
      BY <1>2, OthersStay
<1>4. leads' \subseteq Leads
      BY DEF IInv, TypeOK, Rules
<1>5. TypeOK'
      BY <1>1, <1>4, Typed DEF IInv, TypeOK
<1>6. NotesOK'
      BY <1>1 DEF IInv, NotesOK, Quiet
<1>7. mended # "no" => ~IsAfoul
      BY AtTheOne DEF IInv, DebtsOK, Ending
<1>8. r.op \in Scheduling => AtOne(Scheduling)'
      BY <1>1 DEF AtOne
<1>9. r.op \in Moving => AtOne(Moving)'
      BY <1>1 DEF AtOne
<1>10. DebtsOK'
      BY <1>7, <1>8, <1>9 DEF DebtsOK, IsAfoul, IsOff
<1> QED BY <1>3, <1>5, <1>6, <1>10 DEF IInv

LEMMA StepReadRule == ASSUME IInv, NEW q \in Requests, readRule(q) PROVE IInv'
<1>1. request[q].op = "rule"
      BY DEF readRule
<1>2. request[q] \in RequestType
      BY <1>1, Known
<1>3. CASE rule.ativo
  <2> DEFINE r == [request[q] EXCEPT !.op = "find", !.lead = rule.lead]
  <2>1. /\ r \in RequestType /\ r.op = "find" /\ r.of = request[q].of /\ r.ev = request[q].ev
        /\ r.at = request[q].at /\ r.lead = rule.lead
    <3>1. "find" \in Ops /\ rule.lead \in Leads
          BY DEF Ops, IInv, TypeOK, Rules
    <3> QED BY <1>2, <3>1 DEF RequestType
  <2>2. request' = [request EXCEPT ![q] = r] /\ leads' = {rule.lead}
        BY <1>3 DEF readRule
  <2>3. UNCHANGED <<now, event, rule, note, told, updates, lost, changes, mended, recalled, sent>>
        BY DEF readRule
  <2> HIDE DEF r
  <2>4. RawOK(r)
        BY <1>1, <1>3, <2>1, Known DEF RawOK
  <2>5. CalmOK(request[q])'
    <3>1. request'[q] = r
          BY <2>2, RequestsAre DEF IInv
    <3>2. mended # "no" => Stored /\ request[q].ev = event /\ event.status # "CANCELADO"
          BY <1>1, Known DEF CalmOK
    <3>3. request'[q].op = "find" /\ request'[q].ev = request[q].ev /\ request'[q].lead \in leads'
          BY <2>1, <2>2, <3>1
    <3> QED BY <2>1, <2>3, <3>1, <3>2, <3>3 DEF CalmOK, Stored
  <2>6. r.op \in Scheduling /\ r.op \in Moving /\ request[q].op \notin Ending
        BY <1>1, <2>1 DEF Scheduling, Moving, Ending
  <2> QED BY <1>1, <2>1, <2>2, <2>3, <2>4, <2>5, <2>6, Known, Looks
<1>4. CASE ~rule.ativo
  <2> DEFINE r == [request[q] EXCEPT !.op = "findToCancel"]
  <2>1. r \in RequestType /\ r.op = "findToCancel" /\ r.of = request[q].of /\ r.ev = request[q].ev /\ r.at = request[q].at
        BY <1>2, GoesOn DEF Ops
  <2>2. request' = [request EXCEPT ![q] = r]
        BY <1>4 DEF readRule, Go
  <2>3. UNCHANGED <<now, event, rule, note, told, updates, lost, changes, history>>
        BY <1>4 DEF readRule, history
  <2> HIDE DEF r
  <2>4. RawOK(r)
        BY <1>1, <1>4, <2>1, Known DEF RawOK
  <2>5. CalmOK(r)
        BY <1>1, <2>1, Known DEF CalmOK
  <2>6. ~IsOff /\ ~IsOwed
        BY <1>4 DEF IsOff, IsOwed, IInv, NotesOK
  <2> QED BY <1>1, <2>1, <2>2, <2>3, <2>4, <2>5, <2>6, Known, Moves DEF Ending
<1> QED BY <1>3, <1>4

LEMMA StepFindReminder == ASSUME IInv, NEW q \in Requests, findReminder(q) PROVE IInv'
<1>1. request[q].op = "find"
      BY DEF findReminder, Found
<1>2. request[q] \in RequestType /\ request[q].ev \in Events
      BY <1>1, Known
<1>3. UNCHANGED <<now, event, rule, note, told, updates, lost, changes, history>>
      BY DEF findReminder, Found
<1>4. CASE note.status = "absent"
  <2> DEFINE r == [request[q] EXCEPT !.op = "schedule", !.lead = 0]
  <2>1. r \in RequestType /\ r.op = "schedule" /\ r.of = request[q].of /\ r.ev = request[q].ev /\ r.at = request[q].at
    <3>1. "schedule" \in Ops
          BY DEF Ops
    <3> QED BY <1>2, <3>1 DEF RequestType
  <2>2. request' = [request EXCEPT ![q] = r]
        BY <1>4 DEF findReminder, Found
  <2> HIDE DEF r
  <2>3. RawOK(r) /\ CalmOK(r)
        BY <1>1, <1>4, <2>1, Known DEF RawOK, CalmOK
  <2> QED BY <1>1, <1>3, <1>4, <2>1, <2>2, <2>3, Known, Moves DEF Ending, Scheduling, IsOff
<1>5. CASE note.status # "absent"
  <2> DEFINE at == ReminderDate(request[q].ev, request[q].lead)
             r == [request[q] EXCEPT !.op = "reschedule", !.lead = 0, !.at = at]
  <2>1. request[q].ev.start \in Int /\ now \in Int /\ request[q].lead \in Int
        BY <1>2, EventIs, ReminderAssumption DEF IInv, TypeOK, RequestType
  <2>2. at \in Int
        BY <2>1 DEF ReminderDate
  <2>3. mended # "no" => IsGood(at)
        BY <1>1, Known, DateIsGood DEF CalmOK, IInv
  <2>4. request' = [request EXCEPT ![q] = [request[q] EXCEPT !.op = "reschedule", !.lead = 0, !.at = at]]
        BY <1>2, <1>5, RequestsAre DEF findReminder, Found, IInv
  <2> HIDE DEF at
  <2>5. r \in RequestType /\ r.op = "reschedule" /\ r.of = request[q].of /\ r.ev = request[q].ev /\ r.at = at
    <3>1. "reschedule" \in Ops
          BY DEF Ops
    <3> QED BY <1>2, <2>2, <3>1 DEF RequestType
  <2> HIDE DEF r
  <2>6. RawOK(r) /\ CalmOK(r)
        BY <1>1, <2>3, <2>5, Known DEF RawOK, CalmOK
  <2>7. request' = [request EXCEPT ![q] = r]
        BY <2>4 DEF r
  <2> QED BY <1>1, <1>3, <1>5, <2>5, <2>6, <2>7, Known, Moves DEF Ending, Moving, IsOwed
<1> QED BY <1>4, <1>5

LEMMA StepReadToReschedule == ASSUME IInv, NEW q \in Requests, readToReschedule(q) PROVE IInv'
<1>1. request[q].op = "reschedule"
      BY DEF readToReschedule
<1>2. CASE note.status \in {"COMPLETED", "CANCELED"}
  <2>1. End(q) /\ ~IsOff
        BY <1>2 DEF readToReschedule, IsOff, IInv, NotesOK
  <2> QED BY <1>1, <2>1, Known, IdleMoves DEF readToReschedule, Ending, Scheduling
<1>3. CASE note.status \notin {"COMPLETED", "CANCELED"}
  <2> DEFINE r == [request[q] EXCEPT !.op = "writeReschedule"]
  <2>1. r \in RequestType /\ r.op = "writeReschedule" /\ r.of = request[q].of /\ r.ev = request[q].ev /\ r.at = request[q].at
        BY <1>1, Known, GoesOn DEF Ops
  <2>2. request' = [request EXCEPT ![q] = r]
        BY <1>3 DEF readToReschedule, Go
  <2> HIDE DEF r
  <2>3. RawOK(r) /\ CalmOK(r)
        BY <1>1, <2>1, Known DEF RawOK, CalmOK
  <2> QED BY <1>1, <2>1, <2>2, <2>3, Known, Moves DEF readToReschedule, Ending, Scheduling, Moving
<1> QED BY <1>2, <1>3

LEMMA StepSchedule == ASSUME IInv, NEW q \in Requests, scheduleEventReminder(q) PROVE IInv'
<1> DEFINE ev == request[q].ev
           goes == Eligible(ev) /\ ev.start > now /\ rule.ativo
<1>1. request[q].op = "schedule" /\ request[q] \in RequestType /\ ev \in Events
      BY Known DEF scheduleEventReminder
<1>2. CASE goes
  <2> DEFINE at == ReminderDate(ev, rule.lead)
             r == [request[q] EXCEPT !.op = "lookup", !.at = at]
  <2>1. ev.start \in Int /\ now \in Int /\ rule.lead \in Int
        BY <1>1, EventIs, ReminderAssumption DEF IInv, TypeOK, Rules
  <2>2. at \in Int
        BY <2>1 DEF ReminderDate
  <2>3. UNCHANGED <<now, event, rule, note, told, updates, lost, changes, mended, recalled, sent>> /\ leads' = {rule.lead}
        BY <1>2 DEF scheduleEventReminder
  <2>4. ev = event => at = event.start - rule.lead \/ (at > event.start - rule.lead /\ at <= now)
        BY <2>1 DEF ReminderDate
  <2>5. request' = [request EXCEPT ![q].op = "lookup", ![q].at = ReminderDate(request[q].ev, rule.lead)]
        BY <1>2 DEF scheduleEventReminder
  <2> HIDE DEF at
  <2>6. request'[q].at = at /\ event' = event /\ now' = now /\ leads' = {rule.lead}
        BY <1>1, <2>3, <2>5, RequestsAre DEF IInv, at
  <2>7. r \in RequestType /\ r.op = "lookup" /\ r.of = request[q].of /\ r.ev = request[q].ev /\ r.at = at
    <3>1. "lookup" \in Ops
          BY DEF Ops
    <3> QED BY <1>1, <2>2, <3>1 DEF RequestType
  <2>8. request' = [request EXCEPT ![q] = r]
        BY <2>5 DEF at
  <2> HIDE DEF r
  <2>9. RawOK(r)
        BY <1>1, <1>2, <2>7, Known DEF RawOK
  <2>10. mended # "no" => Stored /\ ev = event /\ note.status = "absent"
        BY <1>1, Known DEF CalmOK
  <2>11. CalmOK(request[q])'
    <3>1. request'[q] = r
          BY <2>8, RequestsAre DEF IInv
    <3>2. ev = event => IsGood(request[q].at)'
          BY <2>4, <2>6 DEF IsGood
    <3>3. event.status # "CANCELADO" \/ mended = "no"
          BY <1>2, <2>10 DEF Eligible
    <3> QED BY <2>3, <2>7, <2>10, <3>1, <3>2, <3>3 DEF CalmOK, Stored
  <2>12. r.op \in Scheduling /\ request[q].op \notin Ending
        BY <1>1, <2>7 DEF Scheduling, Ending
  <2> QED BY <1>1, <2>3, <2>7, <2>8, <2>9, <2>10, <2>11, <2>12, Known, Looks
<1>3. CASE ~goes
  <2>1. End(q) /\ UNCHANGED <<now, event, rule, note, told, updates, lost, changes, history>>
        BY <1>3 DEF scheduleEventReminder, history
  <2>2. mended = "yes" => ~IsOwed
        BY <1>1, <1>3, Known DEF CalmOK, IsOwed
  <2> QED BY <1>1, <2>1, <2>2, Known, IdleMoves DEF Ending, Moving
<1> QED BY <1>2, <1>3

LEMMA StepLookup == ASSUME IInv, NEW q \in Requests, lookup(q) PROVE IInv'
<1>1. request[q].op = "lookup"
      BY DEF lookup
<1>2. CASE note.status # "absent"
      BY <1>1, <1>2, Known, IdleMoves DEF lookup, Ending, Moving, IsOwed
<1>3. CASE note.status = "absent"
  <2> DEFINE r == [request[q] EXCEPT !.op = "insert"]
  <2>1. r \in RequestType /\ r.op = "insert" /\ r.of = request[q].of /\ r.ev = request[q].ev /\ r.at = request[q].at
        BY <1>1, Known, GoesOn DEF Ops
  <2>2. request' = [request EXCEPT ![q] = r]
        BY <1>3 DEF lookup, Go
  <2> HIDE DEF r
  <2>3. RawOK(r) /\ CalmOK(r)
        BY <1>1, <2>1, Known DEF RawOK, CalmOK
  <2> QED BY <1>1, <2>1, <2>2, <2>3, Known, Moves DEF lookup, Ending, Scheduling, Moving
<1> QED BY <1>2, <1>3

LEMMA StepFindToCancel == ASSUME IInv, NEW q \in Requests, findToCancel(q) PROVE IInv'
<1>1. request[q].op = "findToCancel"
      BY DEF findToCancel
<1>2. CASE note.status = "absent" /\ request[q].of # "remove"
      BY <1>1, <1>2, Known, IdleMoves DEF findToCancel, Scheduling, Moving, IsAfoul
<1>3. CASE ~(note.status = "absent" /\ request[q].of # "remove")
  <2> DEFINE op == IF note.status = "absent" THEN "delete" ELSE "cancel"
             r == [request[q] EXCEPT !.op = op]
  <2>1. r \in RequestType /\ r.op = op /\ r.of = request[q].of /\ r.ev = request[q].ev /\ r.at = request[q].at
    <3>1. request[q] \in RequestType /\ op \in Ops
          BY <1>1, Known DEF Ops
    <3> QED BY <3>1 DEF RequestType
  <2>2. request' = [request EXCEPT ![q] = r]
        BY <1>3 DEF findToCancel, Go
  <2> HIDE DEF r
  <2>3. RawOK(r)
        BY <1>1, <1>3, <2>1, Known DEF RawOK, IInv, NotesOK
  <2>4. CalmOK(r)
        BY <1>1, <2>1, Known DEF CalmOK
  <2> QED BY <1>1, <2>1, <2>2, <2>3, <2>4, Known, Moves DEF findToCancel, Ending, Scheduling, Moving, IsAfoul
<1> QED BY <1>2, <1>3

LEMMA StepReadToCancel == ASSUME IInv, NEW q \in Requests, readToCancel(q) PROVE IInv'
<1>1. request[q].op = "cancel"
      BY DEF readToCancel
<1>2. CASE note.status = "COMPLETED" /\ request[q].of # "remove"
      BY <1>1, <1>2, Known, IdleMoves DEF readToCancel, Scheduling, Moving, IsAfoul
<1>3. CASE ~(note.status = "COMPLETED" /\ request[q].of # "remove")
  <2> DEFINE op == IF note.status = "COMPLETED" THEN "delete" ELSE "writeCancel"
             r == [request[q] EXCEPT !.op = op]
  <2>1. r \in RequestType /\ r.op = op /\ r.of = request[q].of /\ r.ev = request[q].ev /\ r.at = request[q].at
    <3>1. request[q] \in RequestType /\ op \in Ops
          BY <1>1, Known DEF Ops
    <3> QED BY <3>1 DEF RequestType
  <2>2. request' = [request EXCEPT ![q] = r]
        BY <1>3 DEF readToCancel, Go
  <2> HIDE DEF r
  <2>3. RawOK(r) /\ CalmOK(r)
        BY <1>1, <2>1, Known DEF RawOK, CalmOK
  <2> QED BY <1>1, <2>1, <2>2, <2>3, Known, Moves DEF readToCancel, Ending, Scheduling, Moving, IsAfoul
<1> QED BY <1>2, <1>3

-----------------------------------------------------------------------------
\* The statements that write.

\* Scheduled, and no rule was found off on the way: the date is the right one
\* unless something raced.
LEMMA Schedules ==
    ASSUME IInv, NEW q \in Requests, request[q].op \in {"writeReschedule", "insert"}, End(q),
           note' = [status |-> "SCHEDULED", at |-> request[q].at], told' \in Starts \cup {0},
           UNCHANGED <<now, event, rule, updates, lost, changes, history>>
    PROVE  IInv'
<1>1. /\ request[q] \in RequestType /\ request[q] # Idle /\ RawOK(request[q]) /\ CalmOK(request[q])
      /\ request[q].ev \in Events
      BY Known
<1>2. UNCHANGED <<mended, recalled, leads, sent>>
      BY DEF history
<1>3. request' = [request EXCEPT ![q] = Idle] /\ Idle \in RequestType
      BY IdleIs DEF End
<1>4. (RawOK(request[q]) /\ CalmOK(request[q]))'
      BY <1>3, RequestsAre, EndedThen DEF IInv
<1>5. RequestsOK' /\ OneAtATime' /\ request' \in [Requests -> RequestType]
      BY <1>1, <1>2, <1>3, <1>4, OthersStay
<1>6. note' \in [status : NoteStatus, at : Int]
      BY <1>1 DEF RequestType, NoteStatus
<1>7. TypeOK'
      BY <1>2, <1>5, <1>6, Typed DEF IInv, TypeOK
<1>8. NotesOK'
      BY <1>1, <1>2 DEF IInv, NotesOK, Quiet, RawOK
<1>9. mended # "no" => Stored /\ event.status # "CANCELADO" /\ IsGood(request[q].at)
      BY <1>1 DEF CalmOK
<1>10. DebtsOK'
      BY <1>2, <1>9 DEF DebtsOK, IsAfoul, IsOwed, IsOff, Stored, IsGood
<1> QED BY <1>5, <1>7, <1>8, <1>10 DEF IInv

LEMMA StepWriteReschedule == ASSUME IInv, NEW q \in Requests, writeReschedule(q) PROVE IInv'
  BY Schedules DEF writeReschedule, IInv, TypeOK

LEMMA StepInsert == ASSUME IInv, NEW q \in Requests, insert(q) PROVE IInv'
<1>1. request[q].op = "insert" /\ request[q].ev \in Events
      BY Known DEF insert
<1>2. CASE note.status = "absent"
  <2>1. request[q].ev.start \in Starts
        BY <1>1, EventIs
  <2> QED BY <1>1, <1>2, <2>1, Schedules DEF insert
<1>3. CASE note.status # "absent"
      BY <1>1, <1>3, Known, IdleMoves DEF insert, Ending, Moving, IsOwed
<1> QED BY <1>2, <1>3

\* A request that cancels, or a removal: the event was recalled.
LEMMA StepWriteCancel == ASSUME IInv, NEW q \in Requests, writeCancel(q) PROVE IInv'
<1>1. /\ request[q] \in RequestType /\ request[q] # Idle /\ RawOK(request[q]) /\ CalmOK(request[q])
      /\ request[q].op = "writeCancel" /\ recalled
      BY Known DEF writeCancel, RawOK
<1>2. UNCHANGED <<mended, recalled, leads, sent>>
      BY DEF writeCancel, history
<1> DEFINE r == IF request[q].of = "remove" THEN [request[q] EXCEPT !.op = "delete"] ELSE Idle
<1>3. /\ r \in RequestType /\ request' = [request EXCEPT ![q] = r]
      /\ r = Idle \/ (r.op = "delete" /\ r.ev = request[q].ev)
  <2>1. CASE request[q].of = "remove"
    <3>1. r = [request[q] EXCEPT !.op = "delete"] /\ "delete" \in Ops
          BY <2>1 DEF Ops
    <3>2. request' = [request EXCEPT ![q] = r]
          BY <2>1 DEF writeCancel, Go
    <3> HIDE DEF r
    <3> QED BY <1>1, <3>1, <3>2, GoesOn
  <2>2. CASE request[q].of # "remove"
    <3>1. r = Idle
          BY <2>2
    <3> HIDE DEF r
    <3>2. request' = [request EXCEPT ![q] = r]
          BY <2>2, <3>1 DEF writeCancel, End
    <3> QED BY <3>1, <3>2, IdleIs
  <2> QED BY <2>1, <2>2
<1> HIDE DEF r
<1>4. note'.status = "CANCELED" /\ note' \in [status : NoteStatus, at : Int]
      BY DEF writeCancel, IInv, TypeOK, NoteStatus
<1>5. request \in [Requests -> RequestType] /\ request'[q] = r
      BY <1>3, RequestsAre DEF IInv
<1>6. (RawOK(request[q]) /\ CalmOK(request[q]))'
  <2>1. CASE r = Idle
        BY <1>5, <2>1, EndedThen
  <2>2. CASE r # Idle
    <3>1. r.op = "delete" /\ r.ev = request[q].ev /\ request[q].ev \in Events
          BY <1>1, <1>3, <2>2, Known
    <3>2. UNCHANGED event /\ recalled'
          BY <1>1, <1>2 DEF writeCancel
    <3>3. RawOK(request[q])'
          BY <1>5, <3>1, <3>2 DEF RawOK
    <3>4. CalmOK(request[q])'
          BY <1>1, <1>2, <1>4, <1>5, <3>1, <3>2 DEF CalmOK, Stored
    <3> QED BY <3>3, <3>4
  <2> QED BY <2>1, <2>2
<1>7. RequestsOK' /\ OneAtATime' /\ request' \in [Requests -> RequestType]
      BY <1>1, <1>2, <1>3, <1>6, OthersStay DEF writeCancel
<1>8. TypeOK'
      BY <1>2, <1>4, <1>7, Typed DEF writeCancel, IInv, TypeOK
<1>9. NotesOK'
      BY <1>1, <1>2, <1>4 DEF writeCancel, IInv, NotesOK, Quiet
<1>10. DebtsOK'
      BY <1>1, <1>2, <1>4 DEF DebtsOK, IsAfoul, IsOwed, IsOff
<1> QED BY <1>7, <1>8, <1>9, <1>10 DEF IInv

LEMMA StepDelete == ASSUME IInv, NEW q \in Requests, delete(q) PROVE IInv'
<1>1. /\ request[q] \in RequestType /\ request[q] # Idle /\ RawOK(request[q]) /\ CalmOK(request[q])
      /\ request[q].op = "delete" /\ recalled
      BY Known DEF delete, RawOK
<1>2. UNCHANGED <<now, rule, note, told, updates, lost, changes, mended, recalled, leads, sent>> /\ event' = Deleted
      BY DEF delete, history
<1>3. request' = [request EXCEPT ![q] = Idle] /\ Idle \in RequestType
      BY IdleIs DEF delete, End
<1>4. (RawOK(request[q]) /\ CalmOK(request[q]))'
      BY <1>3, RequestsAre, EndedThen DEF IInv
<1>5. RequestsOK' /\ OneAtATime' /\ request' \in [Requests -> RequestType]
      BY <1>1, <1>2, <1>3, <1>4, OthersStay
<1>6. TypeOK'
      BY <1>2, <1>5, Typed DEF IInv, TypeOK
<1>7. NotesOK'
      BY <1>1, <1>2, NonesAre DEF IInv, NotesOK
<1>8. DebtsOK'
      BY <1>1, <1>2 DEF DebtsOK, IsAfoul, IsOwed, IsOff, CalmOK
<1> QED BY <1>5, <1>6, <1>7, <1>8 DEF IInv

LEMMA StepLose == ASSUME IInv, NEW q \in Requests, lose(q) PROVE IInv'
<1>1. /\ UNCHANGED <<now, event, rule, note, told, updates, changes, recalled, leads, sent>> /\ mended' = "no"
      /\ request[q] # Idle /\ lost' = lost + 1 /\ lost < MaxLosses
      BY DEF lose
<1>2. request' = [request EXCEPT ![q] = Idle] /\ Idle \in RequestType
      BY IdleIs DEF lose, End
<1>3. (RawOK(request[q]) /\ CalmOK(request[q]))'
      BY <1>2, RequestsAre, EndedThen DEF IInv
<1>4. RequestsOK' /\ OneAtATime' /\ request' \in [Requests -> RequestType]
      BY <1>1, <1>2, <1>3, OthersStay
<1>5. lost' \in 0..MaxLosses
      BY <1>1, ReminderAssumption DEF IInv, TypeOK
<1>6. TypeOK'
      BY <1>1, <1>4, <1>5, Typed DEF IInv, TypeOK
<1>7. NotesOK'
      BY <1>1 DEF IInv, NotesOK, Quiet
<1>8. DebtsOK'
      BY <1>1 DEF DebtsOK
<1> QED BY <1>4, <1>6, <1>7, <1>8 DEF IInv

\* The transaction of an update: one that ends there has changed nothing that
\* anything is owed for, one that cancels goes on to the reminder, and so does
\* one that moves the event.
LEMMA StepWriteEvent ==
    ASSUME IInv, NEW q \in Requests, NEW tipo \in Tipos \cup {"none"}, NEW start \in Starts \cup {0},
           NEW status \in Status \cup {"none"}, writeEvent(q, tipo, start, status)
    PROVE  IInv'
<1> DEFINE ev == Merge(IF tipo = "none" THEN request[q].ev.tipo ELSE tipo, start, status)
           next == AfterUpdate(ev, start, status)
<1>1. /\ request[q] \in RequestType /\ request[q] # Idle /\ RawOK(request[q]) /\ CalmOK(request[q])
      /\ request[q].op = "write" /\ request[q].ev \in Events /\ event \in Events
      BY Known DEF writeEvent, Stored, IInv, TypeOK
<1>2. /\ event' = ev /\ UNCHANGED <<now, rule, note, told, updates, lost, changes, leads, sent>>
      /\ recalled' = (recalled \/ ev.status # "AGENDADO" \/ ev.tipo # event.tipo)
      /\ mended' = IF next = "rule" /\ mended = "alone" THEN "yes" ELSE mended
      BY DEF writeEvent
<1>3. ev \in Events
      BY <1>1, EventIs DEF Merge, Events
<1>4. next \in {"findToCancel", "rule", "done"} /\ (next = "findToCancel" <=> ev.status = "CANCELADO")
      BY DEF AfterUpdate
<1>5. next = "done" /\ ~recalled' => ev = event
  <2>1. next = "done" /\ ~recalled' => start = 0 /\ status # "AGENDADO" /\ ev.status = "AGENDADO" /\ ev.tipo = event.tipo
        BY <1>2 DEF AfterUpdate
  <2>2. ev.status = (IF status = "none" THEN event.status ELSE status) /\ ev.start = (IF start = 0 THEN event.start ELSE start)
        BY DEF Merge
  <2>3. event = [tipo |-> event.tipo, start |-> event.start, status |-> event.status]
        BY <1>1, EventIs
  <2>4. ev = [tipo |-> ev.tipo, start |-> ev.start, status |-> ev.status]
        BY <1>3, EventIs
  <2> HIDE DEF ev, next
  <2> QED BY <2>1, <2>2, <2>3, <2>4
<1>6. PICK r \in RequestType :
         /\ request' = [request EXCEPT ![q] = r]
         /\ IF next = "done" THEN r = Idle
            ELSE r.op = next /\ r.of = request[q].of /\ r.ev = ev
  <2>1. CASE next = "done"
        BY <2>1, IdleIs DEF writeEvent
  <2>2. CASE next # "done"
    <3> DEFINE s == [request[q] EXCEPT !.op = next, !.ev = ev]
    <3>1. request' = [request EXCEPT ![q] = s]
          BY <2>2 DEF writeEvent
    <3>2. next \in Ops
          BY <1>4, <2>2 DEF Ops
    <3> HIDE DEF ev, next
    <3>3. s \in RequestType /\ s.op = next /\ s.of = request[q].of /\ s.ev = ev
          BY <1>1, <1>3, <3>2 DEF RequestType
    <3> QED BY <2>2, <3>1, <3>3
  <2> QED BY <2>1, <2>2
<1> HIDE DEF ev, next
<1>7. request \in [Requests -> RequestType] /\ request'[q] = r
      BY <1>6, RequestsAre DEF IInv
<1>8. ev # None /\ ev # Deleted
      BY <1>3, EventIs
<1>9. (RawOK(request[q]) /\ CalmOK(request[q]))'
  <2>1. CASE next = "done"
        BY <1>6, <1>7, <2>1, EndedThen
  <2>2. CASE next # "done"
    <3>1. r.op = next /\ r.of = request[q].of /\ r.ev = ev /\ next \in {"findToCancel", "rule"}
          BY <1>4, <1>6, <2>2
    <3>2. RawOK(request[q])'
          BY <1>1, <1>2, <1>3, <1>4, <1>7, <3>1 DEF RawOK
    <3>3. CalmOK(request[q])'
          BY <1>2, <1>4, <1>7, <1>8, <3>1 DEF CalmOK, Stored
    <3> QED BY <3>2, <3>3
  <2> QED BY <2>1, <2>2
<1>10. mended \in {"no", "alone", "yes"} /\ recalled \in BOOLEAN
      BY DEF IInv, TypeOK
<1>11. (recalled => recalled') /\ (mended' # "no" => mended # "no") /\ recalled' \in BOOLEAN
       /\ mended' \in {"no", "alone", "yes"}
      BY <1>2, <1>10
<1>12. RequestsOK' /\ OneAtATime' /\ request' \in [Requests -> RequestType]
      BY <1>1, <1>2, <1>6, <1>9, <1>11, OthersStay
<1>13. TypeOK'
      BY <1>2, <1>3, <1>11, <1>12, Typed DEF IInv, TypeOK
<1>14. NotesOK'
      BY <1>2, <1>8, <1>11 DEF IInv, NotesOK
<1>15. next # "done" => request'[q].op = next
      BY <1>6, <1>7
<1>16. mended = "yes" => (IsOwed => AtOne(Scheduling)) /\ (IsOff => AtOne(Moving))
      BY DEF IInv, DebtsOK
<1>17. mended = "yes" => ~AtOne(Scheduling) /\ ~AtOne(Moving)
      BY <1>1, AtTheOne DEF Scheduling, Moving
<1>18. next = "done" /\ mended' = "yes" => ~IsOwed' /\ ~IsOff'
      BY <1>2, <1>5, <1>11, <1>16, <1>17 DEF IsOwed, IsOff, Stored, IsGood
<1>19. IsAfoul' => AtOne(Ending)'
      BY <1>2, <1>4, <1>8, <1>15 DEF IsAfoul, AtOne, Ending
<1>20. IsOwed' \/ IsOff' => next # "findToCancel"
      BY <1>2, <1>4 DEF IsOwed, IsOff
<1>21. next = "rule" => AtOne(Scheduling)' /\ AtOne(Moving)'
      BY <1>15 DEF AtOne, Scheduling, Moving
<1>22. DebtsOK'
      BY <1>4, <1>18, <1>19, <1>20, <1>21 DEF DebtsOK
<1> QED BY <1>12, <1>13, <1>14, <1>22 DEF IInv

-----------------------------------------------------------------------------
\* The requests that begin, and what is no request.

\* Alone, it finds an event that nobody else is about to write, and takes on
\* what a race or a loss has left to cancel.
LEMMA Enters ==
    ASSUME IInv, Stored, NEW q \in Requests, request[q] = Idle, Enter(q), NEW r \in RequestType,
           r.op \in {"write", "findToCancel"}, r.ev = event, request' = [request EXCEPT ![q] = r], RawOK(r)',
           UNCHANGED <<now, event, rule, note, told, lost, changes, leads, sent>>, updates' \in 0..MaxUpdates,
           recalled' \in BOOLEAN, recalled => recalled'
    PROVE  IInv'
<1>1. /\ request \in [Requests -> RequestType] /\ request' \in [Requests -> RequestType]
      /\ request'[q] = r /\ \A p \in Requests : p # q => request'[p] = request[p]
      BY RequestsAre DEF IInv
<1>2. r # Idle
      BY IdleIs
<1>3. /\ mended' \in {"no", "alone", "yes"}
      /\ mended' # "no" => Quiet
      /\ mended' = "yes" => mended = "yes"
      BY DEF Enter, Quiet, IInv, TypeOK
<1>4. ASSUME NEW p \in Requests PROVE (RawOK(request[p]) /\ CalmOK(request[p]))'
  <2>1. CASE p = q
    <3>1. RawOK(request[p])'
          BY <1>1, <2>1 DEF RawOK
    <3>2. CalmOK(request[p])'
          BY <1>1, <2>1 DEF CalmOK, Stored
    <3> QED BY <3>1, <3>2
  <2>2. CASE p # q
    <3>1. request'[p] = request[p] /\ RawOK(request[p])
          BY <1>1, <2>2 DEF IInv, RequestsOK
    <3>2. mended' # "no" => request'[p] = Idle
          BY <1>3, <3>1 DEF Quiet
    <3> QED BY <3>1, <3>2 DEF RawOK, CalmOK
  <2> QED BY <2>1, <2>2
<1>5. OneAtATime'
      BY <1>1, <1>3 DEF OneAtATime, Quiet
<1>6. TypeOK'
      BY <1>1, <1>3, Typed DEF IInv, TypeOK
<1>7. NotesOK'
      BY DEF IInv, NotesOK, Stored
<1>8. mended' = "yes" => ~IsOwed /\ ~IsOff
      BY <1>3, QuietOwesNothing
<1>9. AtOne(Ending)'
      BY <1>1 DEF AtOne, Ending
<1>10. DebtsOK'
      BY <1>8, <1>9 DEF DebtsOK, IsOwed, IsOff, Stored, IsGood
<1> QED BY <1>4, <1>5, <1>6, <1>7, <1>10 DEF IInv, RequestsOK

LEMMA StepBeginUpdate == ASSUME IInv, NEW q \in Requests, beginUpdate(q) PROVE IInv'
<1> DEFINE r == [op |-> "write", of |-> "update", ev |-> event, lead |-> 0, at |-> 0]
<1>1. event \in Events
      BY DEF beginUpdate, Stored, IInv, TypeOK
<1>2. r \in RequestType
      BY <1>1 DEF RequestType, Ops
<1>3. RawOK(r)'
      BY <1>1 DEF beginUpdate, RawOK, Idle
<1>4. updates' \in 0..MaxUpdates
      BY ReminderAssumption DEF beginUpdate, IInv, TypeOK
<1> QED BY <1>2, <1>3, <1>4, Enters DEF beginUpdate, IInv, TypeOK

LEMMA StepBeginRemove == ASSUME IInv, NEW q \in Requests, beginRemove(q) PROVE IInv'
<1> DEFINE r == [op |-> "findToCancel", of |-> "remove", ev |-> event, lead |-> 0, at |-> 0]
<1>1. event \in Events
      BY DEF beginRemove, Stored, IInv, TypeOK
<1>2. r \in RequestType
      BY <1>1 DEF RequestType, Ops
<1>3. RawOK(r)'
      BY <1>1 DEF beginRemove, RawOK, Idle
<1> QED BY <1>2, <1>3, Enters DEF beginRemove, FirstOfRemove, IInv, TypeOK

\* Before the event is created nothing is under way and nothing is scheduled.
LEMMA StepCreate == ASSUME IInv, NEW q \in Requests, NEW ev \in Events, create(q, ev) PROVE IInv'
<1> DEFINE r == [op |-> "schedule", of |-> "create", ev |-> ev, lead |-> 0, at |-> 0]
<1>1. Quiet /\ mended = "yes" /\ note.status = "absent"
      BY DEF create, IInv, NotesOK
<1>2. r \in RequestType
      BY DEF RequestType, Ops
<1>3. /\ request \in [Requests -> RequestType] /\ request' \in [Requests -> RequestType]
      /\ request'[q] = r /\ \A p \in Requests : p # q => request'[p] = Idle
      BY <1>1, <1>2, RequestsAre DEF IInv, create, Quiet
<1>4. UNCHANGED <<now, rule, note, told, updates, lost, changes, mended, recalled, leads, sent>> /\ event' = ev
      BY DEF create, history
<1>5. ev # None /\ ev # Deleted
      BY EventIs
<1>6. ASSUME NEW p \in Requests PROVE (RawOK(request[p]) /\ CalmOK(request[p]))'
  <2>1. CASE p = q
    <3>1. RawOK(request[p])'
          BY <1>3, <2>1 DEF RawOK, Idle
    <3>2. CalmOK(request[p])'
          BY <1>1, <1>3, <1>4, <1>5, <2>1 DEF CalmOK, Stored
    <3> QED BY <3>1, <3>2
  <2>2. CASE p # q
        BY <1>3, <2>2, EndedThen
  <2> QED BY <2>1, <2>2
<1>7. OneAtATime'
      BY <1>3 DEF OneAtATime
<1>8. TypeOK'
      BY <1>3, <1>4, Typed DEF IInv, TypeOK
<1>9. NotesOK'
      BY <1>1, <1>4, <1>5 DEF NotesOK
<1>10. AtOne(Scheduling)'
      BY <1>3 DEF AtOne, Scheduling
<1>11. DebtsOK'
      BY <1>1, <1>4, <1>10 DEF DebtsOK, IsAfoul, IsOff
<1> QED BY <1>6, <1>7, <1>8, <1>9, <1>11 DEF IInv, RequestsOK

LEMMA StepDeliver == ASSUME IInv, NEW outcome \in {"COMPLETED", "FAILED"}, deliver(outcome) PROVE IInv'
<1>1. /\ UNCHANGED <<now, event, rule, told, request, updates, lost, changes, mended, recalled, leads>> /\ sent'
      /\ note.status = "SCHEDULED" /\ note' = [note EXCEPT !.status = outcome] /\ sent' \in BOOLEAN
      BY DEF deliver
<1>2. note'.status = outcome /\ note' \in [status : NoteStatus, at : Int]
      BY <1>1 DEF IInv, TypeOK, NoteStatus
<1>3. request \in [Requests -> RequestType]
      BY RequestsAre DEF IInv
<1>4. TypeOK'
      BY <1>1, <1>2, <1>3, Typed DEF IInv, TypeOK
<1>5. ASSUME NEW p \in Requests PROVE (RawOK(request[p]) /\ CalmOK(request[p]))'
  <2>1. RawOK(request[p]) /\ CalmOK(request[p])
        BY DEF IInv, RequestsOK
  <2>2. RawOK(request[p])'
        BY <1>1, <2>1 DEF RawOK
  <2>3. CalmOK(request[p])'
        BY <1>1, <1>2, <2>1 DEF CalmOK, Stored, IsGood
  <2> QED BY <2>2, <2>3
<1>6. OneAtATime'
      BY <1>1 DEF IInv, OneAtATime
<1>7. NotesOK'
      BY <1>1, <1>2 DEF IInv, NotesOK
<1>8. DebtsOK'
      BY <1>1, <1>2 DEF DebtsOK, IsAfoul, IsOwed, IsOff
<1> QED BY <1>4, <1>5, <1>6, <1>7, <1>8 DEF IInv, RequestsOK

\* Another lead takes no date back; the rule switched on or off recalls.
LEMMA StepChangeRule == ASSUME IInv, NEW to \in Rules, ChangeRule(to) PROVE IInv'
<1>1. /\ UNCHANGED <<now, event, note, told, request, updates, lost, mended, sent>>
      /\ rule' = to /\ recalled' = (recalled \/ to.ativo # rule.ativo)
      /\ leads' = leads \cup {to.lead} /\ changes' = changes + 1 /\ changes < MaxChanges
      BY DEF ChangeRule
<1>2. recalled' \in BOOLEAN /\ (~recalled' => ~recalled /\ rule'.ativo = rule.ativo)
      BY <1>1
<1>3. rule' \in Rules /\ changes' \in 0..MaxChanges /\ leads' \subseteq Leads
  <2>1. changes \in 0..MaxChanges /\ MaxChanges \in Nat
        BY ReminderAssumption DEF IInv, TypeOK
  <2>2. changes' \in 0..MaxChanges
        BY <1>1, <2>1
  <2>3. to.lead \in Leads /\ leads \subseteq Leads
        BY DEF IInv, TypeOK, Rules
  <2> QED BY <1>1, <2>2, <2>3
<1>4. TypeOK'
      BY <1>1, <1>2, <1>3, RequestsAre, Typed DEF IInv, TypeOK
<1>5. ASSUME NEW at, IsGood(at) PROVE IsGood(at)'
      BY <1>1, <1>5 DEF IsGood
<1>6. ASSUME NEW p \in Requests PROVE (RawOK(request[p]) /\ CalmOK(request[p]))'
  <2>1. RawOK(request[p]) /\ CalmOK(request[p])
        BY DEF IInv, RequestsOK
  <2>2. RawOK(request[p])'
        BY <1>1, <1>2, <2>1 DEF RawOK
  <2>3. IsGood(request[p].at) => IsGood(request[p].at)'
        BY <1>1, <1>5
  <2>4. CalmOK(request[p])'
        BY <1>1, <2>1, <2>3 DEF CalmOK, Stored
  <2> QED BY <2>2, <2>4
<1>7. OneAtATime' /\ NotesOK'
      BY <1>1, <1>2 DEF IInv, OneAtATime, NotesOK, Quiet
<1>8. IsGood(note.at) => IsGood(note.at)'
      BY <1>1, <1>5
<1>9. /\ IsAfoul' => IsAfoul
      /\ IsOwed' => IsOwed
      /\ IsOff' => IsOff
      BY <1>1, <1>2, <1>8 DEF IsAfoul, IsOwed, IsOff, Stored
<1>10. DebtsOK'
      BY <1>1, <1>9 DEF IInv, DebtsOK, AtOne
<1> QED BY <1>4, <1>6, <1>7, <1>10 DEF IInv, RequestsOK

LEMMA StepUpdateRules == ASSUME IInv, NEW to \in Rules, updateRules(to) PROVE IInv'
  BY StepChangeRule DEF updateRules

LEMMA StepResetRule == ASSUME IInv, resetRule PROVE IInv'
<1>1. DefaultRule \in Rules
      BY ReminderAssumption DEF DefaultRule, Rules
<1> QED BY <1>1, StepChangeRule DEF resetRule

\* A date that is right stays right, or comes due.
LEMMA StepTick == ASSUME IInv, Tick PROVE IInv'
<1>1. /\ UNCHANGED <<event, rule, note, told, request, updates, lost, changes, mended, recalled, leads, sent>>
      /\ now' = now + 1 /\ now' \in 0..MaxNow /\ now \in Int
      BY ReminderAssumption DEF Tick, history, IInv, TypeOK
<1>2. /\ TypeOK' /\ request \in [Requests -> RequestType]
      BY <1>1, RequestsAre, Typed DEF IInv, TypeOK
<1>3. ASSUME NEW at \in Int, IsGood(at) PROVE IsGood(at)'
      BY <1>1, <1>3 DEF IsGood
<1>4. ASSUME NEW p \in Requests PROVE (RawOK(request[p]) /\ CalmOK(request[p]))'
  <2>1. RawOK(request[p]) /\ CalmOK(request[p]) /\ request[p].at \in Int
        BY <1>2 DEF IInv, RequestsOK, RequestType
  <2>2. RawOK(request[p])'
        BY <1>1, <2>1 DEF RawOK
  <2>3. CalmOK(request[p])'
        BY <1>1, <2>1 DEF CalmOK, Stored, IsGood
  <2> QED BY <2>2, <2>3
<1>5. OneAtATime' /\ NotesOK'
      BY <1>1 DEF IInv, OneAtATime, NotesOK, Quiet
<1>6. IsAfoul' = IsAfoul
      BY <1>1 DEF IsAfoul
<1>7. IsOwed' => IsOwed
  <2>1. Stored => event.start \in Int
        BY EventIs DEF Stored, IInv, TypeOK
  <2> QED BY <1>1, <2>1 DEF IsOwed, Stored, Eligible
<1>8. IsOff' => IsOff
  <2>1. note.at \in Int
        BY DEF IInv, TypeOK
  <2>2. IsGood(note.at) => IsGood(note.at)'
        BY <1>1, <1>3, <2>1
  <2> QED BY <1>1, <2>2 DEF IsOff, Stored
<1>9. DebtsOK'
      BY <1>1, <1>6, <1>7, <1>8 DEF IInv, DebtsOK, AtOne
<1> QED BY <1>2, <1>4, <1>5, <1>9 DEF IInv, RequestsOK

LEMMA Stutters == ASSUME IInv, UNCHANGED vars PROVE IInv'
<1>1. UNCHANGED <<now, event, rule, note, told, request, updates, lost, changes, mended, recalled, leads, sent>>
      BY DEF vars, history
<1> QED BY <1>1 DEF IInv, TypeOK, RequestsOK, RawOK, CalmOK, Stored, IsGood, OneAtATime, NotesOK, Quiet,
                   DebtsOK, IsAfoul, IsOwed, IsOff, AtOne

LEMMA Steps == ASSUME IInv, [Next]_vars PROVE IInv'
<1>1. ASSUME NEW q \in Requests, Reminder(q) PROVE IInv'
      BY <1>1, StepReadRule, StepFindReminder, StepReadToReschedule, StepWriteReschedule, StepSchedule,
         StepLookup, StepInsert, StepFindToCancel, StepReadToCancel, StepWriteCancel DEF Reminder
<1>2. ASSUME NEW q \in Requests, beginUpdate(q) \/ updateThrows(q) \/ beginRemove(q) \/ delete(q) \/ lose(q)
      PROVE  IInv'
      BY <1>2, StepBeginUpdate, StepUpdateThrows, StepBeginRemove, StepDelete, StepLose
<1>3. ASSUME NEW q \in Requests, NEW ev \in Events, create(q, ev) PROVE IInv'
      BY <1>3, StepCreate
<1>4. ASSUME NEW q \in Requests, NEW tipo \in Tipos \cup {"none"}, NEW start \in Starts \cup {0},
             NEW status \in Status \cup {"none"}, writeEvent(q, tipo, start, status)
      PROVE  IInv'
      BY <1>4, StepWriteEvent
<1>5. ASSUME NEW outcome \in {"COMPLETED", "FAILED"}, deliver(outcome) PROVE IInv'
      BY <1>5, StepDeliver
<1>6. ASSUME NEW to \in Rules, updateRules(to) PROVE IInv'
      BY <1>6, StepUpdateRules
<1> QED BY <1>1, <1>2, <1>3, <1>4, <1>5, <1>6, StepResetRule, StepTick, Stutters DEF Next

-----------------------------------------------------------------------------
\* The invariant holds for any number of requests that create, update and
\* remove the event (eventos.service.ts:549-1065), however they race or are cut off.
THEOREM Invariant == Spec => []IInv
  BY Initially, Steps, PTL DEF Spec

\* TypeOK: what each variable may hold.
THEOREM TypeCorrect == Spec => []TypeOK
<1>1. IInv => TypeOK
      BY DEF IInv
<1> QED BY <1>1, Invariant, PTL

\* CancelledEventIsSilent: no reminder is left to be sent for an event that is
\* cancelled or removed, once a request on its own has ended after whatever
\* races and losses came before it.
THEOREM CancelledIsSilent == Spec => []CancelledEventIsSilent
<1>1. IInv => CancelledEventIsSilent
      BY QuietOwesNothing DEF CancelledEventIsSilent, IsAfoul
<1> QED BY <1>1, Invariant, PTL

\* FutureEventHasReminder: a future event whose rule is on has its reminder,
\* even when the creation was cut off before it.
THEOREM FutureIsReminded == Spec => []FutureEventHasReminder
<1>1. IInv => FutureEventHasReminder
      BY QuietOwesNothing DEF FutureEventHasReminder, Followed, IsOwed
<1> QED BY <1>1, Invariant, PTL

\* ReminderIsInStep: the reminder still to be sent has the date of the event as
\* it is stored, or is due at once, after the next update on its own.
THEOREM StaysInStep == Spec => []ReminderIsInStep
<1>1. IInv => ReminderIsInStep
      BY QuietOwesNothing DEF ReminderIsInStep, Followed, IsOff, IsGood
<1> QED BY <1>1, Invariant, PTL
=============================================================================
