---------------------------- MODULE EventReminder ----------------------------
(***************************************************************************)
(* The reminder of an event (eventos.service.ts): one notification, found  *)
(* by its idempotency key tenant:evento:reminder-2h, that create, update   *)
(* and remove of the event keep in step with the event.                    *)
(*                                                                         *)
(* A request runs over several statements with nothing to hold the event   *)
(* between them: it writes the event, then reads the automation rule, then *)
(* the notification, then writes the notification from what it has read.   *)
(* Requests overlap, and a process may die between two statements.         *)
(*                                                                         *)
(* Time is a counter; the queue of the notification centre is the single   *)
(* step deliver (module NotificationQueue has its detail).  GERAL and      *)
(* MINISTERIO differ only in their audience, which is not modelled.        *)
(***************************************************************************)
EXTENDS Integers

CONSTANTS
    Requests,   \* requests for the event; a process answers several at once
    Tipos,      \* a set of EventoTipo
    Starts,     \* dates an event may be moved to
    MaxNow,     \* bound on the clock
    MaxUpdates, \* bound on the updates begun
    MaxLosses,  \* bound on requests cut off between two statements
    MaxChanges, \* bound on the changes of the rule
    Leads,      \* values of antecedenciaHoras
    DefaultLead \* that of DEFAULT_AUTOMATION_RULES

ASSUME ReminderAssumption ==
    /\ Tipos \subseteq {"GERAL", "MINISTERIO", "REUNIAO_INTERNA"}
    /\ Starts \subseteq Nat
    /\ MaxNow \in Nat /\ MaxUpdates \in Nat /\ MaxLosses \in Nat /\ MaxChanges \in Nat
    /\ Leads \subseteq Nat \ {0} /\ DefaultLead \in Leads

VARIABLES
    now,
    event,      \* the row of tb_event
    rule,       \* the rule EVENT_REMINDER_BEFORE as getRuleByType gives it
    note,       \* the notification under the key: its status and scheduled_at
    told,       \* the event's start as its message says it
    request,    \* where each request is, and what it has read
    updates,    \* updates begun so far
    lost,       \* requests cut off so far
    changes,    \* changes of the rule so far
    mended,     \* history: "no" after a race or a loss, "alone" once a later
                \* request began with no other under way, "yes" once such a
                \* request went on to the reminder
    recalled,   \* history: the event was cancelled, its rule was switched on or
                \* off, or a removal began
    leads,      \* history: the leads the rule has had since a request that goes
                \* on to the reminder last read it
    sent        \* history: the reminder was pushed

history == <<mended, recalled, leads, sent>>
vars == <<now, event, rule, note, told, request, updates, lost, changes, history>>

Status == {"AGENDADO", "REALIZADO", "CANCELADO"}
None == [tipo |-> "none", start |-> 0, status |-> "none"]
Events == [tipo : Tipos, start : Starts, status : Status]
NoteStatus == {"absent", "SCHEDULED", "COMPLETED", "FAILED", "CANCELED"}
NoNote == [status |-> "absent", at |-> 0]
Rules == [ativo : BOOLEAN, lead : Leads]
DefaultRule == [ativo |-> TRUE, lead |-> DefaultLead]

\* op: the statement the request issues next; of: the endpoint; ev: the event
\* as it last read it; lead: that of the rule it has read; at: the date it is
\* about to schedule.
Idle == [op |-> "idle", of |-> "none", ev |-> None, lead |-> 0, at |-> 0]

Deleted == [None EXCEPT !.tipo = "deleted"]
Stored == event \notin {None, Deleted}
Eligible(ev) == ev.status = "AGENDADO" /\ ev.tipo \in {"GERAL", "MINISTERIO"}
\* dataInicio minus the lead, or at once when that is past.
ReminderDate(ev, lead) == IF ev.start - lead < now THEN now ELSE ev.start - lead

Go(q, op) == request' = [request EXCEPT ![q].op = op]
End(q) == request' = [request EXCEPT ![q] = Idle]

Init ==
    /\ now = 0
    /\ event = None
    /\ rule \in Rules
    /\ note = NoNote
    /\ told = 0
    /\ request = [q \in Requests |-> Idle]
    /\ updates = 0
    /\ lost = 0
    /\ changes = 0
    /\ mended = "yes" /\ recalled = FALSE /\ leads = {rule.lead} /\ sent = FALSE

\* A request enters, perhaps while another one is under way.
Enter(q) == mended' = IF \E p \in Requests \ {q} : request[p] # Idle THEN "no"
                      ELSE IF mended = "yes" THEN "yes" ELSE "alone"

-----------------------------------------------------------------------------
\* create: the event is stored, then its reminder is scheduled.
create(q, ev) ==
    /\ event = None /\ request[q] = Idle
    /\ event' = ev
    /\ request' = [request EXCEPT ![q] = [op |-> "schedule", of |-> "create", ev |-> ev, lead |-> 0, at |-> 0]]
    /\ UNCHANGED <<now, rule, note, told, updates, lost, changes, history>>

\* update reads the event before its transaction.
beginUpdate(q) ==
    /\ Stored /\ request[q] = Idle /\ updates < MaxUpdates
    /\ updates' = updates + 1
    /\ request' = [request EXCEPT ![q] = [op |-> "write", of |-> "update", ev |-> event, lead |-> 0, at |-> 0]]
    /\ Enter(q)
    /\ UNCHANGED <<now, event, rule, note, told, lost, changes, recalled, leads, sent>>

\* The transaction of update: fields given in the dto replace the stored ones,
\* the tipo of the earlier read is written back if none is given.  The event
\* is read again at its end, and that row decides what is done next.  Deleted
\* meanwhile, the update throws.
Merge(tipo, start, status) ==
    [tipo |-> tipo,
     start |-> IF start = 0 THEN event.start ELSE start,
     status |-> IF status = "none" THEN event.status ELSE status]

\* A mutated form of AfterUpdate, used by no action.
AfterUpdateIgnoringStatus(ev, start, status) ==
    IF start # 0 \/ status = "AGENDADO" THEN "rule" ELSE "done"

AfterUpdate(ev, start, status) ==
    IF ev.status = "CANCELADO" THEN "findToCancel"
    ELSE IF start # 0 \/ status = "AGENDADO" THEN "rule"
    ELSE "done"

writeEvent(q, tipo, start, status) ==
    LET ev == Merge(IF tipo = "none" THEN request[q].ev.tipo ELSE tipo, start, status)
        next == AfterUpdate(ev, start, status) IN
    /\ request[q].op = "write" /\ Stored
    /\ event' = ev
    /\ request' = [request EXCEPT ![q] = IF next = "done" THEN Idle ELSE [@ EXCEPT !.op = next, !.ev = ev]]
    /\ recalled' = (recalled \/ ev.status # "AGENDADO" \/ ev.tipo # event.tipo)
    /\ mended' = IF next = "rule" /\ mended = "alone" THEN "yes" ELSE mended
    /\ UNCHANGED <<now, rule, note, told, updates, lost, changes, leads, sent>>

updateThrows(q) ==
    /\ request[q].op = "write" /\ ~Stored
    /\ End(q)
    /\ UNCHANGED <<now, event, rule, note, told, updates, lost, changes, history>>

\* rescheduleEventReminder: the rule, then the notification by its key.
readRule(q) ==
    /\ request[q].op = "rule"
    /\ IF rule.ativo
       THEN /\ request' = [request EXCEPT ![q].op = "find", ![q].lead = rule.lead]
            /\ leads' = {rule.lead}
       ELSE Go(q, "findToCancel") /\ UNCHANGED leads
    /\ UNCHANGED <<now, event, rule, note, told, updates, lost, changes, mended, recalled, sent>>

\* What is found: no reminder, then one is scheduled; or one, then it gets a date.
Found(q, absent, at) ==
    /\ request[q].op = "find"
    /\ request' = [request EXCEPT ![q] =
         IF note.status = "absent" THEN absent ELSE [@ EXCEPT !.op = "reschedule", !.lead = 0, !.at = at]]
    /\ UNCHANGED <<now, event, rule, note, told, updates, lost, changes, history>>

\* A mutated form of findReminder, used by no action.
findReminderUnadjusted(q) ==
    Found(q, [request[q] EXCEPT !.op = "schedule", !.lead = 0], ReminderDate(request[q].ev, 0))

\* A mutated form of findReminder, used by no action.
findReminderOrGiveUp(q) ==
    Found(q, Idle, ReminderDate(request[q].ev, request[q].lead))

findReminder(q) ==
    Found(q, [request[q] EXCEPT !.op = "schedule", !.lead = 0], ReminderDate(request[q].ev, request[q].lead))

\* rescheduleNotification reads the status, then writes date and status.
readToReschedule(q) ==
    /\ request[q].op = "reschedule"
    /\ IF note.status \in {"COMPLETED", "CANCELED"} THEN End(q) ELSE Go(q, "writeReschedule")
    /\ UNCHANGED <<now, event, rule, note, told, updates, lost, changes, history>>

writeReschedule(q) ==
    /\ request[q].op = "writeReschedule"
    /\ note' = [status |-> "SCHEDULED", at |-> request[q].at]
    /\ End(q)
    /\ UNCHANGED <<now, event, rule, told, updates, lost, changes, history>>

\* scheduleEventReminder: the event as this request knows it must be eligible
\* and in the future; the rule is read, a second time when an update comes here.
scheduleEventReminder(q) ==
    LET ev == request[q].ev IN
    /\ request[q].op = "schedule"
    /\ IF Eligible(ev) /\ ev.start > now /\ rule.ativo
       THEN /\ request' = [request EXCEPT ![q].op = "lookup", ![q].at = ReminderDate(ev, rule.lead)]
            /\ leads' = {rule.lead}
       ELSE End(q) /\ UNCHANGED leads
    /\ UNCHANGED <<now, event, rule, note, told, updates, lost, changes, mended, recalled, sent>>

\* createNotification: nothing to do if the key exists, by its first read or
\* by the unique constraint at the insert (P2002).
lookup(q) ==
    /\ request[q].op = "lookup"
    /\ IF note.status # "absent" THEN End(q) ELSE Go(q, "insert")
    /\ UNCHANGED <<now, event, rule, note, told, updates, lost, changes, history>>

insert(q) ==
    /\ request[q].op = "insert"
    /\ IF note.status = "absent"
       THEN /\ note' = [status |-> "SCHEDULED", at |-> request[q].at]
            /\ told' = request[q].ev.start
       ELSE UNCHANGED <<note, told>>
    /\ End(q)
    /\ UNCHANGED <<now, event, rule, updates, lost, changes, history>>

\* cancelEventReminder finds the key; cancelNotification reads the status and
\* writes.  remove deletes the event after that.
findToCancel(q) ==
    /\ request[q].op = "findToCancel"
    /\ IF note.status = "absent"
       THEN IF request[q].of = "remove" THEN Go(q, "delete") ELSE End(q)
       ELSE Go(q, "cancel")
    /\ UNCHANGED <<now, event, rule, note, told, updates, lost, changes, history>>

readToCancel(q) ==
    /\ request[q].op = "cancel"
    /\ IF note.status # "COMPLETED" THEN Go(q, "writeCancel")
       ELSE IF request[q].of = "remove" THEN Go(q, "delete") ELSE End(q)
    /\ UNCHANGED <<now, event, rule, note, told, updates, lost, changes, history>>

writeCancel(q) ==
    /\ request[q].op = "writeCancel"
    /\ note' = [note EXCEPT !.status = "CANCELED"]
    /\ IF request[q].of = "remove" THEN Go(q, "delete") ELSE End(q)
    /\ UNCHANGED <<now, event, rule, told, updates, lost, changes, history>>

FirstOfRemove == "findToCancel"

beginRemove(q) ==
    /\ Stored /\ request[q] = Idle
    /\ request' = [request EXCEPT ![q] = [op |-> FirstOfRemove, of |-> "remove", ev |-> event, lead |-> 0, at |-> 0]]
    /\ Enter(q)
    /\ recalled' = TRUE
    /\ UNCHANGED <<now, event, rule, note, told, updates, lost, changes, leads, sent>>

\* Deleted meanwhile, the delete throws.
delete(q) ==
    /\ request[q].op = "delete"
    /\ event' = Deleted
    /\ End(q)
    /\ UNCHANGED <<now, rule, note, told, updates, lost, changes, history>>

\* The process dies, or a statement fails, between two statements.
lose(q) ==
    /\ request[q] # Idle /\ lost < MaxLosses
    /\ lost' = lost + 1
    /\ End(q)
    /\ mended' = "no"
    /\ UNCHANGED <<now, event, rule, note, told, updates, changes, recalled, leads, sent>>

-----------------------------------------------------------------------------
\* The queue pushes a reminder that is due, once: its rows are finished, and
\* a header scheduled again has no row left to push.
deliver(outcome) ==
    /\ note.status = "SCHEDULED" /\ note.at <= now /\ ~sent
    /\ note' = [note EXCEPT !.status = outcome]
    /\ sent' = TRUE
    /\ UNCHANGED <<now, event, rule, told, request, updates, lost, changes, mended, recalled, leads>>

\* updateRules and resetRule of the automations: a rule becomes another, or the
\* default (a row that says the same as the default is deleted).  They touch
\* no notification: one that is scheduled keeps the date it has.
ChangeRule(to) ==
    /\ changes < MaxChanges
    /\ changes' = changes + 1
    /\ rule' = to
    /\ recalled' = (recalled \/ to.ativo # rule.ativo)
    /\ leads' = leads \cup {to.lead}
    /\ UNCHANGED <<now, event, note, told, request, updates, lost, mended, sent>>

updateRules(to) == ChangeRule(to)
resetRule == ChangeRule(DefaultRule)

Tick ==
    /\ now < MaxNow
    /\ now' = now + 1
    /\ UNCHANGED <<event, rule, note, told, request, updates, lost, changes, history>>

Reminder(q) ==
    \/ readRule(q) \/ findReminder(q) \/ readToReschedule(q) \/ writeReschedule(q)
    \/ scheduleEventReminder(q) \/ lookup(q) \/ insert(q)
    \/ findToCancel(q) \/ readToCancel(q) \/ writeCancel(q)

Next ==
    \/ \E q \in Requests :
         \/ \E ev \in Events : create(q, ev)
         \/ beginUpdate(q) \/ updateThrows(q)
         \/ \E tipo \in Tipos \cup {"none"}, start \in Starts \cup {0}, status \in Status \cup {"none"} :
              writeEvent(q, tipo, start, status)
         \/ Reminder(q)
         \/ beginRemove(q) \/ delete(q)
         \/ lose(q)
    \/ \E outcome \in {"COMPLETED", "FAILED"} : deliver(outcome)
    \/ \E to \in Rules : updateRules(to)
    \/ resetRule
    \/ Tick

Spec == Init /\ [][Next]_vars
-----------------------------------------------------------------------------
TypeOK ==
    /\ now \in 0..MaxNow
    /\ event \in Events \cup {None, Deleted}
    /\ rule \in Rules
    /\ note \in [status : NoteStatus, at : Int]
    /\ told \in Starts \cup {0}
    /\ request \in [Requests ->
         [op : {"idle", "write", "rule", "find", "reschedule", "writeReschedule", "schedule", "lookup",
                "insert", "findToCancel", "cancel", "writeCancel", "delete"},
          of : {"none", "create", "update", "remove"},
          ev : Events \cup {None}, lead : Leads \cup {0}, at : Int]]
    /\ updates \in 0..MaxUpdates
    /\ lost \in 0..MaxLosses
    /\ changes \in 0..MaxChanges
    /\ leads \subseteq Leads
    /\ mended \in {"no", "alone", "yes"} /\ recalled \in BOOLEAN /\ sent \in BOOLEAN

Quiet == \A q \in Requests : request[q] = Idle
\* Nothing raced or was lost, or a later request on its own has gone on to the
\* reminder; the event was only moved in time.
Followed == Quiet /\ mended = "yes" /\ ~recalled

\* A date that follows the event: by a lead in force since a request last read
\* the rule, or due at once.
IsGood(at) ==
    \E lead \in leads : \/ at = event.start - lead
                        \/ at > event.start - lead /\ at <= now

\* "definir scheduledAt como dataInicio - 2 horas", "atualizar o lembrete
\* quando o horario mudar": whatever two racing requests or one cut off have
\* left, the next update on its own puts it right: the reminder still to be
\* sent has the date of the event as it is stored, or is due at once.  The lead
\* is that of the rule when such an update read it, or of a change since: a
\* new antecedenciaHoras moves no reminder before the event's next update.
ReminderIsInStep ==
    Followed /\ ~sent /\ Stored /\ note.status # "absent" =>
        note.status = "SCHEDULED" /\ IsGood(note.at)

\* A stored future event has its reminder, if need be from the update that
\* came after a creation that was cut off before it.
FutureEventHasReminder ==
    Followed /\ Stored /\ Eligible(event) /\ event.start > now /\ rule.ativo =>
        note.status # "absent"

\* "nao notificar eventos cancelados": no reminder is left to be sent once a
\* request on its own has ended with the event cancelled or removed, whatever
\* races and losses came before it.
CancelledEventIsSilent ==
    Quiet /\ mended # "no" /\ (event = Deleted \/ event.status = "CANCELADO") =>
        note.status # "SCHEDULED"

\* notification-center.md:118, "atualizar ou cancelar o lembrete quando horario,
\* status ou tipo do evento mudar": with one request at a time, none lost, a
\* reminder still to be sent tells the start of the event as it is stored (it
\* says "{evento} comeca as {horario}"); an event cancelled by mistake and put
\* back is reminded of again; and an event that has become an internal meeting
\* has no reminder left.
TellsTheTime == note.status = "SCHEDULED" => told = event.start
IsRemindedAgain == rule.ativo /\ Eligible(event) /\ event.start > now => note.status # "CANCELED"
MeetingIsSilent == event.tipo = "REUNIAO_INTERNA" /\ event.status = "AGENDADO" => note.status # "SCHEDULED"

ReminderIsReconciled ==
    Followed /\ ~sent /\ Stored => TellsTheTime /\ IsRemindedAgain /\ MeetingIsSilent
=============================================================================
