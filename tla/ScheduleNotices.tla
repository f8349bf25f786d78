---------------------------- MODULE ScheduleNotices ----------------------------
(***************************************************************************)
(* What the people of a monthly schedule are told (escalas.service.ts,     *)
(* notifications.service.ts, notification-dispatch.service.ts).            *)
(*                                                                         *)
(* The first publication tells the people of the schedule, an answer tells *)
(* the leaders, and every process runs the daily jobs: birthdays and       *)
(* pending confirmations at 8 h, these again at 13 h, and the reminder of  *)
(* the day at 9 h.  A notice is looked up by its idempotency key, has its  *)
(* recipients resolved and is then created under a unique index.  All days *)
(* here fall on one date; how a notice is delivered is NotificationQueue,  *)
(* how turns are assigned ScheduleAssignments.                             *)
(***************************************************************************)
EXTENDS Naturals, Sequences

CONSTANTS
    Turns,      \* the items of one schedule (EscalaItem)
    Volunteers, \* users who serve
    Chiefs,     \* users who lead the ministry
    Holder,     \* the user linked to the member of a turn
    Celebrants, \* volunteers whose birthday is the eve of the schedule
    Hosts,      \* processes that run the jobs
    Askers,     \* requests
    Restless,   \* users whose account and preferences an instance changes
    Switchable, \* rules an instance switches
    MaxMinute,  \* bound: ticks of the clock
    MaxEffort   \* bound: jobs, requests, changes and faults

VARIABLES
    program,  \* status of the schedule, and its age by createdAt and updatedAt
    turn,     \* statusConfirmacao of each turn
    clock,    \* [phase, minute]
    silenced, \* <<user, preference>> switched off
    absent,   \* users whose account is not active
    ruleOff,  \* automation rules switched off
    job,      \* the job each process runs
    fired,    \* jobs that each process has started
    asker,    \* where each request is
    creating, \* creations between their look-up and their insert
    notices,  \* rows of Notification, with their recipients
    effort,   \* how much of MaxEffort is used
    lastWord, \* history: the answer of the latest notice to the leaders, per turn
    excused,  \* history: turns whose answers crossed, failed, repeated or were edited
    owed      \* history: per process, what its job found and is still due

noticeVars == <<program, turn, clock, silenced, absent, ruleOff, job, fired, asker, creating, notices, effort, lastWord, excused, owed>>

Users == Volunteers \cup Chiefs
Replies == {"CONFIRMADO", "RECUSADO"}
ConfirmationStates == Replies \cup {"PENDENTE"}
ProgramStates == {"RASCUNHO", "PUBLICADA", "ENCERRADA", "removed"}
Phases == <<"planning", "eve8", "eve13", "day9">>
NoticeRules == {"birthday", "community", "pending", "today"}
JobKinds == {"birthday", "pending", "today"}

ASSUME NoticesAssumption ==
    /\ Holder \in [Turns -> Volunteers] /\ Celebrants \subseteq Volunteers
    /\ Restless \subseteq Users /\ Switchable \subseteq NoticeRules
    /\ Turns \cap Users = {} /\ Volunteers \cap Chiefs = {} /\ Hosts \cap Askers = {} /\ "everyone" \notin Turns \cup Users
    /\ MaxMinute \in Nat /\ MaxEffort \in Nat \ {0}

NoJob == [kind |-> "none"]
NoAsk == [op |-> "idle"]
Topic(about, of) == [about |-> about, of |-> of]
\* The answer of a turn, told once for each minute.
AnswerTopic(t, reply, minute) == [about |-> "resp", of |-> t, reply |-> reply, minute |-> minute]

\* A new draft, which has no turns, or a schedule that was edited before it was
\* published, which counts as one change, and nobody has been told of its turns.
NoticesInit ==
    /\ \/ program = [status |-> "RASCUNHO", aged |-> FALSE, touched |-> FALSE] /\ turn = [t \in Turns |-> "none"] /\ effort = 0
       \/ program = [status |-> "PUBLICADA", aged |-> TRUE, touched |-> TRUE] /\ turn = [t \in Turns |-> "PENDENTE"] /\ effort = 1
    /\ clock = [phase |-> 1, minute |-> 0]
    /\ silenced = {} /\ absent = {} /\ ruleOff = {} /\ creating = {} /\ notices = {} /\ excused = {}
    /\ job = [h \in Hosts |-> NoJob]
    /\ fired = [h \in Hosts |-> {}]
    /\ asker = [q \in Askers |-> NoAsk]
    /\ lastWord = [t \in Turns |-> "none"]
    /\ owed = [h \in Hosts |-> {}]

Spends == effort < MaxEffort /\ effort' = effort + 1
InFlight(by) == {c \in creating : c.by = by}
-----------------------------------------------------------------------------
(* createNotification *)

\* filterUserIdsByPreferences: by the words of the key.
Preference(topic) ==
    CASE topic.about = "community" -> "notifyBirthdays"
      [] topic.about = "birthday" -> "none"
      [] OTHER -> "notifySchedules"

\* A mutated form of AlreadyTold, used by no action.
AlreadyBeingTold(topic) == \E n \in notices \cup creating : n.topic = topic

\* The look-up by the key.
AlreadyTold(topic) == \E n \in notices : n.topic = topic

\* A creation with the users it is for, less those who cannot or will not be
\* told: without recipients it still takes the key.
Creation(by, topic, users) ==
    [by |-> by, topic |-> topic, to |-> {u \in users : u \notin absent /\ <<u, Preference(topic)>> \notin silenced}]
Creations(by, calls) == {Creation(by, c[1], c[2]) : c \in {d \in calls : ~AlreadyTold(d[1])}}

\* The unique index on the key; P2002 returns the notice that has it.
KeyIsFree(topic) == \A n \in notices : n.topic # topic

createNotification(c) ==
    /\ c \in creating
    /\ creating' = creating \ {c}
    /\ notices' = IF KeyIsFree(c.topic) THEN notices \cup {c} ELSE notices
    /\ IF c.topic.about = "resp"
       THEN /\ lastWord' = IF KeyIsFree(c.topic) THEN [lastWord EXCEPT ![c.topic.of] = c.topic.reply] ELSE lastWord
            /\ excused' = IF KeyIsFree(c.topic) THEN excused ELSE excused \cup {c.topic.of}
       ELSE UNCHANGED <<lastWord, excused>>
    /\ UNCHANGED <<program, turn, clock, silenced, absent, ruleOff, job, fired, asker, effort>>

\* A statement of the creation fails: a job is given up with all it had not
\* come to, a request answers with an error.
createFails(c) ==
    /\ c \in creating /\ Spends
    /\ creating' = creating \ {c}
    /\ job' = [h \in Hosts |-> IF h = c.by THEN NoJob ELSE job[h]]
    /\ excused' = IF c.topic.about = "resp" THEN excused \cup {c.topic.of} ELSE excused
    /\ UNCHANGED <<program, turn, clock, silenced, absent, ruleOff, fired, asker, notices, lastWord>>
-----------------------------------------------------------------------------
(* The daily jobs *)

\* The runs that the cron of a process starts, by phase.
JobsOf(phase) == CASE phase = "eve8" -> {"birthday", "pending"} [] phase = "eve13" -> {"pending"} [] phase = "day9" -> {"today"} [] OTHER -> {}

Served(kind) == IF kind = "pending" THEN {"PENDENTE"} ELSE {"PENDENTE", "CONFIRMADO"}

\* What a job finds: turns of a published schedule held by active users, or the
\* people whose birthday it is, and then everyone else.
Found(kind) ==
    IF kind = "birthday"
    THEN (IF "birthday" \in ruleOff THEN {} ELSE Celebrants \ absent) \cup (IF "community" \in ruleOff THEN {} ELSE {"everyone"})
    ELSE {t \in Turns : program.status = "PUBLICADA" /\ turn[t] \in Served(kind) /\ Holder[t] \notin absent}

\* runBirthdayNotificationJob, runPendingConfirmationReminderJob and
\* runScheduleDayReminderJob read what they are about.
startJob(h, kind) ==
    /\ job[h] = NoJob /\ Spends
    /\ kind \in JobsOf(Phases[clock.phase])
    /\ <<kind, clock.phase>> \notin fired[h]
    /\ fired' = [fired EXCEPT ![h] = @ \cup {<<kind, clock.phase>>}]
    /\ job' = [job EXCEPT ![h] = [kind |-> kind, todo |-> Found(kind), stars |-> Celebrants \ absent]]
    /\ UNCHANGED <<program, turn, clock, silenced, absent, ruleOff, asker, creating, notices, lastWord, excused>>

\* What the notice on one of them is, and for whom.
CallFor(j, x) ==
    CASE x = "everyone" -> <<Topic("community", "everyone"), Users \ (absent \cup j.stars)>>
      [] x \in Volunteers -> <<Topic("birthday", x), {x}>>
      [] OTHER -> <<Topic(j.kind, x), {Holder[x]}>>

\* One of the things found, everyone last; the job waits for each creation. The
\* rule of a turn is read for each turn.
visit(h, x) ==
    LET j == job[h] IN
    /\ j # NoJob /\ x \in j.todo /\ InFlight(h) = {}
    /\ x = "everyone" => j.todo = {x}
    /\ job' = [job EXCEPT ![h].todo = @ \ {x}]
    /\ creating' = IF (x \in Turns /\ j.kind \in ruleOff) \/ (x = "everyone" /\ CallFor(j, x)[2] = {})
                   THEN creating ELSE creating \cup Creations(h, {CallFor(j, x)})
    /\ UNCHANGED <<program, turn, clock, silenced, absent, ruleOff, fired, asker, notices, effort, lastWord, excused>>

JobIsThrough(h) == job[h] # NoJob /\ job[h].todo = {} /\ InFlight(h) = {}
endJob(h) ==
    /\ JobIsThrough(h)
    /\ job' = [job EXCEPT ![h] = NoJob]
    /\ UNCHANGED <<program, turn, clock, silenced, absent, ruleOff, fired, asker, creating, notices, effort, lastWord, excused>>

\* The process stops: its job is lost, and cron does not start it again.
hostStops(h) ==
    /\ job[h] # NoJob /\ Spends
    /\ job' = [job EXCEPT ![h] = NoJob]
    /\ creating' = creating \ InFlight(h)
    /\ UNCHANGED <<program, turn, clock, silenced, absent, ruleOff, fired, asker, notices, lastWord, excused>>
-----------------------------------------------------------------------------
(* Publication *)

isValidStatusTransition(current, next) ==
    <<current, next>> \in {<<"RASCUNHO", "PUBLICADA">>, <<"PUBLICADA", "ENCERRADA">>, <<"PUBLICADA", "RASCUNHO">>, <<"ENCERRADA", "PUBLICADA">>}

\* update reads the schedule; shouldNotifyPublished is decided here.
updateProgram(q, status) ==
    /\ asker[q] = NoAsk /\ Spends
    /\ program.status # "removed"
    /\ status = program.status \/ isValidStatusTransition(program.status, status)
    /\ asker' = [asker EXCEPT ![q] = [op |-> "update", status |-> status,
           first |-> program.status = "RASCUNHO" /\ status = "PUBLICADA" /\ ~program.touched]]
    /\ UNCHANGED <<program, turn, clock, silenced, absent, ruleOff, job, fired, creating, notices, lastWord, excused>>

\* Every write moves updatedAt; in the first second that cannot be told.
writeProgram(q) ==
    LET a == asker[q] IN
    /\ a.op = "update"
    /\ IF program.status = "removed"
       THEN asker' = [asker EXCEPT ![q] = NoAsk] /\ UNCHANGED program
       ELSE /\ program' = [program EXCEPT !.status = a.status, !.touched = @ \/ program.aged]
            /\ asker' = [asker EXCEPT ![q] = IF a.first THEN [op |-> "announce"] ELSE NoAsk]
    /\ UNCHANGED <<turn, clock, silenced, absent, ruleOff, job, fired, creating, notices, effort, lastWord, excused>>

\* notifyEscalaPublished reads the schedule again, and tells each active user once.
notifyEscalaPublished(q) ==
    LET people == IF program.status = "PUBLICADA" THEN {Holder[t] : t \in {s \in Turns : turn[s] \in ConfirmationStates}} \ absent ELSE {} IN
    /\ asker[q].op = "announce"
    /\ creating' = creating \cup Creations(q, {<<Topic("published", u), {u}>> : u \in people})
    /\ asker' = [asker EXCEPT ![q] = [op |-> "await"]]
    /\ UNCHANGED <<program, turn, clock, silenced, absent, ruleOff, job, fired, notices, effort, lastWord, excused>>

\* update with observacoes only: the draft is touched.
editNotes ==
    /\ program.status # "removed" /\ program.aged /\ ~program.touched /\ Spends
    /\ program' = [program EXCEPT !.touched = TRUE]
    /\ UNCHANGED <<turn, clock, silenced, absent, ruleOff, job, fired, asker, creating, notices, lastWord, excused>>

\* remove of the schedule takes its turns with it.
removeProgram ==
    /\ program.status # "removed" /\ Spends
    /\ program' = [program EXCEPT !.status = "removed"]
    /\ turn' = [t \in Turns |-> "gone"]
    /\ UNCHANGED <<clock, silenced, absent, ruleOff, job, fired, asker, creating, notices, lastWord, excused>>

\* addMembro and removeMembro, on a schedule that is not closed.
addTurn(t) ==
    /\ program.status \in {"RASCUNHO", "PUBLICADA"} /\ turn[t] = "none" /\ Spends
    /\ turn' = [turn EXCEPT ![t] = "PENDENTE"]
    /\ UNCHANGED <<program, clock, silenced, absent, ruleOff, job, fired, asker, creating, notices, lastWord, excused>>
removeTurn(t) ==
    /\ program.status \in {"RASCUNHO", "PUBLICADA"} /\ turn[t] \in ConfirmationStates /\ Spends
    /\ turn' = [turn EXCEPT ![t] = "gone"]
    /\ UNCHANGED <<program, clock, silenced, absent, ruleOff, job, fired, asker, creating, notices, lastWord, excused>>
-----------------------------------------------------------------------------
(* Answers *)

\* A mutated form of ShouldTellLeaders, used by no action.
ShouldTellRefusals(before, after) == before # after /\ after = "RECUSADO"

ShouldTellLeaders(before, after) == before # after /\ after \in Replies

BeingAnswered(t) ==
    \/ \E q \in Askers : asker[q].op \in {"answer", "tell"} /\ asker[q].turn = t
    \/ \E c \in creating : c.topic.about = "resp" /\ c.topic.of = t

\* confirmar reads the turn of a published schedule: the volunteer answers for
\* himself, a leader for anyone.
confirmar(q, t, status, actor) ==
    /\ asker[q] = NoAsk /\ Spends
    /\ turn[t] \in ConfirmationStates /\ program.status = "PUBLICADA"
    /\ actor \in Chiefs \/ actor = Holder[t]
    /\ asker' = [asker EXCEPT ![q] = [op |-> "answer", turn |-> t, status |-> status, actor |-> actor, tell |-> ShouldTellLeaders(turn[t], status)]]
    /\ excused' = IF BeingAnswered(t) THEN excused \cup {t} ELSE excused
    /\ UNCHANGED <<program, turn, clock, silenced, absent, ruleOff, job, fired, creating, notices, lastWord>>

writeAnswer(q) ==
    LET a == asker[q] IN
    /\ a.op = "answer"
    /\ IF turn[a.turn] \in ConfirmationStates
       THEN /\ turn' = [turn EXCEPT ![a.turn] = a.status]
            /\ asker' = [asker EXCEPT ![q] = IF a.tell THEN [a EXCEPT !.op = "tell"] ELSE NoAsk]
       ELSE asker' = [asker EXCEPT ![q] = NoAsk] /\ UNCHANGED turn
    /\ UNCHANGED <<program, clock, silenced, absent, ruleOff, job, fired, creating, notices, effort, lastWord, excused>>

\* notifyLeadershipAboutConfirmationResponse: the leaders, but for who answered.
\* An answer told in this minute already is not told again.
tellLeaders(q) ==
    LET a == asker[q]
        topic == AnswerTopic(a.turn, a.status, clock.minute)
        chiefs == Chiefs \ (absent \cup {a.actor})
    IN
    /\ a.op = "tell"
    /\ creating' = IF chiefs = {} THEN creating ELSE creating \cup Creations(q, {<<topic, chiefs>>})
    /\ asker' = [asker EXCEPT ![q] = [op |-> "await"]]
    /\ excused' = IF chiefs = {} \/ AlreadyTold(topic) THEN excused \cup {a.turn} ELSE excused
    /\ UNCHANGED <<program, turn, clock, silenced, absent, ruleOff, job, fired, notices, effort, lastWord>>

\* updateItemStatus: a leader sets the status, in any state of the schedule, and
\* nobody is told.
updateItemStatus(t, status) ==
    /\ turn[t] \in ConfirmationStates \ {status} /\ Spends
    /\ turn' = [turn EXCEPT ![t] = status]
    /\ excused' = excused \cup {t}
    /\ UNCHANGED <<program, clock, silenced, absent, ruleOff, job, fired, asker, creating, notices, lastWord>>

\* A request ends once its creations have, and may be cut off before.
requestEnds(q) ==
    /\ asker[q].op = "await" /\ InFlight(q) = {}
    /\ asker' = [asker EXCEPT ![q] = NoAsk]
    /\ UNCHANGED <<program, turn, clock, silenced, absent, ruleOff, job, fired, creating, notices, effort, lastWord, excused>>
requestCutOff(q) ==
    /\ asker[q] # NoAsk /\ Spends
    /\ asker' = [asker EXCEPT ![q] = NoAsk]
    /\ creating' = creating \ InFlight(q)
    /\ excused' = excused \cup {c.topic.of : c \in {d \in InFlight(q) : d.topic.about = "resp"}}
                          \cup (IF asker[q].op = "tell" THEN {asker[q].turn} ELSE {})
    /\ UNCHANGED <<program, turn, clock, silenced, absent, ruleOff, job, fired, notices, lastWord>>
-----------------------------------------------------------------------------
(* Accounts, preferences and rules *)

\* An account is switched off or on (updateUser, deleteUser).
switchUser(u) ==
    /\ Spends
    /\ absent' = IF u \in absent THEN absent \ {u} ELSE absent \cup {u}
    /\ UNCHANGED <<program, turn, clock, silenced, ruleOff, job, fired, asker, creating, notices, lastWord, excused>>

\* updateUserPreferences.
updateUserPreferences(u, preference) ==
    LET p == <<u, preference>> IN
    /\ Spends
    /\ silenced' = IF p \in silenced THEN silenced \ {p} ELSE silenced \cup {p}
    /\ UNCHANGED <<program, turn, clock, absent, ruleOff, job, fired, asker, creating, notices, lastWord, excused>>

\* updateRules and resetRule: a rule without a row is on.
updateRules(rule) ==
    /\ Spends
    /\ ruleOff' = IF rule \in ruleOff THEN ruleOff \ {rule} ELSE ruleOff \cup {rule}
    /\ UNCHANGED <<program, turn, clock, silenced, absent, job, fired, asker, creating, notices, lastWord, excused>>

\* Minutes pass, and with them the phases; the first second of the schedule too.
tick(phase) ==
    /\ clock.minute < MaxMinute /\ phase \in {clock.phase, clock.phase + 1} /\ phase <= Len(Phases)
    /\ clock' = [phase |-> phase, minute |-> clock.minute + 1]
    /\ program' = [program EXCEPT !.aged = TRUE]
    /\ UNCHANGED <<turn, silenced, absent, ruleOff, job, fired, asker, creating, notices, effort, lastWord, excused>>

NoticeSteps ==
    \/ \E c \in creating : createNotification(c) \/ createFails(c)
    \/ \E h \in Hosts :
         \/ \E kind \in JobKinds : startJob(h, kind)
         \/ \E x \in Turns \cup Celebrants \cup {"everyone"} : visit(h, x)
         \/ endJob(h) \/ hostStops(h)
    \/ \E q \in Askers :
         \/ \E status \in ProgramStates : updateProgram(q, status)
         \/ \E t \in Turns, status \in ConfirmationStates, actor \in Users : confirmar(q, t, status, actor)
         \/ writeProgram(q) \/ notifyEscalaPublished(q) \/ writeAnswer(q) \/ tellLeaders(q) \/ requestEnds(q) \/ requestCutOff(q)
    \/ \E t \in Turns : addTurn(t) \/ removeTurn(t) \/ \E status \in ConfirmationStates : updateItemStatus(t, status)
    \/ editNotes \/ removeProgram
    \/ \E u \in Restless : switchUser(u) \/ \E p \in {"notifySchedules", "notifyBirthdays"} : updateUserPreferences(u, p)
    \/ \E rule \in Switchable : updateRules(rule)
    \/ \E phase \in DOMAIN Phases : tick(phase)

\* What a job found and would still find.
StillOwed == [h \in Hosts |->
    IF job'[h] = NoJob THEN {}
    ELSE {x \in (IF job[h] = NoJob THEN job'[h].todo \ {"everyone"} ELSE owed[h]) :
            x \in Turns => \E kind \in JobKinds \ ruleOff' : job'[h].kind = kind /\ (x \in Found(kind))'}]

NoticesNext == NoticeSteps /\ owed' = StillOwed

NoticesSpec == NoticesInit /\ [][NoticesNext]_noticeVars
-----------------------------------------------------------------------------
Topics ==
    [about : {"pending", "today"}, of : Turns] \cup [about : {"birthday", "published"}, of : Volunteers]
    \cup {Topic("community", "everyone")} \cup [about : {"resp"}, of : Turns, reply : Replies, minute : 0..MaxMinute]
Rows == [by : Hosts \cup Askers, topic : Topics, to : SUBSET Users]

\* Every variable keeps its type.
NoticesTypeOK ==
    /\ program \in [status : ProgramStates, aged : BOOLEAN, touched : BOOLEAN]
    /\ turn \in [Turns -> ConfirmationStates \cup {"none", "gone"}]
    /\ clock \in [phase : DOMAIN Phases, minute : 0..MaxMinute]
    /\ silenced \subseteq Users \X {"notifySchedules", "notifyBirthdays"} /\ absent \subseteq Users /\ ruleOff \subseteq NoticeRules
    /\ job \in [Hosts -> {NoJob} \cup [kind : JobKinds, todo : SUBSET (Turns \cup Celebrants \cup {"everyone"}), stars : SUBSET Celebrants]]
    /\ fired \in [Hosts -> SUBSET (JobKinds \X DOMAIN Phases)]
    /\ asker \in [Askers -> {NoAsk} \cup [op : {"announce", "await"}]
         \cup [op : {"update"}, status : ProgramStates, first : BOOLEAN]
         \cup [op : {"answer", "tell"}, turn : Turns, status : ConfirmationStates, actor : Users, tell : BOOLEAN]]
    /\ creating \subseteq Rows /\ notices \subseteq Rows
    /\ effort \in 0..MaxEffort
    /\ lastWord \in [Turns -> Replies \cup {"none"}] /\ excused \subseteq Turns
    /\ owed \in [Hosts -> SUBSET (Turns \cup Celebrants)]

\* However many processes run the jobs, and at both hours: nobody has the same
\* thing twice, a reminder of a turn, a birthday or the publication.
NobodyIsToldTwice ==
    \A m, n \in notices : m.topic.about # "resp" /\ m.topic = n.topic => m = n

\* A job that has gone through has a notice for all it found and would still
\* find, whoever created it: no turn is passed over because another process
\* was at it and failed, or because of what the job met before it.
EveryFindIsTold ==
    \A h \in Hosts : JobIsThrough(h) => \A x \in owed[h] : AlreadyTold(CallFor(job[h], x)[1])

\* The last thing the leaders were told of a turn is its answer, once no request
\* is under way: unless answers crossed, a notice failed or was left out for a
\* repetition within the minute, or a leader wrote the answer himself.
LeadersHearTheAnswer ==
    \A t \in Turns : (\A q \in Askers : asker[q] = NoAsk) /\ t \notin excused /\ turn[t] \in Replies => lastWord[t] = turn[t]

\* What the daily jobs find is told once and only once, by whichever process:
\* the key keeps from telling twice and hides nothing that failed.
EveryFindIsToldOnce == NobodyIsToldTwice /\ EveryFindIsTold
=============================================================================
