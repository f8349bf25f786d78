----------------------------- MODULE RenderQueue -----------------------------
(***************************************************************************)
(* The exports of agendas and schedules as PDF or PNG inside one API       *)
(* process: renderExport of the two document renderers, the serial queue   *)
(* of ChromiumRendererService (chromium-renderer.service.ts) and the cache *)
(* they share.                                                             *)
(*                                                                         *)
(* An accepted request is a task chained on the promise renderQueue.  A    *)
(* task starts an execution (launch a browser, draw, close it) and races   *)
(* it against a timer; when the timer wins, the task is over and the       *)
(* execution goes on detached from it.                                     *)
(***************************************************************************)
EXTENDS Naturals, Sequences, FiniteSets

CONSTANTS
    Requests,   \* export requests; one is asked once
    Documents,  \* etags: input, format and page
    MaxWaiting  \* maxQueueWaiting, 3

ASSUME RenderAssumption ==
    /\ IsFiniteSet(Requests)
    /\ Documents # {}
    /\ MaxWaiting \in Nat

VARIABLES
    asked,          \* the document of a request
    task,           \* the promise of runSerialRender: "new", "waiting", "running", "over"
    wasQueued,      \* the constant of that name in runSerialRender
    line,           \* accepted tasks that have not started, in the order of the chain
    activeRenders,
    waitingCount,
    exec,           \* the execution of a task, attached or not
    told,           \* executions whose browser the timer has told to close
    result,         \* what an execution will return once its browser is closed
    answer,         \* what the caller got
    cache           \* documents documentCache.get would return

queue == <<task, wasQueued, line, activeRenders, waitingCount>>
vars == <<asked, queue, exec, told, result, answer, cache>>

Answers == {"none", "document", "notModified", "busy", "late", "failed"}
Running == {r \in Requests : task[r] = "running"}
Accepted == {r \in Requests : task[r] \in {"waiting", "running"}}
Queued == {r \in Requests : task[r] = "waiting" /\ wasQueued[r]}
\* A browser process exists or is being launched for the request.
Live == {r \in Requests : exec[r] \in {"launching", "drawing", "closing"}}

Init ==
    /\ asked \in [Requests -> Documents]
    /\ task = [r \in Requests |-> "new"]
    /\ wasQueued = [r \in Requests |-> FALSE]
    /\ line = <<>>
    /\ activeRenders = 0
    /\ waitingCount = 0
    /\ exec = [r \in Requests |-> "none"]
    /\ told = {}
    /\ result = [r \in Requests |-> "none"]
    /\ answer = [r \in Requests |-> "none"]
    /\ cache = {}

-----------------------------------------------------------------------------
Full == activeRenders > 0 /\ waitingCount >= MaxWaiting

\* renderExport before the queue: If-None-Match, then the cache.
answerAtOnce(r, how) ==
    /\ task[r] = "new"
    /\ how = "document" => asked[r] \in cache
    /\ task' = [task EXCEPT ![r] = "over"]
    /\ answer' = [answer EXCEPT ![r] = how]
    /\ UNCHANGED <<asked, wasQueued, line, activeRenders, waitingCount, exec, told, result, cache>>

\* runSerialRender refuses with 503.
refuse(r) ==
    /\ task[r] = "new" /\ asked[r] \notin cache /\ Full
    /\ task' = [task EXCEPT ![r] = "over"]
    /\ answer' = [answer EXCEPT ![r] = "busy"]
    /\ UNCHANGED <<asked, wasQueued, line, activeRenders, waitingCount, exec, told, result, cache>>

\* runSerialRender chains the task.
accept(r) ==
    /\ task[r] = "new" /\ asked[r] \notin cache /\ ~Full
    /\ task' = [task EXCEPT ![r] = "waiting"]
    /\ wasQueued' = [wasQueued EXCEPT ![r] = activeRenders > 0]
    /\ waitingCount' = IF activeRenders > 0 THEN waitingCount + 1 ELSE waitingCount
    /\ activeRenders' = 1
    /\ line' = Append(line, r)
    /\ UNCHANGED <<asked, exec, told, result, answer, cache>>

\* A mutated form of Turn, used by no action.
TurnAtOnce(r) == line # <<>> /\ Head(line) = r

\* The tasks before it on the chain are settled.
Turn(r) == line # <<>> /\ Head(line) = r /\ Running = {}

\* runTask and executeWithTimeout up to their first await: the timer is set
\* and launchBrowser is under way.
start(r) ==
    /\ Turn(r)
    /\ task' = [task EXCEPT ![r] = "running"]
    /\ line' = Tail(line)
    /\ waitingCount' = IF wasQueued[r] /\ waitingCount > 0 THEN waitingCount - 1 ELSE waitingCount
    /\ activeRenders' = 1
    /\ exec' = [exec EXCEPT ![r] = "launching"]
    /\ UNCHANGED <<asked, wasQueued, told, result, answer, cache>>

Released == IF waitingCount = 0 THEN 0 ELSE activeRenders

\* The race is decided: finally in runTask.
settle(r, how) ==
    /\ task' = [task EXCEPT ![r] = "over"]
    /\ answer' = [answer EXCEPT ![r] = how]
    /\ activeRenders' = Released
    /\ UNCHANGED <<wasQueued, line, waitingCount>>

\* A mutated form of timeout, used by no action.
timeoutOfBrowser(r) ==
    /\ r \in Running /\ exec[r] # "launching"
    /\ settle(r, "late")
    /\ told' = told \cup {r}
    /\ UNCHANGED <<asked, exec, result, cache>>

\* The timer: an open browser is told to close, which ends what it draws; one
\* that is still being launched is not known to the timer.
timeout(r) ==
    /\ r \in Running
    /\ settle(r, "late")
    /\ told' = IF exec[r] = "launching" THEN told ELSE told \cup {r}
    /\ UNCHANGED <<asked, exec, result, cache>>

\* A mutated form of launched, used by no action.
drawAnyway(r) ==
    /\ exec[r] = "launching"
    /\ exec' = [exec EXCEPT ![r] = "drawing"]
    /\ UNCHANGED <<asked, queue, told, result, answer, cache>>

\* launchBrowser succeeds; the document may have been drawn meanwhile.
launched(r) ==
    /\ exec[r] = "launching"
    /\ IF asked[r] \in cache
       THEN /\ exec' = [exec EXCEPT ![r] = "closing"]
            /\ result' = [result EXCEPT ![r] = "document"]
       ELSE /\ exec' = [exec EXCEPT ![r] = "drawing"]
            /\ UNCHANGED result
    /\ UNCHANGED <<asked, queue, told, answer, cache>>

\* Settles the execution; only an attached one settles its task.
end(r, how) ==
    /\ exec' = [exec EXCEPT ![r] = "done"]
    /\ told' = told \ {r}
    /\ result' = [result EXCEPT ![r] = "none"]
    /\ IF r \in Running THEN settle(r, how) ELSE UNCHANGED <<queue, answer>>
    /\ UNCHANGED <<asked, cache>>

\* Both attempts of launchBrowser fail.
launchFails(r) ==
    /\ exec[r] = "launching"
    /\ end(r, "failed")

\* The page is drawn and cached, unless the tenant's logo could not be
\* fetched or the document is too large for the cache.
drawn(r, cacheable) ==
    /\ exec[r] = "drawing"
    /\ exec' = [exec EXCEPT ![r] = "closing"]
    /\ result' = [result EXCEPT ![r] = "document"]
    /\ cache' = IF cacheable THEN cache \cup {asked[r]} ELSE cache
    /\ UNCHANGED <<asked, queue, told, answer>>

\* A call of the page throws: it failed, or the timer closed the browser.
drawFails(r) ==
    /\ exec[r] = "drawing"
    /\ exec' = [exec EXCEPT ![r] = "closing"]
    /\ result' = [result EXCEPT ![r] = "failed"]
    /\ UNCHANGED <<asked, queue, told, answer, cache>>

closed(r) ==
    /\ exec[r] = "closing"
    /\ end(r, result[r])

\* An entry expires or is the least recently used one.
evict(d) ==
    /\ d \in cache
    /\ cache' = cache \ {d}
    /\ UNCHANGED <<asked, queue, exec, told, result, answer>>

Task(r) == start(r) \/ timeout(r)
Execution(r) ==
    \/ launched(r) \/ launchFails(r)
    \/ \E cacheable \in BOOLEAN : drawn(r, cacheable)
    \/ drawFails(r) \/ closed(r)

Next ==
    \/ \E r \in Requests :
         \/ \E how \in {"document", "notModified"} : answerAtOnce(r, how)
         \/ refuse(r) \/ accept(r)
         \/ Task(r)
         \/ Execution(r)
    \/ \E d \in Documents : evict(d)

Spec == Init /\ [][Next]_vars

\* The event loop runs due timers and settled promises; nothing is assumed of
\* Chromium, which may hang.
FairSpec == Spec /\ \A r \in Requests : WF_vars(start(r)) /\ WF_vars(timeout(r))
-----------------------------------------------------------------------------
TypeOK ==
    /\ asked \in [Requests -> Documents]
    /\ task \in [Requests -> {"new", "waiting", "running", "over"}]
    /\ wasQueued \in [Requests -> BOOLEAN]
    /\ line \in Seq(Requests)
    /\ activeRenders \in {0, 1}
    /\ waitingCount \in Nat
    /\ exec \in [Requests -> {"none", "launching", "drawing", "closing", "done"}]
    /\ told \in SUBSET Requests
    /\ result \in [Requests -> {"none", "document", "failed"}]
    /\ answer \in [Requests -> Answers]
    /\ cache \in SUBSET Documents

\* The two counters tell the truth about the chain: whatever the order of
\* answers, errors and timeouts, the semaphore is taken exactly while an
\* accepted task is unfinished, and the requests refused with 503 are those
\* that find MaxWaiting others waiting, so that at most MaxWaiting + 1 tasks
\* are pending.
SemaphoreIsTruthful ==
    /\ activeRenders = 1 <=> Accepted # {}
    /\ waitingCount = Cardinality(Queued)

AdmissionBound == waitingCount <= MaxWaiting /\ Cardinality(Accepted) <= MaxWaiting + 1

\* Two browsers exist at a time only when all but one of them belong to
\* requests already answered with a timeout.
SecondBrowserIsLate ==
    \A r, q \in Live : r # q => "late" \in {answer[r], answer[q]}

\* The second look at the cache works: a document is never drawn while it is
\* cached, unless a detached execution drew it behind the back of the queue.
NoWastedDraw ==
    \A r \in Requests :
        exec[r] = "drawing" /\ asked[r] \in cache =>
            \E q \in Requests : asked[q] = asked[r] /\ answer[q] = "late"

\* Every accepted request is answered within its turn, though Chromium hangs.
EveryRequestIsAnswered == \A r \in Requests : task[r] = "waiting" ~> task[r] = "over"
=============================================================================
