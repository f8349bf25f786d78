-------------------------- MODULE NotificationQueue --------------------------
(***************************************************************************)
(* The persistent notification queue of the API: the tables Notification   *)
(* (one header per notification), NotificationRecipient (one row per       *)
(* header and user) and PushSubscription, the worker that every API        *)
(* process runs over them every 15 seconds                                 *)
(* (notification-queue-processor.service.ts), and the operations of the    *)
(* notification centre (notification-dispatch.service.ts) that rewrite the *)
(* same rows while the workers run.                                        *)
(*                                                                         *)
(* One action is one statement or transaction of the database, together    *)
(* with the local computation up to the next await, so that every          *)
(* interleaving of processes at their awaits is a behaviour.  A worker     *)
(* keeps what it has read in local variables (batch, seen, todo, tally,    *)
(* verdict) and writes from them later, without reading again, as the code *)
(* does.                                                                   *)
(*                                                                         *)
(* Time is abstracted: scheduled_at is either reached or not (due), and    *)
(* locked_until is null, in the future ("live") or passed ("lapsed").      *)
(***************************************************************************)
EXTENDS Naturals, FiniteSets

CONSTANTS
    Notifications,  \* ids of tb_notification; an id is used once (uuid)
    Users,          \* users of one tenant
    Subs,           \* push endpoints (PushSubscription.endpoint is unique)
    NoUser,         \* the owner of an endpoint with ativo = false
    Workers,        \* API processes, each with its own isProcessing flag
    Admins,         \* requests in flight in the notification centre
    MaxAttempts,    \* 3 in deliverRecipient
    BatchSize,      \* 50 in the processor
    MaxCrashes      \* bound on abandoned batches

ASSUME QueueAssumption ==
    /\ NoUser \notin Users
    /\ MaxAttempts \in Nat \ {0}
    /\ BatchSize \in Nat \ {0}
    /\ MaxCrashes \in Nat

Recipients == Notifications \X Users
HeaderOf(r) == r[1]
UserOf(r) == r[2]
RowsOf(n) == {r \in Recipients : HeaderOf(r) = n}

VARIABLES
    header,     \* Notification.status, "absent" before create and after delete
    due,        \* Notification.scheduledAt <= now
    status,     \* NotificationRecipient.status, "absent" when there is no row
    attempts,   \* NotificationRecipient.tentativas
    lock,       \* NotificationRecipient.lockedUntil
    owner,      \* the user an active endpoint belongs to, NoUser if inactive
    pc,         \* where each worker is
    batch,      \* rows a worker claimed and has not finished
    seen,       \* attempt_count of those rows when they were claimed
    cur,        \* the row a worker is delivering, one per worker
    todo,       \* endpoints of the row still to be pushed to
    tally,      \* what the pushes of the row gave so far
    touched,    \* touchedNotificationIds still to be settled
    verdict,    \* the final status a worker has counted for a header, not yet written
    request,    \* what each request of the centre is about to write
    crashes,    \* batches abandoned so far
    delivered,  \* history: deliveries of a row that reached the user, up to 2
    reclaimed,  \* history: rows claimed again when their lease lapsed in PROCESSING
    retried     \* history: rows put back by retryFailedRecipients

tables == <<header, due, status, attempts, lock, owner>>
rows == <<status, attempts, lock>>
locals == <<pc, batch, seen, cur, todo, tally, touched, verdict>>
history == <<crashes, delivered, reclaimed, retried>>
vars == <<tables, locals, request, history>>

-----------------------------------------------------------------------------
HeaderStatus == {"absent", "SCHEDULED", "PROCESSING", "COMPLETED", "FAILED", "CANCELED", "deleted"}
RowStatus == {"absent", "PENDING", "PROCESSING", "SENT", "FAILED_RETRYABLE", "FAILED_PERMANENT", "NO_SUBSCRIPTION"}
Finals == {"COMPLETED", "FAILED"}
NoVerdict == [n \in Notifications |-> "none"]
Open == {"PENDING", "PROCESSING", "FAILED_RETRYABLE"}

Idle == [op |-> "idle"]
Ops == {"cancel", "reschedule", "update", "retry", "requeue"}
\* read: the status in the header a request has read; due: the date it writes.
Requests == {Idle} \cup [op : Ops, of : Notifications, read : HeaderStatus, due : BOOLEAN]

Exists(n) == header[n] \notin {"absent", "deleted"}

\* A mutated form of OpenRows, used by no action.
OpenRowsButBackoff(n) == {r \in RowsOf(n) : status[r] \in {"PENDING", "PROCESSING"}}

OpenRows(n) == {r \in RowsOf(n) : status[r] \in Open}

\* A mutated form of Claimable, used by no action.
ClaimableUnlessProcessing(r) ==
    /\ status[r] \in Open \ {"PROCESSING"} /\ lock[r] # "live"
    /\ header[HeaderOf(r)] \in {"SCHEDULED", "PROCESSING"} /\ due[HeaderOf(r)]

\* The rows the SELECT of claimBatch returns.
Claimable(r) ==
    /\ status[r] \in Open
    /\ status[r] = "PROCESSING" => lock[r] = "lapsed"
    /\ header[HeaderOf(r)] \in {"SCHEDULED", "PROCESSING"}
    /\ due[HeaderOf(r)]
    /\ lock[r] # "live"

Init ==
    /\ header = [n \in Notifications |-> "absent"]
    /\ due = [n \in Notifications |-> FALSE]
    /\ status = [r \in Recipients |-> "absent"]
    /\ attempts = [r \in Recipients |-> 0]
    /\ lock = [r \in Recipients |-> "null"]
    /\ owner \in [Subs -> Users \cup {NoUser}]
    /\ pc = [w \in Workers |-> "idle"]
    /\ batch = [w \in Workers |-> {}]
    /\ seen = [w \in Workers |-> [r \in Recipients |-> 0]]
    /\ cur = [w \in Workers |-> {}]
    /\ todo = [w \in Workers |-> {}]
    /\ tally = [w \in Workers |-> "noSubs"]
    /\ touched = [w \in Workers |-> {}]
    /\ verdict = [w \in Workers |-> NoVerdict]
    /\ request = [a \in Admins |-> Idle]
    /\ crashes = 0
    /\ delivered = [r \in Recipients |-> 0]
    /\ reclaimed = [r \in Recipients |-> FALSE]
    /\ retried = [r \in Recipients |-> FALSE]

-----------------------------------------------------------------------------
(***************************************************************************)
(* createNotification: the row of every target is PENDING or               *)
(* NO_SUBSCRIPTION by a read of the subscriptions made before the insert,  *)
(* so that either status may disagree with the subscriptions at the        *)
(* insert: withPush is any subset of the targets.                          *)
(***************************************************************************)
createNotification(n, targets, withPush, now) ==
    /\ header[n] = "absent"
    /\ withPush \subseteq targets
    /\ header' = [header EXCEPT ![n] = IF targets = {} THEN "COMPLETED" ELSE "SCHEDULED"]
    /\ due' = [due EXCEPT ![n] = now]
    /\ status' = [r \in Recipients |->
                    IF r \notin {n} \X targets THEN status[r]
                    ELSE IF UserOf(r) \in withPush THEN "PENDING" ELSE "NO_SUBSCRIPTION"]
    /\ UNCHANGED <<attempts, lock, owner, locals, request, history>>

\* scheduled_at is reached.
BecomesDue(n) ==
    /\ Exists(n) /\ ~due[n]
    /\ due' = [due EXCEPT ![n] = TRUE]
    /\ UNCHANGED <<header, rows, owner, locals, request, history>>

\* locked_until is reached: a lease of two minutes or a backoff of one or two.
LockLapses(r) ==
    /\ lock[r] = "live"
    /\ lock' = [lock EXCEPT ![r] = "lapsed"]
    /\ UNCHANGED <<header, due, status, attempts, owner, locals, request, history>>

\* upsertSubscription: the endpoint becomes active for u, whoever had it.
upsertSubscription(u, s) ==
    /\ owner[s] # u
    /\ owner' = [owner EXCEPT ![s] = u]
    /\ UNCHANGED <<header, due, rows, locals, request, history>>

deleteSubscription(u, s) ==
    /\ owner[s] = u
    /\ owner' = [owner EXCEPT ![s] = NoUser]
    /\ UNCHANGED <<header, due, rows, locals, request, history>>

-----------------------------------------------------------------------------
(***************************************************************************)
(* The worker.  handleCron starts no batch while one runs in the same      *)
(* process (pc # "idle").                                                  *)
(***************************************************************************)
claimBatch(w, claimed) ==
    LET free == {r \in Recipients : Claimable(r)} IN
    /\ pc[w] = "idle"
    /\ claimed # {} /\ claimed \subseteq free
    /\ Cardinality(claimed) <= BatchSize
    /\ Cardinality(claimed) < BatchSize => claimed = free
    /\ status' = [r \in Recipients |-> IF r \in claimed THEN "PROCESSING" ELSE status[r]]
    /\ lock' = [r \in Recipients |-> IF r \in claimed THEN "live" ELSE lock[r]]
    /\ header' = [n \in Notifications |->
                    IF header[n] = "SCHEDULED" /\ \E r \in claimed : HeaderOf(r) = n
                    THEN "PROCESSING" ELSE header[n]]
    /\ reclaimed' = [r \in Recipients |-> reclaimed[r] \/ (r \in claimed /\ status[r] = "PROCESSING" /\ lock[r] = "lapsed")]
    /\ pc' = [pc EXCEPT ![w] = "deliver"]
    /\ batch' = [batch EXCEPT ![w] = claimed]
    /\ seen' = [seen EXCEPT ![w] = [r \in Recipients |-> IF r \in claimed THEN attempts[r] ELSE 0]]
    /\ touched' = [touched EXCEPT ![w] = {HeaderOf(r) : r \in claimed}]
    /\ UNCHANGED <<due, attempts, owner, cur, todo, tally, verdict, request, crashes, delivered, retried>>

\* deliverRecipient, its read of the active subscriptions of the user.
readSubscriptions(w, r) ==
    LET subscriptions == {s \in Subs : owner[s] = UserOf(r)} IN
    /\ pc[w] = "deliver" /\ r \in batch[w]
    /\ pc' = [pc EXCEPT ![w] = "push"]
    /\ cur' = [cur EXCEPT ![w] = {r}]
    /\ todo' = [todo EXCEPT ![w] = subscriptions]
    /\ tally' = [tally EXCEPT ![w] = IF subscriptions = {} THEN "noSubs" ELSE "allExpired"]
    /\ UNCHANGED <<tables, batch, seen, touched, verdict, request, history>>

\* One turn of the loop over the subscriptions read: the gateway accepts the
\* push, answers 404 or 410, or fails in another way.
sendPush(w, s, answer) ==
    /\ pc[w] = "push" /\ s \in todo[w]
    /\ todo' = [todo EXCEPT ![w] = @ \ {s}]
    /\ tally' = [tally EXCEPT ![w] =
                   CASE answer = "ok" -> "sent"
                     [] answer = "error" /\ @ # "sent" -> "failed"
                     [] OTHER -> @]
    /\ owner' = IF answer = "gone" THEN [owner EXCEPT ![s] = NoUser] ELSE owner
    /\ delivered' = [r \in Recipients |->
                       IF r \in cur[w] /\ answer = "ok" /\ tally[w] # "sent" /\ delivered[r] < 2
                       THEN delivered[r] + 1 ELSE delivered[r]]
    /\ UNCHANGED <<header, due, rows, pc, batch, seen, cur, touched, verdict, request, crashes, reclaimed, retried>>

\* A mutated form of Outcome, used by no action.
OutcomeNobodySent(t, n) ==
    CASE t \in {"noSubs", "sent"} -> "SENT"
      [] t = "allExpired" -> "FAILED_PERMANENT"
      [] t = "failed" -> IF n >= MaxAttempts THEN "FAILED_PERMANENT" ELSE "FAILED_RETRYABLE"

\* The update that ends deliverRecipient, by id and on no other condition.
\* The row may have been deleted: the update throws and the batch is lost.
Outcome(t, n) ==
    CASE t = "noSubs" -> "NO_SUBSCRIPTION"
      [] t = "sent" -> "SENT"
      [] t = "allExpired" -> "FAILED_PERMANENT"
      [] t = "failed" -> IF n >= MaxAttempts THEN "FAILED_PERMANENT" ELSE "FAILED_RETRYABLE"

finishRecipient(w, r) ==
    LET nextAttempts == seen[w][r] + 1
        outcome == Outcome(tally[w], nextAttempts) IN
    /\ pc[w] = "push" /\ cur[w] = {r} /\ todo[w] = {}
    /\ status[r] # "absent"
    /\ status' = [status EXCEPT ![r] = outcome]
    /\ attempts' = [attempts EXCEPT ![r] = IF tally[w] \in {"allExpired", "failed"} THEN nextAttempts ELSE @]
    /\ lock' = [lock EXCEPT ![r] = IF outcome = "FAILED_RETRYABLE" THEN "live" ELSE "null"]
    /\ batch' = [batch EXCEPT ![w] = @ \ {r}]
    /\ seen' = [seen EXCEPT ![w][r] = 0]
    /\ cur' = [cur EXCEPT ![w] = {}]
    /\ tally' = [tally EXCEPT ![w] = "noSubs"]
    /\ pc' = [pc EXCEPT ![w] = IF batch[w] = {r} THEN "settle" ELSE "deliver"]
    /\ UNCHANGED <<header, due, owner, todo, touched, verdict, request, history>>

\* updateNotificationCompletionStatus, its count of the rows by status.
countRows(w, n) ==
    LET sent == {r \in RowsOf(n) : status[r] = "SENT"} IN
    /\ pc[w] = "settle" /\ n \in touched[w] /\ verdict[w] = NoVerdict
    /\ IF OpenRows(n) # {}
       THEN /\ touched' = [touched EXCEPT ![w] = @ \ {n}]
            /\ UNCHANGED verdict
       ELSE /\ verdict' = [verdict EXCEPT ![w][n] = IF sent # {} THEN "COMPLETED" ELSE "FAILED"]
            /\ UNCHANGED touched
    /\ UNCHANGED <<tables, pc, batch, seen, cur, todo, tally, request, history>>

\* ... and its update of the header, again by id only.
writeVerdict(w, n) ==
    /\ pc[w] = "settle" /\ verdict[w][n] # "none" /\ Exists(n)
    /\ header' = [header EXCEPT ![n] = verdict[w][n]]
    /\ verdict' = [verdict EXCEPT ![w] = NoVerdict]
    /\ touched' = [touched EXCEPT ![w] = @ \ {n}]
    /\ UNCHANGED <<due, rows, owner, pc, batch, seen, cur, todo, tally, request, history>>

\* The batch is done: handleCron claims the next one or waits for the timer.
endBatch(w) ==
    /\ pc[w] = "settle" /\ touched[w] = {}
    /\ pc' = [pc EXCEPT ![w] = "idle"]
    /\ UNCHANGED <<tables, batch, seen, cur, todo, tally, touched, verdict, request, history>>

Reset(w) ==
    /\ pc' = [pc EXCEPT ![w] = "idle"]
    /\ batch' = [batch EXCEPT ![w] = {}]
    /\ cur' = [cur EXCEPT ![w] = {}]
    /\ todo' = [todo EXCEPT ![w] = {}]
    /\ touched' = [touched EXCEPT ![w] = {}]
    /\ verdict' = [verdict EXCEPT ![w] = NoVerdict]
    /\ seen' = [seen EXCEPT ![w] = [r \in Recipients |-> 0]]
    /\ tally' = [tally EXCEPT ![w] = "noSubs"]

\* An update of a deleted row throws (P2025); handleCron catches it, and the
\* rest of the batch is left as it was claimed.
rowIsGone(w) ==
    \/ \E r \in cur[w] : todo[w] = {} /\ status[r] = "absent"
    \/ \E n \in Notifications : verdict[w][n] # "none" /\ ~Exists(n)

throwAway(w) ==
    /\ rowIsGone(w)
    /\ Reset(w)
    /\ UNCHANGED <<tables, request, history>>

\* The process dies, or a statement fails, anywhere in a batch.
crash(w) ==
    /\ pc[w] # "idle"
    /\ crashes < MaxCrashes
    /\ crashes' = crashes + 1
    /\ Reset(w)
    /\ UNCHANGED <<tables, request, delivered, reclaimed, retried>>

Worker(w) ==
    \/ \E claimed \in SUBSET Recipients : claimBatch(w, claimed)
    \/ \E r \in Recipients : readSubscriptions(w, r) \/ finishRecipient(w, r)
    \/ \E s \in Subs, answer \in {"ok", "gone", "error"} : sendPush(w, s, answer)
    \/ \E n \in Notifications : countRows(w, n) \/ writeVerdict(w, n)
    \/ endBatch(w)
    \/ throwAway(w)

-----------------------------------------------------------------------------
(***************************************************************************)
(* The notification centre and the event module.  A request reads the      *)
(* header, tests its status, and writes in a later statement.              *)
(***************************************************************************)
Start(a, n, op, d) ==
    /\ request[a] = Idle /\ Exists(n)
    /\ request' = [request EXCEPT ![a] = [op |-> op, of |-> n, read |-> header[n], due |-> d]]
    /\ UNCHANGED <<tables, locals, history>>

startCancel(a, n) == header[n] # "COMPLETED" /\ Start(a, n, "cancel", FALSE)

\* A mutated form of startReschedule, used by no action.
startRescheduleCancelled(a, n, d) == header[n] # "COMPLETED" /\ Start(a, n, "reschedule", d)

\* The new date may be past: only updateScheduledNotification refuses that.
startReschedule(a, n, d) == header[n] \notin {"COMPLETED", "CANCELED"} /\ Start(a, n, "reschedule", d)

\* Without a new date the date read is written back; with one it is a future date.
startUpdate(a, n, d) == header[n] = "SCHEDULED" /\ d \in {FALSE, due[n]} /\ Start(a, n, "update", d)

startRetry(a, n) == Start(a, n, "retry", FALSE)

Asked(a, n, op) == request[a] \in [op : {op}, of : {n}, read : HeaderStatus, due : BOOLEAN]
Done(a) == request' = [request EXCEPT ![a] = Idle]

\* update by id of a header that was deleted in between throws: nothing is written.
write(a, n, op, st, d) ==
    /\ Asked(a, n, op)
    /\ Done(a)
    /\ header' = IF Exists(n) THEN [header EXCEPT ![n] = st] ELSE header
    /\ due' = IF Exists(n) THEN [due EXCEPT ![n] = d] ELSE due
    /\ UNCHANGED <<rows, owner, locals, history>>

cancelNotification(a, n) == write(a, n, "cancel", "CANCELED", due[n])
rescheduleNotification(a, n) == write(a, n, "reschedule", "SCHEDULED", request[a].due)
updateScheduledNotification(a, n) == write(a, n, "update", header[n], request[a].due)

\* A mutated form of Failed, used by no action.
FailedOrSent == {"FAILED_RETRYABLE", "FAILED_PERMANENT", "SENT"}

\* The rows retryFailedRecipients puts back.
Failed == {"FAILED_RETRYABLE", "FAILED_PERMANENT"}

\* retryFailedRecipients: one updateMany over the failed rows, then the header.
retryFailedRecipients(a, n) ==
    LET failed == {r \in RowsOf(n) : status[r] \in Failed} IN
    /\ Asked(a, n, "retry")
    /\ status' = [r \in Recipients |-> IF r \in failed THEN "PENDING" ELSE status[r]]
    /\ attempts' = [r \in Recipients |-> IF r \in failed THEN 0 ELSE attempts[r]]
    /\ lock' = [r \in Recipients |-> IF r \in failed THEN "null" ELSE lock[r]]
    /\ retried' = [r \in Recipients |-> retried[r] \/ r \in failed]
    /\ request' = [request EXCEPT ![a] =
                     IF failed = {} THEN Idle ELSE [@ EXCEPT !.op = "requeue"]]
    /\ UNCHANGED <<header, due, owner, locals, crashes, delivered, reclaimed>>

requeueHeader(a, n) == write(a, n, "requeue", "SCHEDULED", TRUE)

\* The request is cut off between its statements.
abandonRequest(a) ==
    /\ request[a] # Idle
    /\ Done(a)
    /\ UNCHANGED <<tables, locals, history>>

\* cleanupOldNotifications, for a header created more than 60 days ago;
\* the rows go with the header (onDelete: Cascade).
cleanupOldNotifications(n) ==
    /\ header[n] \in {"COMPLETED", "FAILED", "CANCELED"}
    /\ header' = [header EXCEPT ![n] = "deleted"]
    /\ status' = [r \in Recipients |-> IF HeaderOf(r) = n THEN "absent" ELSE status[r]]
    /\ UNCHANGED <<due, attempts, lock, owner, locals, request, history>>

Centre(a, n) ==
    \/ startCancel(a, n) \/ startRetry(a, n)
    \/ \E d \in BOOLEAN : startReschedule(a, n, d) \/ startUpdate(a, n, d)
    \/ cancelNotification(a, n) \/ rescheduleNotification(a, n)
    \/ updateScheduledNotification(a, n)
    \/ retryFailedRecipients(a, n) \/ requeueHeader(a, n)

Next ==
    \/ \E w \in Workers : Worker(w) \/ crash(w)
    \/ \E a \in Admins : abandonRequest(a) \/ \E n \in Notifications : Centre(a, n)
    \/ \E n \in Notifications : BecomesDue(n) \/ cleanupOldNotifications(n)
    \/ \E n \in Notifications, targets \in SUBSET Users, now \in BOOLEAN :
         \E withPush \in SUBSET targets : createNotification(n, targets, withPush, now)
    \/ \E r \in Recipients : LockLapses(r)
    \/ \E u \in Users, s \in Subs : upsertSubscription(u, s) \/ deleteSubscription(u, s)

Spec == Init /\ [][Next]_vars

\* The clock advances and the timer of every process fires again and again:
\* @Cron at 15 seconds in handleCron; nothing else is bound to happen.
Fairness ==
    /\ \A w \in Workers : WF_vars(Worker(w))
    /\ \A r \in Recipients : WF_vars(LockLapses(r))
    /\ \A n \in Notifications : WF_vars(BecomesDue(n))

FairSpec == Spec /\ Fairness
-----------------------------------------------------------------------------
(***************************************************************************)
(* Properties                                                              *)
(***************************************************************************)

\* The types of the columns and of the workers' locals; lastErro, the texts
\* and the dates are not modelled.
TypeOK ==
    /\ header \in [Notifications -> HeaderStatus]
    /\ due \in [Notifications -> BOOLEAN]
    /\ status \in [Recipients -> RowStatus]
    /\ attempts \in [Recipients -> 0..MaxAttempts]
    /\ lock \in [Recipients -> {"null", "live", "lapsed"}]
    /\ owner \in [Subs -> Users \cup {NoUser}]
    /\ pc \in [Workers -> {"idle", "deliver", "push", "settle"}]
    /\ batch \in [Workers -> SUBSET Recipients]
    /\ seen \in [Workers -> [Recipients -> 0..(MaxAttempts - 1)]]
    /\ cur \in [Workers -> SUBSET Recipients]
    /\ todo \in [Workers -> SUBSET Subs]
    /\ tally \in [Workers -> {"noSubs", "sent", "allExpired", "failed"}]
    /\ touched \in [Workers -> SUBSET Notifications]
    /\ verdict \in [Workers -> [Notifications -> Finals \cup {"none"}]]
    /\ request \in [Admins -> Requests]
    /\ crashes \in 0..MaxCrashes
    /\ delivered \in [Recipients -> 0..2]
    /\ reclaimed \in [Recipients -> BOOLEAN]
    /\ retried \in [Recipients -> BOOLEAN]

\* "Duas instancias nao enviam a mesma entrega simultaneamente": a row is in
\* the batches of two workers only if the lease of the first one lapsed and
\* the second one claimed the row while it was still PROCESSING.
ClaimsAreExclusive ==
    \A r \in Recipients, w1, w2 \in Workers :
        r \in batch[w1] \cap batch[w2] /\ w1 # w2 => reclaimed[r]

\* A user is told twice of one notification only after such a reclaim: no
\* retry of the queue, no retryFailedRecipients and no crash on its own sends
\* a completed delivery again.
NoDuplicateDelivery ==
    \A r \in Recipients : ~reclaimed[r] => delivered[r] <= 1

\* A row that may be claimed again has attempts left, and a row in PROCESSING
\* or in backoff has a lock to lapse: claimBatch never takes a PROCESSING row
\* whose locked_until is null, so that row would be stuck for ever.
RetryBudget ==
    \A r \in Recipients :
        /\ status[r] \in Open => attempts[r] < MaxAttempts
        /\ status[r] = "PROCESSING" => lock[r] # "null"
        /\ status[r] = "FAILED_RETRYABLE" => attempts[r] > 0 /\ lock[r] # "null"

\* updateNotificationCompletionStatus closes a header over an unfinished row
\* only if that row was taken from a worker that still held it, or put back
\* by the notification centre.
SettledHeader ==
    \A r \in Recipients :
        header[HeaderOf(r)] \in Finals /\ status[r] \in Open => reclaimed[r] \/ retried[r]

\* SENT and COMPLETED are never reported of a notification that reached nobody
\* (a notification without targets is COMPLETED from the start).
HonestStatus ==
    /\ \A r \in Recipients : status[r] = "SENT" => delivered[r] > 0
    /\ \A n \in Notifications :
         header[n] = "COMPLETED" /\ (\E r \in RowsOf(n) : status[r] # "absent") =>
             \E r \in RowsOf(n) : delivered[r] > 0

\* A cancelled header is revived only by what had begun before it was
\* cancelled (the verdict of a worker that had claimed its rows, a reschedule
\* that had read the header) or by a retry, which does not look at the status.
CancelIsOverriddenOnlyByStaleWork ==
    [][\A n \in Notifications :
         header[n] = "CANCELED" /\ header'[n] \notin {"CANCELED", "deleted"} =>
             \/ \E w \in Workers : verdict[w][n] # "none"
             \/ \E a \in Admins : Asked(a, n, "requeue")
             \/ \E a \in Admins : Asked(a, n, "reschedule") /\ request[a].read # "CANCELED"]_vars

\* "Itens atrasados sao retomados automaticamente": crashes or not, every row
\* waiting under a live header is finished, unless its header was closed first
\* (which SettledHeader confines).
OpenRowDrains ==
    \A r \in Recipients :
        status[r] \in Open /\ header[HeaderOf(r)] \in {"SCHEDULED", "PROCESSING"}
            ~> status[r] \notin Open \/ header[HeaderOf(r)] \notin {"SCHEDULED", "PROCESSING"}

\* "Atualiza o status mestre de Notification quando todos os recipients forem
\* concluidos": a header all of whose rows are finished does not stay SCHEDULED
\* or PROCESSING.
MasterStatusSettles ==
    \A n \in Notifications :
        header[n] \in {"SCHEDULED", "PROCESSING"} /\ OpenRows(n) = {}
            ~> header[n] \notin {"SCHEDULED", "PROCESSING"} \/ OpenRows(n) # {}
-----------------------------------------------------------------------------
\* The contract in terms of the tables: FAILED_RETRYABLE still waits, a row is
\* in hand from its claim to its final update.
PhaseOf(h) == CASE h \in {"SCHEDULED", "PROCESSING"} -> "live"
                [] h = "COMPLETED" -> "completed"
                [] h \in {"FAILED", "CANCELED"} -> "stopped"
                [] OTHER -> h
FateOf(s) == CASE s \in Open -> "waiting"
               [] s = "SENT" -> "told"
               [] s \in {"FAILED_PERMANENT", "NO_SUBSCRIPTION"} -> "given up"
               [] OTHER -> "absent"

Phases == [n \in Notifications |-> PhaseOf(header[n])]
RowFates == [r \in Recipients |-> FateOf(status[r])]
Held == {r \in Recipients : \E w \in Workers : r \in batch[w]}

Contract == INSTANCE DeliveryContract WITH phase <- Phases, fate <- RowFates, inHand <- Held, told <- delivered

\* The queue, its processes and the requests of the centre keep the contract.
KeepsContract == Contract!ContractSpec
=============================================================================
