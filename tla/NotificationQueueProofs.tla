------------------------ MODULE NotificationQueueProofs ------------------------
(***************************************************************************)
(* Proofs about NotificationQueue, for every set of notifications, users,  *)
(* endpoints, processes and requests, and every bound; and that it         *)
(* implements DeliveryContract.                                            *)
(***************************************************************************)
EXTENDS NotificationQueue, TLAPS

\* Where the locals of a worker can point.
WorkerShape ==
    \A w \in Workers :
        /\ cur[w] \subseteq batch[w]
        /\ pc[w] # "push" => cur[w] = {}
        /\ \A r \in batch[w] : header[HeaderOf(r)] # "absent"
        /\ \A n \in touched[w] : header[n] # "absent"
        /\ \A n \in Notifications : verdict[w][n] # "none" => header[n] # "absent"

\* A header that was never created has no row and no history.
FreshRows ==
    \A r \in Recipients :
        header[HeaderOf(r)] = "absent" => status[r] = "absent" /\ attempts[r] = 0 /\ delivered[r] = 0

\* Until a row is reclaimed, its holder is the only one to change it.
HeldRows ==
    \A w \in Workers : \A r \in batch[w] :
        ~reclaimed[r] => status[r] \in {"PROCESSING", "absent"}

\* Until a row is reclaimed, its delivery is recorded in the row or in the
\* tally of the only worker that holds it.
Deliveries ==
    \A r \in Recipients :
        ~reclaimed[r] /\ delivered[r] > 0 =>
            /\ delivered[r] = 1
            /\ status[r] \in {"SENT", "PROCESSING", "absent"}
            /\ \A w \in Workers : r \in batch[w] => r \in cur[w] /\ tally[w] = "sent"

\* A verdict about to be written is the one SettledHeader needs.
Verdicts ==
    \A w \in Workers : \A r \in Recipients :
        verdict[w][HeaderOf(r)] # "none" /\ status[r] \in Open => reclaimed[r] \/ retried[r]

IInv ==
    /\ TypeOK
    /\ WorkerShape
    /\ FreshRows
    /\ HeldRows
    /\ ClaimsAreExclusive
    /\ Deliveries
    /\ RetryBudget
    /\ Verdicts
    /\ SettledHeader

USE DEF Recipients, HeaderOf, UserOf, RowsOf, HeaderStatus, RowStatus, Finals, Open, Failed
USE DEF tables, rows, locals, history, NoVerdict

-----------------------------------------------------------------------------
LEMMA InitIInv == Init => IInv
  BY QueueAssumption DEF Init, IInv, TypeOK, WorkerShape, FreshRows, HeldRows, ClaimsAreExclusive,
     Deliveries, RetryBudget, Verdicts, SettledHeader, Requests, Idle

\* A claim takes rows that are open, hence not SENT; a row that was held is
\* claimed only as reclaimed (HeldRows).
LEMMA ClaimStep ==
  ASSUME IInv, NEW w \in Workers, NEW claimed \in SUBSET Recipients, claimBatch(w, claimed)
  PROVE  IInv'
  <1> USE DEF claimBatch, Claimable
  <1>1. TypeOK'
    <2>1. seen' \in [Workers -> [Recipients -> 0..(MaxAttempts - 1)]]
      BY QueueAssumption DEF IInv, TypeOK, RetryBudget
    <2> QED BY <2>1 DEF IInv, TypeOK
  <1>2. WorkerShape' /\ FreshRows' /\ HeldRows' /\ ClaimsAreExclusive'
    <2>1. WorkerShape' /\ FreshRows'
      BY DEF IInv, TypeOK, WorkerShape, FreshRows
    <2>2. HeldRows'
      BY DEF IInv, TypeOK, HeldRows
    <2>3. ClaimsAreExclusive'
      BY DEF IInv, TypeOK, HeldRows, ClaimsAreExclusive
    <2> QED BY <2>1, <2>2, <2>3
  <1>3. Deliveries'
    <2>1. ASSUME NEW r \in Recipients, ~reclaimed'[r], delivered'[r] > 0
          PROVE  r \notin claimed /\ ~reclaimed[r] /\ delivered[r] > 0 /\ status'[r] = status[r]
      BY <2>1 DEF IInv, TypeOK, Deliveries
    <2> QED BY <2>1 DEF IInv, TypeOK, Deliveries
  <1>4. RetryBudget' /\ Verdicts' /\ SettledHeader'
    BY DEF IInv, TypeOK, RetryBudget, Verdicts, SettledHeader
  <1> QED BY <1>1, <1>2, <1>3, <1>4 DEF IInv

\* The worker that turns to r has delivered nothing of its batch: a row with a
\* delivery would be the one it is at (Deliveries), and it is at none.
LEMMA ReadStep ==
  ASSUME IInv, NEW w \in Workers, NEW r \in Recipients, readSubscriptions(w, r)
  PROVE  IInv'
  <1> USE DEF readSubscriptions
  <1>1. TypeOK'
    BY DEF IInv, TypeOK
  <1>2. WorkerShape'
    BY DEF IInv, TypeOK, WorkerShape
  <1>3. Deliveries'
    BY DEF IInv, TypeOK, WorkerShape, Deliveries
  <1>4. FreshRows' /\ HeldRows' /\ ClaimsAreExclusive' /\ RetryBudget' /\ Verdicts' /\ SettledHeader'
    BY DEF IInv, FreshRows, HeldRows, ClaimsAreExclusive, RetryBudget, Verdicts, SettledHeader
  <1> QED BY <1>1, <1>2, <1>3, <1>4 DEF IInv

\* A push that reaches the user is the first one of its row, and the row's
\* only holder records it.
LEMMA PushStep ==
  ASSUME IInv, NEW w \in Workers, NEW s \in Subs, NEW answer \in {"ok", "gone", "error"},
         sendPush(w, s, answer)
  PROVE  IInv'
  <1> USE DEF sendPush
  <1>1. TypeOK'
    BY DEF IInv, TypeOK
  <1>2. WorkerShape' /\ FreshRows'
    BY DEF IInv, TypeOK, WorkerShape, FreshRows
  <1>3. Deliveries'
    <2> SUFFICES ASSUME NEW r \in Recipients, ~reclaimed[r], delivered'[r] > 0
                 PROVE  /\ delivered'[r] = 1
                        /\ status[r] \in {"SENT", "PROCESSING", "absent"}
                        /\ \A x \in Workers : r \in batch[x] => r \in cur[x] /\ tally'[x] = "sent"
      BY DEF Deliveries
    <2>1. CASE delivered'[r] = delivered[r]
      BY <2>1 DEF IInv, TypeOK, Deliveries
    <2>2. CASE delivered'[r] # delivered[r]
      <3>1. r \in cur[w] /\ answer = "ok" /\ tally[w] # "sent" /\ r \in batch[w]
        BY <2>2 DEF IInv, TypeOK, WorkerShape
      <3>2. delivered[r] = 0 /\ delivered'[r] = 1 /\ tally'[w] = "sent"
        <4>1. ~(delivered[r] > 0)
          BY <3>1 DEF IInv, Deliveries
        <4>2. delivered[r] \in 0..2
          BY DEF IInv, TypeOK
        <4>3. delivered[r] = 0
          BY <4>1, <4>2
        <4> QED BY <2>2, <3>1, <4>3 DEF IInv, TypeOK
      <3>3. status[r] \in {"PROCESSING", "absent"}
        BY <3>1 DEF IInv, HeldRows
      <3>4. \A x \in Workers : r \in batch[x] => x = w
        BY <3>1 DEF IInv, ClaimsAreExclusive
      <3> QED BY <3>1, <3>2, <3>3, <3>4
    <2> QED BY <2>1, <2>2
  <1>4. HeldRows' /\ ClaimsAreExclusive' /\ RetryBudget' /\ Verdicts' /\ SettledHeader'
    BY DEF IInv, HeldRows, ClaimsAreExclusive, RetryBudget, Verdicts, SettledHeader
  <1> QED BY <1>1, <1>2, <1>3, <1>4 DEF IInv

\* The row that is finished was PROCESSING and in no other batch, unless it
\* was reclaimed.
LEMMA FinishStep ==
  ASSUME IInv, NEW w \in Workers, NEW r \in Recipients, finishRecipient(w, r)
  PROVE  IInv'
  <1> USE DEF finishRecipient, Outcome
  <1>1. r \in batch[w] /\ header[HeaderOf(r)] # "absent"
    BY DEF IInv, WorkerShape
  <1>2. ~reclaimed[r] => status[r] = "PROCESSING" /\ \A x \in Workers : r \in batch[x] => x = w
    BY <1>1 DEF IInv, HeldRows, ClaimsAreExclusive
  <1>3. TypeOK'
    BY QueueAssumption DEF IInv, TypeOK
  <1>4. WorkerShape' /\ FreshRows'
    BY <1>1 DEF IInv, TypeOK, WorkerShape, FreshRows
  <1>5. HeldRows' /\ ClaimsAreExclusive' /\ Deliveries'
    <2>1. HeldRows' /\ ClaimsAreExclusive'
      BY <1>2 DEF IInv, TypeOK, HeldRows, ClaimsAreExclusive
    <2>2. Deliveries'
      BY <1>1, <1>2 DEF IInv, TypeOK, Deliveries
    <2> QED BY <2>1, <2>2
  <1>6. RetryBudget'
    BY QueueAssumption DEF IInv, TypeOK, RetryBudget
  <1>7. Verdicts' /\ SettledHeader'
    BY <1>2 DEF IInv, TypeOK, Verdicts, SettledHeader
  <1> QED BY <1>3, <1>4, <1>5, <1>6, <1>7 DEF IInv

\* The count gives a verdict only of a header without open rows.
LEMMA CountStep ==
  ASSUME IInv, NEW w \in Workers, NEW n \in Notifications, countRows(w, n)
  PROVE  IInv'
  <1> USE DEF countRows, OpenRows
  <1>1. ASSUME OpenRows(n) # {} PROVE TypeOK' /\ WorkerShape' /\ Verdicts'
    <2>0. touched' = [touched EXCEPT ![w] = touched[w] \ {n}] /\ verdict' = verdict
      BY <1>1
    <2>1. TypeOK'
      <3>1. touched' \in [Workers -> SUBSET Notifications]
        BY <2>0 DEF IInv, TypeOK
      <3> QED BY <2>0, <3>1 DEF IInv, TypeOK
    <2>2. WorkerShape'
      <3>1. \A x \in Workers : touched'[x] \subseteq touched[x]
        BY <2>0 DEF IInv, TypeOK
      <3> QED BY <2>0, <3>1 DEF IInv, WorkerShape
    <2>3. Verdicts'
      BY <1>1 DEF IInv, Verdicts
    <2> QED BY <2>1, <2>2, <2>3
  <1>2. ASSUME OpenRows(n) = {} PROVE TypeOK' /\ WorkerShape' /\ Verdicts'
    <2>1. PICK st \in Finals : verdict' = [verdict EXCEPT ![w][n] = st]
      BY <1>2
    <2>2. verdict' \in [Workers -> [Notifications -> Finals \cup {"none"}]]
      BY <2>1 DEF IInv, TypeOK
    <2>3. TypeOK'
      BY <1>2, <2>2 DEF IInv, TypeOK
    <2>4. \A x \in Workers, m \in Notifications : verdict'[x][m] # "none" => verdict[x][m] # "none" \/ m = n
      BY <2>1 DEF IInv, TypeOK
    <2>5. header[n] # "absent" /\ \A r \in RowsOf(n) : status[r] \notin Open
      BY <1>2 DEF IInv, WorkerShape
    <2>6. WorkerShape'
      BY <1>2, <2>4, <2>5 DEF IInv, WorkerShape
    <2>7. Verdicts'
      <3> SUFFICES ASSUME NEW x \in Workers, NEW r \in Recipients,
                          verdict'[x][HeaderOf(r)] # "none", status[r] \in Open
                   PROVE  reclaimed[r] \/ retried[r]
        BY DEF Verdicts
      <3>1. HeaderOf(r) # n
        BY <2>5
      <3> QED BY <2>4, <3>1 DEF IInv, Verdicts
    <2> QED BY <2>3, <2>6, <2>7
  <1>3. TypeOK' /\ WorkerShape' /\ Verdicts'
    BY <1>1, <1>2
  <1>4. FreshRows' /\ HeldRows' /\ ClaimsAreExclusive' /\ Deliveries' /\ RetryBudget' /\ SettledHeader'
    BY DEF IInv, FreshRows, HeldRows, ClaimsAreExclusive, Deliveries, RetryBudget, SettledHeader
  <1> QED BY <1>3, <1>4 DEF IInv

\* The verdict was true when it was read, and Verdicts kept it so.
LEMMA VerdictStep ==
  ASSUME IInv, NEW w \in Workers, NEW n \in Notifications, writeVerdict(w, n)
  PROVE  IInv'
  <1> USE DEF writeVerdict, Exists
  <1>1. PICK st \in Finals : verdict[w][n] = st /\ header' = [header EXCEPT ![n] = st]
    <2>1. verdict[w] \in [Notifications -> Finals \cup {"none"}]
      BY DEF IInv, TypeOK
    <2> QED BY <2>1
  <1>2. TypeOK' /\ WorkerShape' /\ FreshRows'
    BY <1>1 DEF IInv, TypeOK, WorkerShape, FreshRows
  <1>3. HeldRows' /\ ClaimsAreExclusive' /\ Deliveries' /\ RetryBudget'
    BY DEF IInv, HeldRows, ClaimsAreExclusive, Deliveries, RetryBudget
  <1>4. Verdicts' /\ SettledHeader'
    BY <1>1 DEF IInv, TypeOK, Verdicts, SettledHeader
  <1> QED BY <1>2, <1>3, <1>4 DEF IInv

\* A worker that stops holds nothing any more; its rows stay PROCESSING.
LEMMA ResetStep ==
  ASSUME IInv, NEW w \in Workers, Reset(w), UNCHANGED <<tables, request, delivered, reclaimed, retried>>,
         crashes' \in 0..MaxCrashes
  PROVE  IInv'
  <1> USE DEF Reset
  <1>1. TypeOK'
    <2>1. seen' \in [Workers -> [Recipients -> 0..(MaxAttempts - 1)]]
      BY QueueAssumption DEF IInv, TypeOK
    <2>2. verdict' \in [Workers -> [Notifications -> Finals \cup {"none"}]]
      BY DEF IInv, TypeOK
    <2> QED BY <2>1, <2>2 DEF IInv, TypeOK
  <1>2. WorkerShape'
    BY DEF IInv, TypeOK, WorkerShape
  <1>3. HeldRows' /\ ClaimsAreExclusive'
    BY DEF IInv, TypeOK, HeldRows, ClaimsAreExclusive
  <1>4. Deliveries'
    BY DEF IInv, TypeOK, Deliveries
  <1>5. Verdicts'
    BY DEF IInv, TypeOK, Verdicts
  <1>6. FreshRows' /\ RetryBudget' /\ SettledHeader'
    BY DEF IInv, FreshRows, RetryBudget, SettledHeader
  <1> QED BY <1>1, <1>2, <1>3, <1>4, <1>5, <1>6 DEF IInv

LEMMA StopStep ==
  ASSUME IInv, NEW w \in Workers, endBatch(w) \/ throwAway(w) \/ crash(w)
  PROVE  IInv'
  <1>1. crashes \in 0..MaxCrashes
    BY DEF IInv, TypeOK
  <1>2. CASE endBatch(w)
    <2> USE <1>2 DEF endBatch
    <2>1. TypeOK' /\ WorkerShape'
      BY DEF IInv, TypeOK, WorkerShape
    <2>2. /\ FreshRows' /\ HeldRows' /\ ClaimsAreExclusive' /\ Deliveries'
          /\ RetryBudget' /\ Verdicts' /\ SettledHeader'
      BY DEF IInv, FreshRows, HeldRows, ClaimsAreExclusive, Deliveries, RetryBudget, Verdicts, SettledHeader
    <2> QED BY <2>1, <2>2 DEF IInv
  <1>3. CASE throwAway(w)
    BY <1>1, <1>3, ResetStep DEF throwAway
  <1>4. CASE crash(w)
    BY <1>1, <1>4, ResetStep, QueueAssumption DEF crash
  <1> QED BY <1>2, <1>3, <1>4

\* A request of the centre that only reads, or gives up, changes no table.
LEMMA RequestStep ==
  ASSUME IInv, NEW a \in Admins,
         \/ abandonRequest(a)
         \/ \E n \in Notifications, op \in Ops, d \in BOOLEAN : Start(a, n, op, d)
  PROVE  IInv'
  <1> USE DEF abandonRequest, Done, Start
  <1>1. TypeOK'
    <2>1. \E q \in Requests : request' = [request EXCEPT ![a] = q]
      <3>1. header \in [Notifications -> HeaderStatus]
        BY DEF IInv, TypeOK
      <3> QED BY <3>1 DEF Requests
    <2>2. UNCHANGED <<tables, locals, history>>
      OBVIOUS
    <2> QED BY <2>1, <2>2 DEF IInv, TypeOK
  <1>2. /\ WorkerShape' /\ FreshRows' /\ HeldRows' /\ ClaimsAreExclusive'
        /\ Deliveries' /\ RetryBudget' /\ Verdicts' /\ SettledHeader'
    BY DEF IInv, WorkerShape, FreshRows, HeldRows, ClaimsAreExclusive,
       Deliveries, RetryBudget, Verdicts, SettledHeader
  <1> QED BY <1>1, <1>2 DEF IInv

\* A header is rewritten to SCHEDULED, to CANCELED, or to what it was: none of
\* them closes it, and a header that does not exist is not written.
LEMMA WriteStep ==
  ASSUME IInv, NEW a \in Admins, NEW n \in Notifications, NEW op, NEW d \in BOOLEAN,
         NEW st \in {header[n], "SCHEDULED", "CANCELED"}, write(a, n, op, st, d)
  PROVE  IInv'
  <1> USE DEF write, Done, Exists
  <1>1. TypeOK'
    <2>1. request' \in [Admins -> Requests]
      BY DEF IInv, TypeOK, Requests
    <2>2. header' \in [Notifications -> HeaderStatus] /\ due' \in [Notifications -> BOOLEAN]
      BY DEF IInv, TypeOK
    <2> QED BY <2>1, <2>2 DEF IInv, TypeOK
  <1>2. WorkerShape' /\ FreshRows' /\ SettledHeader'
    BY DEF IInv, TypeOK, WorkerShape, FreshRows, SettledHeader
  <1>3. HeldRows' /\ ClaimsAreExclusive' /\ Deliveries' /\ RetryBudget' /\ Verdicts'
    BY DEF IInv, HeldRows, ClaimsAreExclusive, Deliveries, RetryBudget, Verdicts
  <1> QED BY <1>1, <1>2, <1>3 DEF IInv

\* Only failed rows are put back: a failed row that was not reclaimed is in no
\* batch (HeldRows) and was never delivered (Deliveries).
LEMMA RetryStep ==
  ASSUME IInv, NEW a \in Admins, NEW n \in Notifications, retryFailedRecipients(a, n)
  PROVE  IInv'
  <1> USE DEF retryFailedRecipients
  <1>1. TypeOK'
    <2>1. request' \in [Admins -> Requests]
      <3>1. [request[a] EXCEPT !.op = "requeue"] \in Requests
        BY DEF Asked, Requests, Ops
      <3>2. \E q \in Requests : request' = [request EXCEPT ![a] = q]
        BY <3>1 DEF Requests
      <3> QED BY <3>2 DEF IInv, TypeOK
    <2> QED BY <2>1, QueueAssumption DEF IInv, TypeOK
  <1>2. WorkerShape' /\ FreshRows' /\ HeldRows' /\ ClaimsAreExclusive' /\ Deliveries'
    BY DEF IInv, TypeOK, WorkerShape, FreshRows, HeldRows, ClaimsAreExclusive, Deliveries
  <1>3. RetryBudget'
    BY QueueAssumption DEF IInv, TypeOK, RetryBudget
  <1>4. ASSUME NEW r \in Recipients
        PROVE  /\ retried[r] => retried'[r]
               /\ status'[r] \in Open => status[r] \in Open \/ retried'[r]
    BY DEF IInv, TypeOK
  <1>5. SettledHeader'
    BY <1>4 DEF IInv, SettledHeader
  <1>6. Verdicts'
    BY <1>4 DEF IInv, Verdicts
  <1> QED BY <1>1, <1>2, <1>3, <1>5, <1>6 DEF IInv

\* The rows that appear are those of a header nothing refers to yet.
LEMMA CreateStep ==
  ASSUME IInv, NEW n \in Notifications, NEW targets \in SUBSET Users,
         NEW withPush \in SUBSET targets, NEW now \in BOOLEAN,
         createNotification(n, targets, withPush, now)
  PROVE  IInv'
  <1> USE DEF createNotification
  <1>1. TypeOK'
    BY DEF IInv, TypeOK
  <1>2. \A w \in Workers : /\ \A r \in batch[w] : HeaderOf(r) # n
                           /\ verdict[w][n] = "none"
    BY DEF IInv, WorkerShape
  <1>3. ASSUME NEW r \in Recipients
        PROVE  \/ status'[r] = status[r]
               \/ /\ HeaderOf(r) = n /\ targets # {}
                  /\ status'[r] \in {"PENDING", "NO_SUBSCRIPTION"}
    BY DEF IInv, TypeOK
  <1>4. WorkerShape'
    BY <1>2 DEF IInv, TypeOK, WorkerShape
  <1>5. FreshRows'
    BY <1>3 DEF IInv, TypeOK, FreshRows
  <1>6. HeldRows' /\ ClaimsAreExclusive'
    BY <1>2, <1>3 DEF IInv, TypeOK, HeldRows, ClaimsAreExclusive
  <1>7. Deliveries'
    BY <1>3 DEF IInv, TypeOK, Deliveries, FreshRows
  <1>8. RetryBudget'
    BY <1>3, QueueAssumption DEF IInv, TypeOK, RetryBudget, FreshRows
  <1>9. Verdicts'
    BY <1>2, <1>3 DEF IInv, Verdicts
  <1>10. SettledHeader'
    BY <1>3 DEF IInv, TypeOK, SettledHeader, FreshRows
  <1> QED BY <1>1, <1>4, <1>5, <1>6, <1>7, <1>8, <1>9, <1>10 DEF IInv

\* Deletion takes the rows with the header; time and the users' endpoints touch
\* nothing a worker has read.
LEMMA EnvironmentStep ==
  ASSUME IInv,
         \/ \E n \in Notifications : BecomesDue(n) \/ cleanupOldNotifications(n)
         \/ \E r \in Recipients : LockLapses(r)
         \/ \E u \in Users, s \in Subs : upsertSubscription(u, s) \/ deleteSubscription(u, s)
  PROVE  IInv'
  <1>1. CASE \E n \in Notifications : BecomesDue(n)
    BY <1>1 DEF BecomesDue, IInv, TypeOK, WorkerShape, FreshRows, HeldRows, ClaimsAreExclusive,
       Deliveries, RetryBudget, Verdicts, SettledHeader
  <1>2. CASE \E n \in Notifications : cleanupOldNotifications(n)
    <2> USE DEF cleanupOldNotifications
    <2>1. TypeOK' /\ WorkerShape' /\ FreshRows'
      BY <1>2 DEF IInv, TypeOK, WorkerShape, FreshRows
    <2>2. HeldRows' /\ ClaimsAreExclusive' /\ Deliveries' /\ RetryBudget'
      BY <1>2 DEF IInv, TypeOK, HeldRows, ClaimsAreExclusive, Deliveries, RetryBudget
    <2>3. Verdicts' /\ SettledHeader'
      BY <1>2 DEF IInv, TypeOK, Verdicts, SettledHeader
    <2> QED BY <2>1, <2>2, <2>3 DEF IInv
  <1>3. CASE \E r \in Recipients : LockLapses(r)
    BY <1>3 DEF LockLapses, IInv, TypeOK, WorkerShape, FreshRows, HeldRows, ClaimsAreExclusive,
       Deliveries, RetryBudget, Verdicts, SettledHeader
  <1>4. CASE \E u \in Users, s \in Subs : upsertSubscription(u, s) \/ deleteSubscription(u, s)
    <2> USE DEF upsertSubscription, deleteSubscription
    <2>1. TypeOK'
      <3>1. owner' \in [Subs -> Users \cup {NoUser}]
        BY <1>4 DEF IInv, TypeOK
      <3>2. UNCHANGED <<header, due, rows, locals, request, history>>
        BY <1>4
      <3> QED BY <3>1, <3>2 DEF IInv, TypeOK
    <2>2. /\ WorkerShape' /\ FreshRows' /\ HeldRows' /\ ClaimsAreExclusive'
          /\ Deliveries' /\ RetryBudget' /\ Verdicts' /\ SettledHeader'
      BY <1>4 DEF IInv, WorkerShape, FreshRows, HeldRows, ClaimsAreExclusive,
         Deliveries, RetryBudget, Verdicts, SettledHeader
    <2> QED BY <2>1, <2>2 DEF IInv
  <1> QED BY <1>1, <1>2, <1>3, <1>4

LEMMA NextIInv == IInv /\ [Next]_vars => IInv'
  <1> SUFFICES ASSUME IInv, [Next]_vars PROVE IInv'
    OBVIOUS
  <1>1. CASE \E w \in Workers : Worker(w) \/ crash(w)
    BY <1>1, ClaimStep, ReadStep, PushStep, FinishStep, CountStep, VerdictStep, StopStep DEF Worker
  <1>2. CASE \E a \in Admins : abandonRequest(a) \/ \E n \in Notifications : Centre(a, n)
    <2> SUFFICES ASSUME NEW a \in Admins, NEW n \in Notifications, Centre(a, n) PROVE IInv'
      BY <1>2, RequestStep
    <2>1. CASE \/ startCancel(a, n) \/ startRetry(a, n)
               \/ \E d \in BOOLEAN : startReschedule(a, n, d) \/ startUpdate(a, n, d)
      BY <2>1, RequestStep DEF startCancel, startRetry, startReschedule, startUpdate, Ops
    <2>2. CASE cancelNotification(a, n)
      <3>1. due[n] \in BOOLEAN
        BY DEF IInv, TypeOK
      <3> QED BY <2>2, <3>1, WriteStep DEF cancelNotification
    <2>3. CASE rescheduleNotification(a, n) \/ updateScheduledNotification(a, n)
      <3>1. request[a].due \in BOOLEAN
        BY <2>3 DEF rescheduleNotification, updateScheduledNotification, write, Asked
      <3> QED BY <2>3, <3>1, WriteStep DEF rescheduleNotification, updateScheduledNotification
    <2>4. CASE retryFailedRecipients(a, n)
      BY <2>4, RetryStep
    <2>5. CASE requeueHeader(a, n)
      BY <2>5, WriteStep DEF requeueHeader
    <2> QED BY <2>1, <2>2, <2>3, <2>4, <2>5 DEF Centre
  <1>3. CASE \E n \in Notifications, targets \in SUBSET Users, now \in BOOLEAN :
               \E withPush \in SUBSET targets : createNotification(n, targets, withPush, now)
    BY <1>3, CreateStep
  <1>4. CASE UNCHANGED vars
    BY <1>4 DEF vars, IInv, TypeOK, WorkerShape, FreshRows, HeldRows, ClaimsAreExclusive,
       Deliveries, RetryBudget, Verdicts, SettledHeader
  <1> QED BY <1>1, <1>2, <1>3, <1>4, EnvironmentStep DEF Next

LEMMA Invariance == Spec => []IInv
  BY InitIInv, NextIInv, PTL DEF Spec

-----------------------------------------------------------------------------
\* Every column keeps its type: no interleaving drives an attempt counter past
\* the maximum or leaves a row in a state the processor does not know.
THEOREM TypeCorrect == Spec => []TypeOK
  <1>1. IInv => TypeOK
    BY DEF IInv
  <1> QED BY <1>1, Invariance, PTL

\* No two workers hold one row, whatever their number and their speed, unless
\* the lease of the first lapsed.
THEOREM Exclusive == Spec => []ClaimsAreExclusive
  <1>1. IInv => ClaimsAreExclusive
    BY DEF IInv
  <1> QED BY <1>1, Invariance, PTL

\* No user is told twice of a notification but for a reclaimed lease: neither
\* the automatic retries nor retryFailedRecipients repeat a delivery.
THEOREM AtMostOnce == Spec => []NoDuplicateDelivery
  <1>1. IInv => NoDuplicateDelivery
    <2> SUFFICES ASSUME Deliveries, NEW r \in Recipients, delivered[r] \in 0..2, ~reclaimed[r]
                 PROVE  delivered[r] <= 1
      BY DEF IInv, NoDuplicateDelivery, TypeOK
    <2> QED BY DEF Deliveries
  <1> QED BY <1>1, Invariance, PTL

\* No row is stranded without an attempt or without a lock that can lapse.
THEOREM NoStrandedRow == Spec => []RetryBudget
  <1>1. IInv => RetryBudget
    BY DEF IInv
  <1> QED BY <1>1, Invariance, PTL

\* A header is closed over an open row only after a reclaim or a retry.
THEOREM ClosedHeader == Spec => []SettledHeader
  <1>1. IInv => SettledHeader
    BY DEF IInv
  <1> QED BY <1>1, Invariance, PTL

-----------------------------------------------------------------------------
\* The queue keeps DeliveryContract: whatever its processes and the requests of
\* the centre do, in any interleaving, is a behaviour of the contract.


\* What a worker has noted is true of the users: a push that it counts as sent
\* reached the user of its row, and a header that it finds completed has a user
\* who was told.  It has nothing in hand once the batch is delivered.
Noted ==
    \A w \in Workers :
        /\ pc[w] \in {"idle", "settle"} => batch[w] = {}
        /\ \A r, s \in cur[w] : r = s
        /\ tally[w] = "sent" => \A r \in cur[w] : delivered[r] > 0
        /\ \A n \in Notifications : verdict[w][n] = "COMPLETED" => \E r \in RowsOf(n) : delivered[r] > 0

HInv == IInv /\ Noted /\ HonestStatus

\* A step of the queue is one of the contract, or none.
ContractStep == [Contract!ContractNext]_(Contract!contractVars)

USE DEF Recipients, HeaderOf, UserOf, RowsOf, HeaderStatus, RowStatus, Finals, Open, Failed
USE DEF tables, rows, locals, history, NoVerdict

-----------------------------------------------------------------------------
LEMMA InitHInv == Init => HInv
  BY InitIInv DEF Init, HInv, Noted, HonestStatus

LEMMA InitContract == Init => Contract!ContractInit
  BY DEF Init, Contract!ContractInit, Contract!Rows, Phases, RowFates, Held, PhaseOf, FateOf

LEMMA Stutters == UNCHANGED <<header, status, batch, delivered>> => UNCHANGED Contract!contractVars
  BY DEF Contract!contractVars, Phases, RowFates, Held

\* A step that touches neither headers, rows, batches nor users.
LEMMA QuietStep ==
  ASSUME HInv, UNCHANGED <<header, status, batch, delivered>>,
         \A w \in Workers : /\ pc'[w] \in {"idle", "settle"} => pc[w] \in {"idle", "settle"}
                            /\ cur'[w] = cur[w] \/ \E r \in Recipients : cur'[w] = {r}
                            /\ tally'[w] = "sent" => cur'[w] = cur[w] /\ tally[w] = "sent"
                            /\ \A n \in Notifications : verdict'[w][n] = "COMPLETED" => verdict[w][n] = "COMPLETED"
  PROVE  Noted' /\ HonestStatus' /\ ContractStep
  <1>1. Noted'
    BY DEF HInv, Noted
  <1>2. HonestStatus'
    BY DEF HInv, HonestStatus
  <1>3. UNCHANGED Contract!contractVars
    BY Stutters
  <1> QED BY <1>1, <1>2, <1>3 DEF ContractStep

\* A claim takes up waiting rows of live headers.
LEMMA ClaimTakesUp ==
  ASSUME HInv, NEW w \in Workers, NEW claimed \in SUBSET Recipients, claimBatch(w, claimed)
  PROVE  Noted' /\ HonestStatus' /\ ContractStep
  <1> USE DEF claimBatch, Claimable
  <1>1. Noted'
    BY DEF HInv, Noted, IInv, TypeOK
  <1>2. HonestStatus'
    BY DEF HInv, HonestStatus, IInv, TypeOK
  <1>3. UNCHANGED <<Phases, RowFates, delivered>>
    <2>1. \A n \in Notifications : PhaseOf(header'[n]) = PhaseOf(header[n])
      BY DEF PhaseOf, HInv, IInv, TypeOK
    <2>2. \A r \in Recipients : FateOf(status'[r]) = FateOf(status[r])
      BY DEF FateOf, HInv, IInv, TypeOK
    <2> QED BY <2>1, <2>2 DEF Phases, RowFates
  <1>4. Held' = Held \cup claimed
    <2>1. batch' = [batch EXCEPT ![w] = claimed] /\ batch[w] = {}
      BY DEF HInv, IInv, TypeOK, Noted
    <2> QED BY <2>1 DEF Held, HInv, IInv, TypeOK
  <1>5. \A r \in claimed : RowFates[r] = "waiting" /\ Phases[r[1]] = "live"
    BY DEF RowFates, FateOf, Phases, PhaseOf
  <1>6. Contract!TakeUp
    BY <1>3, <1>4, <1>5 DEF Contract!TakeUp, Contract!Rows, Contract!NoticeOf, Held
  <1> QED BY <1>1, <1>2, <1>6 DEF ContractStep, Contract!ContractNext

LEMMA ReadIsQuiet ==
  ASSUME HInv, NEW w \in Workers, NEW r \in Recipients, readSubscriptions(w, r)
  PROVE  Noted' /\ HonestStatus' /\ ContractStep
  <1>1. UNCHANGED <<header, status, batch, delivered, verdict>>
    BY DEF readSubscriptions
  <1>2. ASSUME NEW x \in Workers
        PROVE  /\ pc'[x] \in {"idle", "settle"} => pc[x] \in {"idle", "settle"}
               /\ cur'[x] = cur[x] \/ cur'[x] = {r}
               /\ tally'[x] = "sent" => cur'[x] = cur[x] /\ tally[x] = "sent"
    BY DEF readSubscriptions, HInv, IInv, TypeOK
  <1> QED BY <1>1, <1>2, QuietStep

\* A push that arrives tells the user of the row in hand.
LEMMA PushTells ==
  ASSUME HInv, NEW w \in Workers, NEW s \in Subs, NEW answer \in {"ok", "gone", "error"}, sendPush(w, s, answer)
  PROVE  Noted' /\ HonestStatus' /\ ContractStep
  <1> USE DEF sendPush
  <1>1. ASSUME NEW r \in Recipients PROVE delivered[r] \in 0..2 /\ delivered'[r] \in 0..2 /\ (delivered[r] > 0 => delivered'[r] > 0)
    BY DEF HInv, IInv, TypeOK
  <1>2. ASSUME tally'[w] = "sent", NEW r \in cur[w] PROVE delivered'[r] > 0
    <2>1. r \in Recipients
      BY DEF HInv, IInv, TypeOK
    <2>2. CASE tally[w] = "sent"
      BY <2>1, <2>2, <1>1 DEF HInv, Noted
    <2>3. CASE tally[w] # "sent"
      <3>1. tally \in [Workers -> {"noSubs", "sent", "allExpired", "failed"}]
        BY DEF HInv, IInv, TypeOK
      <3>2. answer = "ok"
        BY <1>2, <2>3, <3>1
      <3>3. delivered'[r] = IF delivered[r] < 2 THEN delivered[r] + 1 ELSE delivered[r]
        BY <1>2, <2>1, <2>3, <3>2
      <3> QED BY <1>1, <2>1, <3>3
    <2> QED BY <2>2, <2>3
  <1>3. Noted'
    <2>1. UNCHANGED <<pc, batch, cur, verdict>>
      OBVIOUS
    <2>2. \A x \in Workers : tally'[x] = "sent" => \A r \in cur'[x] : delivered'[r] > 0
      <3>1. ASSUME NEW x \in Workers, x # w, tally'[x] = "sent", NEW r \in cur[x] PROVE delivered'[r] > 0
        <4>1. tally[x] = "sent" /\ r \in Recipients
          BY <3>1 DEF HInv, IInv, TypeOK
        <4> QED BY <3>1, <4>1, <1>1 DEF HInv, Noted
      <3> QED BY <3>1, <1>2, <2>1
    <2>3. \A x \in Workers, n \in Notifications :
             verdict'[x][n] = "COMPLETED" => \E r \in RowsOf(n) : delivered'[r] > 0
      <3> SUFFICES ASSUME NEW x \in Workers, NEW n \in Notifications, verdict[x][n] = "COMPLETED"
                   PROVE  \E r \in RowsOf(n) : delivered'[r] > 0
        BY <2>1
      <3>1. PICK r \in RowsOf(n) : delivered[r] > 0
        BY DEF HInv, Noted
      <3> QED BY <3>1, <1>1
    <2>4. \A x \in Workers : /\ pc'[x] \in {"idle", "settle"} => batch'[x] = {}
                            /\ \A r, t \in cur'[x] : r = t
      BY <2>1 DEF HInv, Noted
    <2> QED BY <2>2, <2>3, <2>4 DEF Noted
  <1>4. HonestStatus'
    BY <1>1 DEF HInv, HonestStatus
  <1>5. UNCHANGED <<Phases, RowFates, Held>>
    BY DEF Phases, RowFates, Held
  <1>6. CASE delivered' = delivered
    <2>1. UNCHANGED <<header, status, batch, delivered>>
      BY <1>6
    <2> QED BY <1>3, <1>4, <2>1, Stutters DEF ContractStep
  <1>7. ASSUME delivered' # delivered PROVE ContractStep
    <2>1. PICK r \in Recipients : delivered'[r] # delivered[r]
      BY <1>7 DEF HInv, IInv, TypeOK
    <2>2. r \in cur[w] /\ r \in batch[w] /\ delivered'[r] = delivered[r] + 1
      BY <2>1 DEF HInv, IInv, TypeOK, WorkerShape
    <2>3. \A x \in Recipients : x # r => delivered'[x] = delivered[x]
      BY <2>2 DEF HInv, Noted
    <2>4. delivered' = [delivered EXCEPT ![r] = @ + 1]
      BY <2>2, <2>3 DEF HInv, IInv, TypeOK
    <2>5. Contract!Tell(r)
      BY <1>5, <2>2, <2>4 DEF Contract!Tell, Held
    <2> QED BY <2>5 DEF ContractStep, Contract!ContractNext, Contract!Rows
  <1> QED BY <1>3, <1>4, <1>6, <1>7

\* The final update of a row concludes it, and reports it as told only if the
\* worker's own push reached the user.
LEMMA FinishConcludes ==
  ASSUME HInv, NEW w \in Workers, NEW r \in Recipients, finishRecipient(w, r)
  PROVE  Noted' /\ HonestStatus' /\ ContractStep
  <1> DEFINE outcome == Outcome(tally[w], seen[w][r] + 1)
  <1> USE DEF finishRecipient
  <1>0. /\ status' = [status EXCEPT ![r] = outcome] /\ batch' = [batch EXCEPT ![w] = @ \ {r}]
        /\ cur[w] = {r} /\ status[r] # "absent" /\ UNCHANGED <<header, delivered, verdict>>
    OBVIOUS
  <1>1. outcome \in {"NO_SUBSCRIPTION", "SENT", "FAILED_PERMANENT", "FAILED_RETRYABLE"} /\ (outcome = "SENT" => delivered[r] > 0)
    BY DEF Outcome, HInv, Noted, IInv, TypeOK
  <1>2. Noted'
    BY DEF HInv, Noted, IInv, TypeOK
  <1>3. HonestStatus'
    <2>1. \A x \in Recipients : status'[x] = "SENT" => delivered'[x] > 0
      BY <1>0, <1>1 DEF HInv, HonestStatus, IInv, TypeOK
    <2>2. \A x \in Recipients : status'[x] # "absent" <=> status[x] # "absent"
      BY <1>0, <1>1 DEF HInv, IInv, TypeOK
    <2> QED BY <1>0, <2>1, <2>2 DEF HInv, HonestStatus
  <1> HIDE DEF outcome
  <1>4. RowFates' = [RowFates EXCEPT ![r] = FateOf(outcome)]
    BY <1>0 DEF RowFates, HInv, IInv, TypeOK
  <1>5. FateOf(outcome) \in {"waiting", "told", "given up"} /\ (FateOf(outcome) = "told" => delivered[r] > 0)
    BY <1>1 DEF FateOf
  <1>6. r \in batch[w] /\ r \in Held /\ RowFates[r] # "absent"
    BY <1>0 DEF HInv, IInv, TypeOK, WorkerShape, Held, RowFates, FateOf
  <1>7. Held' \in {Held, Held \ {r}}
    <2>1. \A x \in Workers : batch'[x] = IF x = w THEN batch[w] \ {r} ELSE batch[x]
      BY <1>0 DEF HInv, IInv, TypeOK
    <2>2. \A y \in Recipients : y # r => (y \in Held' <=> y \in Held)
      BY <2>1 DEF Held
    <2> QED BY <1>6, <2>2 DEF Held
  <1>8. UNCHANGED Phases
    BY <1>0 DEF Phases
  <1>9. Contract!Conclude(r)
    BY <1>0, <1>4, <1>5, <1>6, <1>7, <1>8 DEF Contract!Conclude, Contract!Fates
  <1> QED BY <1>2, <1>3, <1>9 DEF ContractStep, Contract!ContractNext, Contract!Rows

\* Counting reads rows only: COMPLETED is counted where a row is SENT.
LEMMA CountIsHonest ==
  ASSUME HInv, NEW w \in Workers, NEW n \in Notifications, countRows(w, n)
  PROVE  Noted' /\ HonestStatus' /\ ContractStep
  <1>1. UNCHANGED <<header, status, batch, delivered, pc, cur, tally>>
    BY DEF countRows
  <1>2. ASSUME NEW x \in Workers, NEW k \in Notifications, verdict'[x][k] = "COMPLETED", verdict[x][k] # "COMPLETED"
        PROVE  \E r \in RowsOf(k) : delivered[r] > 0
    <2>1. x = w /\ k = n /\ {r \in RowsOf(n) : status[r] = "SENT"} # {}
      BY <1>2 DEF countRows, HInv, IInv, TypeOK
    <2> QED BY <2>1 DEF HInv, HonestStatus
  <1>3. Noted'
    <2>1. \A x \in Workers, k \in Notifications :
             verdict'[x][k] = "COMPLETED" => \E r \in RowsOf(k) : delivered'[r] > 0
      BY <1>1, <1>2 DEF HInv, Noted
    <2> QED BY <1>1, <2>1 DEF HInv, Noted
  <1>4. HonestStatus'
    BY <1>1 DEF HInv, HonestStatus
  <1>5. UNCHANGED Contract!contractVars
    BY <1>1, Stutters
  <1> QED BY <1>3, <1>4, <1>5 DEF ContractStep

\* A header is written to p, whatever the reason, and is completed only if
\* somebody was told.
LEMMA HeaderIsDecided ==
  ASSUME HInv, NEW n \in Notifications, NEW h \in {"SCHEDULED", "COMPLETED", "FAILED", "CANCELED"},
         Exists(n), header' = [header EXCEPT ![n] = h],
         h = "COMPLETED" => \E r \in RowsOf(n) : delivered[r] > 0,
         UNCHANGED <<status, batch, delivered>>
  PROVE  HonestStatus' /\ ContractStep
  <1>1. header \in [Notifications -> HeaderStatus] /\ header[n] \notin {"absent", "deleted"}
    BY DEF HInv, IInv, TypeOK, Exists
  <1>2. HonestStatus'
    BY <1>1 DEF HInv, HonestStatus
  <1>3. UNCHANGED <<RowFates, Held, delivered>>
    BY DEF RowFates, Held
  <1>4. Phases' = [Phases EXCEPT ![n] = PhaseOf(h)]
    BY <1>1 DEF Phases
  <1>5. PhaseOf(h) \in {"live", "stopped", "completed"} /\ (PhaseOf(h) = "completed" => h = "COMPLETED")
    BY DEF PhaseOf
  <1>6. Phases[n] \notin {"absent", "deleted"}
    BY <1>1 DEF Phases, PhaseOf
  <1>7. Contract!Decide(n)
    BY <1>3, <1>4, <1>5, <1>6 DEF Contract!Decide, Contract!RowsUnder, Contract!Rows, Contract!NoticeOf
  <1> QED BY <1>2, <1>7 DEF ContractStep, Contract!ContractNext

LEMMA VerdictDecides ==
  ASSUME HInv, NEW w \in Workers, NEW n \in Notifications, writeVerdict(w, n)
  PROVE  Noted' /\ HonestStatus' /\ ContractStep
  <1> USE DEF writeVerdict
  <1>1. verdict[w][n] \in {"COMPLETED", "FAILED"}
    BY DEF HInv, IInv, TypeOK
  <1>2. verdict[w][n] = "COMPLETED" => \E r \in RowsOf(n) : delivered[r] > 0
    BY DEF HInv, Noted
  <1>3. Noted'
    <2>1. \A x \in Workers, k \in Notifications : verdict'[x][k] = "COMPLETED" => verdict[x][k] = "COMPLETED"
      BY DEF HInv, IInv, TypeOK
    <2> QED BY <2>1 DEF HInv, Noted
  <1> QED BY <1>1, <1>2, <1>3, HeaderIsDecided

\* A worker that stops lets go of its batch, and of what it has noted.
LEMMA StopLetsGo ==
  ASSUME HInv, NEW w \in Workers, endBatch(w) \/ throwAway(w) \/ crash(w)
  PROVE  Noted' /\ HonestStatus' /\ ContractStep
  <1>1. CASE endBatch(w)
    <2>1. UNCHANGED <<header, status, batch, delivered, cur, tally, verdict>> /\ pc[w] = "settle" /\ pc' = [pc EXCEPT ![w] = "idle"]
      BY <1>1 DEF endBatch
    <2>2. \A x \in Workers : pc'[x] \in {"idle", "settle"} => pc[x] \in {"idle", "settle"}
      BY <2>1 DEF HInv, IInv, TypeOK
    <2> QED BY <2>1, <2>2, QuietStep
  <1>2. CASE throwAway(w) \/ crash(w)
    <2>1. Reset(w) /\ UNCHANGED <<header, status, delivered>>
      BY <1>2 DEF throwAway, crash
    <2>2. Noted'
      BY <2>1 DEF Reset, HInv, Noted, IInv, TypeOK
    <2>3. HonestStatus'
      BY <2>1 DEF HInv, HonestStatus
    <2>4. Held' \subseteq Held
      <3>1. \A x \in Workers : batch'[x] \subseteq batch[x]
        BY <2>1 DEF Reset, HInv, IInv, TypeOK
      <3> QED BY <3>1 DEF Held
    <2>5. UNCHANGED <<Phases, RowFates, delivered>>
      BY <2>1 DEF Phases, RowFates
    <2>6. Contract!LetGo
      BY <2>4, <2>5 DEF Contract!LetGo
    <2> QED BY <2>2, <2>3, <2>6 DEF ContractStep, Contract!ContractNext
  <1> QED BY <1>1, <1>2

LEMMA WorkerStep ==
  ASSUME HInv, NEW w \in Workers, Worker(w) \/ crash(w)
  PROVE  Noted' /\ HonestStatus' /\ ContractStep
  BY ClaimTakesUp, ReadIsQuiet, PushTells, FinishConcludes, CountIsHonest, VerdictDecides, StopLetsGo DEF Worker

-----------------------------------------------------------------------------
\* What leaves headers, rows and workers alone is no step of the contract.
LEMMA OutsideStep ==
  ASSUME HInv, UNCHANGED <<header, status, locals, delivered>>
  PROVE  Noted' /\ HonestStatus' /\ ContractStep
  BY QuietStep

\* The centre writes SCHEDULED or CANCELED, or the status the header has.
LEMMA WriteDecides ==
  ASSUME HInv, NEW a \in Admins, NEW n \in Notifications, NEW op \in Ops, NEW st, NEW d,
         st \in {header[n], "SCHEDULED", "CANCELED"}, write(a, n, op, st, d)
  PROVE  Noted' /\ HonestStatus' /\ ContractStep
  <1>1. UNCHANGED <<status, locals, delivered>> /\ header' = IF Exists(n) THEN [header EXCEPT ![n] = st] ELSE header
    BY DEF write
  <1>2. CASE header' = header
    BY <1>1, <1>2, OutsideStep
  <1>3. CASE Exists(n) /\ st \in {"SCHEDULED", "CANCELED"}
    <2>1. Noted'
      BY <1>1 DEF HInv, Noted
    <2> QED BY <1>1, <1>3, <2>1, HeaderIsDecided
  <1> QED BY <1>1, <1>2, <1>3 DEF HInv, IInv, TypeOK

LEMMA RetryPutsBack ==
  ASSUME HInv, NEW a \in Admins, NEW n \in Notifications, retryFailedRecipients(a, n)
  PROVE  Noted' /\ HonestStatus' /\ ContractStep
  <1> DEFINE failed == {r \in RowsOf(n) : status[r] \in Failed}
             some == {r \in failed : status[r] = "FAILED_PERMANENT"}
  <1>1. status' = [r \in Recipients |-> IF r \in failed THEN "PENDING" ELSE status[r]]
        /\ UNCHANGED <<header, locals, delivered>>
    BY DEF retryFailedRecipients
  <1>2. Noted' /\ HonestStatus'
    <2>1. \A r \in Recipients : /\ status'[r] = "SENT" => status[r] = "SENT"
                               /\ status'[r] # "absent" => status[r] # "absent"
      BY <1>1
    <2> QED BY <1>1, <2>1 DEF HInv, Noted, HonestStatus
  <1>3. RowFates' = [r \in Recipients |-> IF r \in some THEN "waiting" ELSE RowFates[r]]
    BY <1>1 DEF RowFates, FateOf
  <1>4. some \in SUBSET {r \in RowsOf(n) : RowFates[r] = "given up"}
    BY DEF RowFates, FateOf
  <1>5. UNCHANGED <<Phases, Held, delivered>>
    BY <1>1 DEF Phases, Held
  <1>6. Contract!PutBack(n)
    BY <1>3, <1>4, <1>5 DEF Contract!PutBack, Contract!RowsUnder, Contract!Rows, Contract!NoticeOf
  <1> QED BY <1>2, <1>6 DEF ContractStep, Contract!ContractNext

LEMMA CentreStep ==
  ASSUME HInv, NEW a \in Admins, NEW n \in Notifications, Centre(a, n) \/ abandonRequest(a)
  PROVE  Noted' /\ HonestStatus' /\ ContractStep
  <1>1. CASE UNCHANGED <<header, status, locals, delivered>>
    BY <1>1, OutsideStep
  <1>2. CASE cancelNotification(a, n) \/ rescheduleNotification(a, n) \/ requeueHeader(a, n) \/ updateScheduledNotification(a, n)
    <2>1. PICK op \in Ops, st \in {header[n], "SCHEDULED", "CANCELED"}, d \in {due[n], request[a].due, TRUE} : write(a, n, op, st, d)
      BY <1>2, Zenon DEF cancelNotification, rescheduleNotification, requeueHeader, updateScheduledNotification, Ops
    <2> QED BY <2>1, WriteDecides
  <1>3. CASE retryFailedRecipients(a, n)
    BY <1>3, RetryPutsBack
  <1> QED BY <1>1, <1>2, <1>3 DEF Centre, startCancel, startRetry, startReschedule, startUpdate, Start, abandonRequest

\* A new header has no row, and nobody was told of it, before its creation.
LEMMA CreateAnnounces ==
  ASSUME HInv, NEW n \in Notifications, NEW targets \in SUBSET Users, NEW withPush \in SUBSET targets, NEW now \in BOOLEAN,
         createNotification(n, targets, withPush, now)
  PROVE  Noted' /\ HonestStatus' /\ ContractStep
  <1> DEFINE fresh == {n} \X targets
             new == [r \in Recipients |-> IF r \in fresh THEN IF r[2] \in withPush THEN "waiting" ELSE "given up" ELSE RowFates[r]]
  <1>1. /\ header[n] = "absent" /\ header' = [header EXCEPT ![n] = IF targets = {} THEN "COMPLETED" ELSE "SCHEDULED"]
        /\ status' = [r \in Recipients |-> IF r \notin fresh THEN status[r] ELSE IF r[2] \in withPush THEN "PENDING" ELSE "NO_SUBSCRIPTION"]
        /\ UNCHANGED <<locals, delivered>>
    BY DEF createNotification
  <1>2. \A r \in RowsOf(n) : status[r] = "absent"
    BY <1>1 DEF HInv, IInv, FreshRows
  <1>3. Noted'
    BY <1>1 DEF HInv, Noted
  <1>4. HonestStatus'
    <2>1. \A r \in Recipients : status'[r] = "SENT" => delivered'[r] > 0
      BY <1>1 DEF HInv, HonestStatus
    <2>2. ASSUME NEW k \in Notifications, header'[k] = "COMPLETED", NEW r \in RowsOf(k), status'[r] # "absent"
          PROVE  \E x \in RowsOf(k) : delivered'[x] > 0
      <3>1. k # n
        BY <1>1, <1>2, <2>2 DEF HInv, IInv, TypeOK
      <3>2. header[k] = "COMPLETED" /\ status[r] # "absent"
        BY <1>1, <2>2, <3>1
      <3> QED BY <1>1, <2>2, <3>2 DEF HInv, HonestStatus
    <2> QED BY <2>1, <2>2 DEF HonestStatus
  <1>5. RowFates' = new
    BY <1>1 DEF RowFates, FateOf
  <1>6. UNCHANGED <<Held, delivered>>
    BY <1>1 DEF Held
  <1>7. RowFates' \in [Contract!Rows -> Contract!Fates] /\ Phases[n] = "absent"
    BY <1>1, <1>5 DEF RowFates, FateOf, Contract!Rows, Contract!Fates, Phases, PhaseOf, HInv, IInv, TypeOK
  <1>8. \A r \in Contract!Rows : RowFates'[r] = RowFates[r] \/ (Contract!NoticeOf(r) = n /\ RowFates'[r] \in {"waiting", "given up"})
    BY <1>5 DEF Contract!Rows, Contract!NoticeOf
  <1>9. (\A r \in Contract!RowsUnder(n) : RowFates'[r] = "absent") <=> targets = {}
    <2>1. Contract!RowsUnder(n) = RowsOf(n)
      BY DEF Contract!RowsUnder, Contract!Rows, Contract!NoticeOf
    <2>2. \A r \in RowsOf(n) : RowFates'[r] = "absent" <=> r \notin fresh
      BY <1>2, <1>5 DEF RowFates, FateOf
    <2>3. \A u \in targets : <<n, u>> \in RowsOf(n) /\ <<n, u>> \in fresh
      OBVIOUS
    <2> QED BY <2>1, <2>2, <2>3
  <1>10. Phases' = [Phases EXCEPT ![n] = IF targets = {} THEN "completed" ELSE "live"]
    BY <1>1 DEF Phases, PhaseOf, HInv, IInv, TypeOK
  <1>11. Contract!Announce(n)
    BY <1>6, <1>7, <1>8, <1>9, <1>10 DEF Contract!Announce
  <1> QED BY <1>3, <1>4, <1>11 DEF ContractStep, Contract!ContractNext

LEMMA CleanupForgets ==
  ASSUME HInv, NEW n \in Notifications, cleanupOldNotifications(n)
  PROVE  Noted' /\ HonestStatus' /\ ContractStep
  <1>1. /\ header[n] \in {"COMPLETED", "FAILED", "CANCELED"} /\ header' = [header EXCEPT ![n] = "deleted"]
        /\ status' = [r \in Recipients |-> IF HeaderOf(r) = n THEN "absent" ELSE status[r]]
        /\ UNCHANGED <<locals, delivered>>
    BY DEF cleanupOldNotifications
  <1>2. Noted' /\ HonestStatus'
    <2>1. Noted'
      BY <1>1 DEF HInv, Noted
    <2>2. \A k \in Notifications : header'[k] = "COMPLETED" => header[k] = "COMPLETED"
      BY <1>1 DEF HInv, IInv, TypeOK
    <2>3. \A r \in Recipients : status'[r] # "absent" => status'[r] = status[r]
      BY <1>1
    <2> QED BY <1>1, <2>1, <2>2, <2>3 DEF HInv, HonestStatus
  <1>3. Phases[n] \in {"completed", "stopped"} /\ Phases' = [Phases EXCEPT ![n] = "deleted"]
    BY <1>1 DEF Phases, PhaseOf, HInv, IInv, TypeOK
  <1>4. RowFates' = [r \in Recipients |-> IF HeaderOf(r) = n THEN "absent" ELSE RowFates[r]]
    BY <1>1 DEF RowFates, FateOf
  <1>5. UNCHANGED <<Held, delivered>>
    BY <1>1 DEF Held
  <1>6. Contract!Forget(n)
    BY <1>3, <1>4, <1>5 DEF Contract!Forget, Contract!Rows, Contract!NoticeOf
  <1> QED BY <1>2, <1>6 DEF ContractStep, Contract!ContractNext

-----------------------------------------------------------------------------
LEMMA NextHInv == HInv /\ [Next]_vars => HInv' /\ ContractStep
  <1> SUFFICES ASSUME HInv, [Next]_vars PROVE Noted' /\ HonestStatus' /\ ContractStep
    BY NextIInv DEF HInv
  <1>1. CASE \E w \in Workers : Worker(w) \/ crash(w)
    BY <1>1, WorkerStep
  <1>2. CASE \E a \in Admins, n \in Notifications : Centre(a, n)
    BY <1>2, CentreStep
  <1>3. CASE \E n \in Notifications : cleanupOldNotifications(n)
    BY <1>3, CleanupForgets
  <1>4. CASE \E n \in Notifications, targets \in SUBSET Users, now \in BOOLEAN :
               \E withPush \in SUBSET targets : createNotification(n, targets, withPush, now)
    BY <1>4, CreateAnnounces
  <1>5. CASE \/ \E a \in Admins : abandonRequest(a)
             \/ \E n \in Notifications : BecomesDue(n)
             \/ \E r \in Recipients : LockLapses(r)
             \/ \E u \in Users, s \in Subs : upsertSubscription(u, s) \/ deleteSubscription(u, s)
             \/ UNCHANGED vars
    BY <1>5, OutsideStep DEF abandonRequest, BecomesDue, LockLapses, upsertSubscription, deleteSubscription, vars
  <1> QED BY <1>1, <1>2, <1>3, <1>4, <1>5 DEF Next

LEMMA HInvariance == Spec => []HInv
  BY InitHInv, NextHInv, PTL DEF Spec

-----------------------------------------------------------------------------
\* No row is reported as SENT, and no notification as COMPLETED, of which
\* nobody was told: not by a late worker, a crash or a racing request.
THEOREM HonestlyReported == Spec => []HonestStatus
  <1>1. HInv => HonestStatus
    BY DEF HInv
  <1> QED BY <1>1, HInvariance, PTL

\* The processes and requests of every instance, in every interleaving, do
\* what DeliveryContract allows and nothing else.
THEOREM Refinement == Spec => KeepsContract
  <1>1. Init => Contract!ContractInit
    BY InitContract
  <1>2. HInv /\ [Next]_vars => [Contract!ContractNext]_(Contract!contractVars)
    BY NextHInv DEF ContractStep
  <1> QED BY <1>1, <1>2, HInvariance, PTL DEF Spec, KeepsContract, Contract!ContractSpec

-----------------------------------------------------------------------------
\* What undoes a cancellation.

\* A reschedule that is under way has read a header that was not cancelled.
Readings == \A a \in Admins : request[a].op = "reschedule" => request[a].read # "CANCELED"

\* A step that writes a cancelled header does what was begun before.
OverridesStale ==
    \A n \in Notifications :
        header[n] = "CANCELED" /\ header'[n] \notin {"CANCELED", "deleted"} =>
            \/ \E w \in Workers : verdict[w][n] # "none"
            \/ \E a \in Admins : Asked(a, n, "requeue")
            \/ \E a \in Admins : Asked(a, n, "reschedule") /\ request[a].read # "CANCELED"

LEMMA SilentOnCancelled ==
  ASSUME \A n \in Notifications : header[n] = "CANCELED" => header'[n] \in {"CANCELED", "deleted"}
  PROVE  OverridesStale
BY DEF OverridesStale

LEMMA StartReads ==
  ASSUME IInv, Readings, NEW a \in Admins, NEW n \in Notifications, NEW op \in Ops, NEW d \in BOOLEAN, Start(a, n, op, d),
         op = "reschedule" => header[n] # "CANCELED"
  PROVE  Readings' /\ OverridesStale
<1>1. request' = [request EXCEPT ![a] = [op |-> op, of |-> n, read |-> header[n], due |-> d]] /\ UNCHANGED header
  BY DEF Start
<1>2. Readings'
  BY <1>1 DEF Readings, IInv, TypeOK
<1> QED BY <1>1, <1>2, SilentOnCancelled

LEMMA WriteReads ==
  ASSUME IInv, Readings, NEW a \in Admins, NEW n \in Notifications, NEW op, NEW st, NEW d, write(a, n, op, st, d),
         \/ op \in {"requeue", "reschedule"} \/ st \in {header[n], "CANCELED"}
  PROVE  Readings' /\ OverridesStale
<1>1. /\ Asked(a, n, op) /\ request' = [request EXCEPT ![a] = Idle]
      /\ header' = (IF Exists(n) THEN [header EXCEPT ![n] = st] ELSE header)
  BY DEF write, Done
<1>2. Readings'
  <2>1. Idle.op # "reschedule"
    BY DEF Idle
  <2> QED BY <1>1, <2>1 DEF Readings, IInv, TypeOK
<1>3. ASSUME NEW k \in Notifications, header[k] = "CANCELED", header'[k] \notin {"CANCELED", "deleted"}
      PROVE  Asked(a, k, "requeue") \/ (Asked(a, k, "reschedule") /\ request[a].read # "CANCELED")
  <2>1. k = n /\ op \in {"requeue", "reschedule"}
    BY <1>1, <1>3 DEF IInv, TypeOK
  <2>2. op = "reschedule" => request[a].op = "reschedule"
    BY <1>1 DEF Asked
  <2> QED BY <1>1, <2>1, <2>2 DEF Readings
<1> QED BY <1>2, <1>3 DEF OverridesStale

LEMMA CancelStep == IInv /\ Readings /\ [Next]_vars => Readings' /\ OverridesStale
<1> SUFFICES ASSUME IInv, Readings, [Next]_vars PROVE Readings' /\ OverridesStale
  OBVIOUS
<1>1. CASE UNCHANGED <<header, request>>
  BY <1>1, SilentOnCancelled DEF Readings
<1>2. ASSUME NEW w \in Workers, Worker(w) \/ crash(w) PROVE Readings' /\ OverridesStale
  <2>1. UNCHANGED request
    BY <1>2 DEF Worker, claimBatch, readSubscriptions, finishRecipient, sendPush, countRows, writeVerdict, endBatch, throwAway, crash
  <2>2. Readings'
    BY <2>1 DEF Readings
  <2>3. CASE \E claimed \in SUBSET Recipients : claimBatch(w, claimed)
    <3>1. \A n \in Notifications : header[n] = "CANCELED" => header'[n] = "CANCELED"
      BY <2>3 DEF claimBatch
    <3> QED BY <2>2, <3>1, SilentOnCancelled
  <2>4. CASE \E n \in Notifications : writeVerdict(w, n)
    <3>1. PICK n \in Notifications : writeVerdict(w, n)
      BY <2>4
    <3>2. verdict[w][n] # "none" /\ \A k \in Notifications \ {n} : header'[k] = header[k]
      BY <3>1 DEF writeVerdict, IInv, TypeOK
    <3> QED BY <2>2, <3>2 DEF OverridesStale
  <2>5. CASE \/ \E r \in Recipients : readSubscriptions(w, r) \/ finishRecipient(w, r)
             \/ \E s \in Subs, answer \in {"ok", "gone", "error"} : sendPush(w, s, answer)
             \/ \E n \in Notifications : countRows(w, n)
             \/ endBatch(w) \/ throwAway(w) \/ crash(w)
    BY <1>1, <2>1, <2>5 DEF readSubscriptions, finishRecipient, sendPush, countRows, endBatch, throwAway, crash
  <2> QED BY <1>2, <2>3, <2>4, <2>5 DEF Worker
<1>3. ASSUME NEW a \in Admins, abandonRequest(a) PROVE Readings' /\ OverridesStale
  <2>1. request' = [request EXCEPT ![a] = Idle] /\ UNCHANGED header /\ Idle.op # "reschedule"
    BY <1>3 DEF abandonRequest, Done, Idle
  <2>2. Readings'
    BY <2>1 DEF Readings, IInv, TypeOK
  <2> QED BY <2>1, <2>2, SilentOnCancelled
<1>4. ASSUME NEW a \in Admins, NEW n \in Notifications, Centre(a, n) PROVE Readings' /\ OverridesStale
  <2>1. CASE startCancel(a, n) \/ startRetry(a, n)
    BY <2>1, StartReads DEF startCancel, startRetry, Ops
  <2>2. CASE \E d \in BOOLEAN : startReschedule(a, n, d) \/ startUpdate(a, n, d)
    BY <2>2, StartReads DEF startReschedule, startUpdate, Ops
  <2>3. CASE cancelNotification(a, n)
    BY <2>3, WriteReads DEF cancelNotification
  <2>4. CASE rescheduleNotification(a, n) \/ updateScheduledNotification(a, n)
    BY <2>4, WriteReads DEF rescheduleNotification, updateScheduledNotification
  <2>5. CASE retryFailedRecipients(a, n)
    <3>1. UNCHANGED header /\ request[a] \in Requests /\ \A b \in Admins \ {a} : request'[b] = request[b]
      BY <2>5 DEF retryFailedRecipients, IInv, TypeOK
    <3>2. request'[a].op \in {"idle", "requeue"}
      BY <2>5 DEF retryFailedRecipients, Asked, Idle, IInv, TypeOK
    <3>3. Readings'
      BY <3>1, <3>2 DEF Readings
    <3> QED BY <3>1, <3>3, SilentOnCancelled
  <2>6. CASE requeueHeader(a, n)
    BY <2>6, WriteReads DEF requeueHeader
  <2> QED BY <1>4, <2>1, <2>2, <2>3, <2>4, <2>5, <2>6 DEF Centre
<1>5. ASSUME NEW n \in Notifications, BecomesDue(n) \/ cleanupOldNotifications(n) PROVE Readings' /\ OverridesStale
  <2>1. CASE BecomesDue(n)
    BY <1>1, <2>1 DEF BecomesDue
  <2>2. CASE cleanupOldNotifications(n)
    <3>1. UNCHANGED request /\ \A k \in Notifications : header'[k] \in {header[k], "deleted"}
      BY <2>2 DEF cleanupOldNotifications, IInv, TypeOK
    <3> QED BY <3>1, SilentOnCancelled DEF Readings
  <2> QED BY <1>5, <2>1, <2>2
<1>6. ASSUME NEW n \in Notifications, NEW targets, NEW withPush, NEW t, createNotification(n, targets, withPush, t) PROVE Readings' /\ OverridesStale
  <2>1. UNCHANGED request /\ header[n] = "absent" /\ \A k \in Notifications \ {n} : header'[k] = header[k]
    BY <1>6 DEF createNotification, IInv, TypeOK
  <2>2. \A k \in Notifications : header[k] = "CANCELED" => header'[k] = "CANCELED"
    BY <2>1
  <2> QED BY <2>1, <2>2, SilentOnCancelled DEF Readings
<1>7. ASSUME NEW r \in Recipients, LockLapses(r) PROVE UNCHANGED <<header, request>>
  BY <1>7 DEF LockLapses
<1>8. ASSUME NEW u \in Users, NEW s \in Subs, upsertSubscription(u, s) \/ deleteSubscription(u, s) PROVE UNCHANGED <<header, request>>
  BY <1>8 DEF upsertSubscription, deleteSubscription
<1>9. CASE UNCHANGED vars
  BY <1>1, <1>9 DEF vars
<1> QED BY <1>1, <1>2, <1>3, <1>4, <1>5, <1>6, <1>7, <1>8, <1>9 DEF Next

\* A cancelled notification is revived only by a worker that had claimed its
\* rows, a reschedule that had read it before, or a retry.
THEOREM CancelHolds == Spec => CancelIsOverriddenOnlyByStaleWork
<1>1. Init => Readings
  BY DEF Init, Readings, Idle
<1>2. Spec => [](IInv /\ Readings)
  <2>1. Init => IInv /\ Readings
    BY <1>1, InitIInv
  <2>2. (IInv /\ Readings) /\ [Next]_vars => (IInv /\ Readings)'
    BY NextIInv, CancelStep
  <2> QED BY <2>1, <2>2, PTL DEF Spec
<1>3. (IInv /\ Readings) /\ [Next]_vars => [OverridesStale]_vars
  BY CancelStep
<1> QED BY <1>2, <1>3, PTL DEF Spec, CancelIsOverriddenOnlyByStaleWork, OverridesStale
=============================================================================
