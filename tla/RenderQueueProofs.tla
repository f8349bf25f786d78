-------------------------- MODULE RenderQueueProofs --------------------------
(***************************************************************************)
(* Proofs about RenderQueue, for any number of requests and documents and  *)
(* any limit of the queue, and about the cache of documents and logos, for *)
(* any sizes and limits.                                                   *)
(***************************************************************************)
EXTENDS RenderQueue, DocumentCache, FiniteSetTheorems, TLAPS

\* The tasks that count in activeRenders and not in waitingCount.
Holder(r) == task[r] = "running" \/ (task[r] = "waiting" /\ ~wasQueued[r])

OneHolder == \A r, q \in Requests : Holder(r) /\ Holder(q) => r = q

\* The chain holds the waiting tasks, once each, and a task that found the
\* queue free is first.
Chain ==
    /\ \A i \in 1..Len(line) : task[line[i]] = "waiting"
    /\ \A i, j \in 1..Len(line) : line[i] = line[j] => i = j
    /\ \A r \in Requests : task[r] = "waiting" => \E i \in 1..Len(line) : line[i] = r
    /\ \A r \in Requests : task[r] = "waiting" /\ ~wasQueued[r] => line # <<>> /\ Head(line) = r

Books == SemaphoreIsTruthful /\ waitingCount <= MaxWaiting

\* An execution without its task belongs to a request answered "late".
Executions ==
    \A r \in Requests :
        /\ exec[r] # "none" => task[r] \in {"running", "over"}
        /\ r \in Live /\ task[r] = "over" => answer[r] = "late"
        /\ answer[r] # "none" => task[r] = "over"

IInv ==
    /\ TypeOK
    /\ OneHolder
    /\ Chain
    /\ Books
    /\ Executions
    /\ NoWastedDraw

USE RenderAssumption DEF queue, Running, Live

-----------------------------------------------------------------------------
LEMMA InitIInv == Init => IInv
  <1> SUFFICES ASSUME Init PROVE IInv
    OBVIOUS
  <1>1. TypeOK /\ OneHolder /\ Chain /\ Executions /\ NoWastedDraw
    BY DEF Init, TypeOK, OneHolder, Holder, Chain, Executions, NoWastedDraw, Answers
  <1>2. Queued = {} /\ Accepted = {}
    BY DEF Init, Queued, Accepted
  <1>3. Books
    BY <1>2, FS_EmptySet DEF Init, Books, SemaphoreIsTruthful
  <1> QED BY <1>1, <1>3 DEF IInv

LEMMA QueuedIsFinite ==
  IsFiniteSet(Queued) /\ Cardinality(Queued) \in Nat /\ (Cardinality(Queued) = 0 <=> Queued = {})
  <1>1. Queued \in SUBSET Requests
    BY DEF Queued
  <1>2. IsFiniteSet(Queued)
    BY <1>1, FS_Subset
  <1> QED BY <1>2, FS_CardinalityType, FS_EmptySet

\* The counters and the chain follow every step that touches neither.
LEMMA QuietQueue == IInv /\ UNCHANGED queue => OneHolder' /\ Chain' /\ Books'
  BY DEF IInv, OneHolder, Holder, Chain, Books, SemaphoreIsTruthful, Accepted, Queued

\* A request answered without a task leaves the queue as it is.
LEMMA AtOnceStep ==
  ASSUME IInv, NEW r \in Requests, NEW how \in {"document", "notModified", "busy"},
         task[r] = "new",
         task' = [task EXCEPT ![r] = "over"], answer' = [answer EXCEPT ![r] = how],
         UNCHANGED <<asked, wasQueued, line, activeRenders, waitingCount, exec, told, result, cache>>
  PROVE  IInv'
  <1>1. TypeOK'
    BY DEF IInv, TypeOK, Answers
  <1>2. Accepted' = Accepted /\ Queued' = Queued
    BY DEF IInv, TypeOK, Accepted, Queued
  <1>3. Books'
    BY <1>2 DEF IInv, Books, SemaphoreIsTruthful
  <1>4. OneHolder' /\ Chain'
    BY DEF IInv, TypeOK, OneHolder, Holder, Chain
  <1>5. Executions' /\ NoWastedDraw'
    BY DEF IInv, TypeOK, Executions, NoWastedDraw
  <1> QED BY <1>1, <1>3, <1>4, <1>5 DEF IInv

LEMMA AcceptStep ==
  ASSUME IInv, NEW r \in Requests, accept(r)
  PROVE  IInv'
  <1> USE DEF accept
  <1>1. TypeOK'
    BY DEF IInv, TypeOK
  <1>2. Accepted = {} => line = <<>>
    <2>1. SUFFICES ASSUME line # <<>> PROVE Accepted # {}
      OBVIOUS
    <2>2. 1 \in 1..Len(line) /\ line[1] \in Requests
      BY <2>1 DEF IInv, TypeOK
    <2> QED BY <2>2 DEF IInv, Chain, Accepted
  <1>3. Accepted' = Accepted \cup {r}
    BY DEF IInv, TypeOK, Accepted
  <1>4. r \notin Accepted
    BY DEF IInv, TypeOK, Accepted
  <1> DEFINE free == activeRenders > 0
  <1>10. wasQueued' = [wasQueued EXCEPT ![r] = free]
    OBVIOUS
  <1>11. \A q \in Requests : wasQueued'[q] <=> (IF q = r THEN free ELSE wasQueued[q])
    BY <1>10, Zenon DEF IInv, TypeOK
  <1> HIDE DEF free
  <1>5. ASSUME activeRenders > 0 PROVE Books' /\ OneHolder'
    <2>1. Queued' = Queued \cup {r} /\ r \notin Queued
      BY <1>5, <1>11 DEF IInv, TypeOK, Queued, free
    <2>2. Cardinality(Queued') = Cardinality(Queued) + 1
      BY <2>1, QueuedIsFinite, FS_AddElement
    <2>3. Books'
      BY <1>3, <1>5, <2>2, QueuedIsFinite DEF IInv, Books, SemaphoreIsTruthful, Full, TypeOK
    <2>4. \A q \in Requests : Holder(q)' => Holder(q)
      BY <1>5, <1>11 DEF IInv, TypeOK, Holder, free
    <2>5. OneHolder'
      BY <2>4, Zenon DEF IInv, OneHolder, Holder
    <2> QED BY <2>3, <2>5
  <1>6. ASSUME activeRenders = 0 PROVE Books' /\ OneHolder'
    <2>1. Accepted = {} /\ line = <<>>
      BY <1>6, <1>2 DEF IInv, Books, SemaphoreIsTruthful
    <2>2. Queued' = Queued
      BY <1>6, <1>11 DEF IInv, TypeOK, Queued, free
    <2>3. Books'
      BY <1>3, <1>6, <2>2 DEF IInv, Books, SemaphoreIsTruthful, TypeOK
    <2>4. \A q \in Requests : Holder(q)' => q = r
      BY <2>1 DEF IInv, TypeOK, Holder, Accepted
    <2>5. OneHolder'
      BY <2>4, Zenon DEF OneHolder, Holder
    <2> QED BY <2>3, <2>5
  <1>7. Chain'
    <2>1. Len(line') = Len(line) + 1 /\ line'[Len(line) + 1] = r
          /\ \A i \in 1..Len(line) : line'[i] = line[i]
      BY DEF IInv, TypeOK
    <2>2. Len(line) \in Nat /\ \A i \in 1..Len(line) : line[i] \in Requests /\ line[i] # r
      BY <1>4 DEF IInv, TypeOK, Chain, Accepted
    <2>3. \A i \in 1..Len(line') : task'[line'[i]] = "waiting"
      BY <2>1, <2>2 DEF IInv, TypeOK, Chain
    <2>4. \A i, j \in 1..Len(line') : line'[i] = line'[j] => i = j
      BY <2>1, <2>2 DEF IInv, Chain
    <2>5. \A q \in Requests : task'[q] = "waiting" => \E i \in 1..Len(line') : line'[i] = q
      <3> SUFFICES ASSUME NEW q \in Requests, task'[q] = "waiting"
                   PROVE  \E i \in 1..Len(line') : line'[i] = q
        OBVIOUS
      <3>1. CASE q = r
        BY <3>1, <2>1, <2>2
      <3>2. CASE q # r
        <4>1. PICK i \in 1..Len(line) : line[i] = q
          BY <3>2 DEF IInv, TypeOK, Chain
        <4> QED BY <4>1, <2>1, <2>2
      <3> QED BY <3>1, <3>2
    <2>6. \A q \in Requests : task'[q] = "waiting" /\ ~wasQueued'[q] => line' # <<>> /\ Head(line') = q
      <3> SUFFICES ASSUME NEW q \in Requests, task'[q] = "waiting", ~wasQueued'[q]
                   PROVE  line' # <<>> /\ Head(line') = q
        OBVIOUS
      <3>1. CASE q = r
        <4>1. activeRenders = 0
          BY <3>1, <1>11 DEF IInv, TypeOK, free
        <4>2. line = <<>>
          BY <4>1, <1>2 DEF IInv, Books, SemaphoreIsTruthful
        <4> QED BY <3>1, <4>2, <2>1
      <3>2. CASE q # r
        <4>1. line # <<>> /\ Head(line) = q
          BY <3>2, <1>11 DEF IInv, TypeOK, Chain
        <4> QED BY <4>1, <2>1 DEF IInv, TypeOK
      <3> QED BY <3>1, <3>2
    <2> QED BY <2>3, <2>4, <2>5, <2>6 DEF Chain
  <1>8. Executions' /\ NoWastedDraw'
    BY DEF IInv, TypeOK, Executions, NoWastedDraw
  <1> QED BY <1>1, <1>5, <1>6, <1>7, <1>8 DEF IInv, TypeOK

LEMMA StartStep ==
  ASSUME IInv, NEW r \in Requests, start(r)
  PROVE  IInv'
  <1> USE DEF start, Turn
  <1>1. task[r] = "waiting" /\ Running = {} /\ Len(line) \in Nat /\ Len(line) > 0 /\ line[1] = r
    <2>1. Len(line) \in Nat /\ Len(line) > 0 /\ line[1] = r
      BY DEF IInv, TypeOK
    <2> QED BY <2>1 DEF IInv, Chain
  <1>2. TypeOK'
    BY <1>1 DEF IInv, TypeOK
  <1>3. \A q \in Requests : Holder(q) => q = r
    BY <1>1 DEF IInv, Chain, Holder
  <1>4. OneHolder'
    BY <1>3 DEF IInv, TypeOK, OneHolder, Holder
  <1>5. Accepted' # {} /\ Accepted # {}
    BY <1>1 DEF IInv, TypeOK, Accepted
  <1>6. Books'
    <2>1. CASE wasQueued[r]
      <3>1. Queued' = Queued \ {r} /\ r \in Queued
        BY <1>1, <2>1 DEF IInv, TypeOK, Queued
      <3>2. Cardinality(Queued') = Cardinality(Queued) - 1 /\ Cardinality(Queued) # 0
        BY <3>1, QueuedIsFinite, FS_RemoveElement
      <3> QED BY <1>5, <2>1, <3>2, QueuedIsFinite DEF IInv, Books, SemaphoreIsTruthful, TypeOK
    <2>2. CASE ~wasQueued[r]
      <3>1. Queued' = Queued
        BY <2>2 DEF IInv, TypeOK, Queued
      <3> QED BY <1>5, <2>2, <3>1 DEF IInv, Books, SemaphoreIsTruthful, TypeOK
    <2> QED BY <2>1, <2>2
  <1>7. Chain'
    <2>1. Len(line') = Len(line) - 1 /\ \A i \in 1..Len(line') : line'[i] = line[i + 1]
      BY <1>1 DEF IInv, TypeOK
    <2>2. \A q \in Requests : task'[q] = "waiting" <=> task[q] = "waiting" /\ q # r
      BY DEF IInv, TypeOK
    <2>3. \A i \in 1..Len(line') : task'[line'[i]] = "waiting"
      <3> SUFFICES ASSUME NEW i \in 1..Len(line') PROVE task'[line'[i]] = "waiting"
        OBVIOUS
      <3>1. i + 1 \in 1..Len(line) /\ 1 \in 1..Len(line) /\ i + 1 # 1
        BY <1>1, <2>1
      <3>2. line[i + 1] # r /\ line[i + 1] \in Requests /\ task[line[i + 1]] = "waiting"
        BY <1>1, <3>1 DEF IInv, TypeOK, Chain
      <3> QED BY <2>1, <2>2, <3>2
    <2>4. \A i, j \in 1..Len(line') : line'[i] = line'[j] => i = j
      BY <1>1, <2>1 DEF IInv, Chain
    <2>5. \A q \in Requests : task'[q] = "waiting" => \E i \in 1..Len(line') : line'[i] = q
      <3> SUFFICES ASSUME NEW q \in Requests, task'[q] = "waiting"
                   PROVE  \E i \in 1..Len(line') : line'[i] = q
        OBVIOUS
      <3>1. PICK i \in 1..Len(line) : line[i] = q
        BY <2>2 DEF IInv, Chain
      <3>2. i # 1
        BY <1>1, <2>2, <3>1
      <3>3. i - 1 \in 1..Len(line') /\ (i - 1) + 1 = i
        BY <1>1, <2>1, <3>2
      <3>4. line'[i - 1] = q
        BY <2>1, <3>1, <3>3
      <3> QED BY <3>3, <3>4
    <2>6. \A q \in Requests : ~(task'[q] = "waiting" /\ ~wasQueued'[q])
      BY <1>3, <2>2 DEF Holder
    <2> QED BY <2>3, <2>4, <2>5, <2>6 DEF Chain
  <1>8. Executions' /\ NoWastedDraw'
    BY <1>1 DEF IInv, TypeOK, Executions, NoWastedDraw
  <1> QED BY <1>2, <1>4, <1>6, <1>7, <1>8 DEF IInv

\* The end of a task: the semaphore is released when nobody waits, and then
\* no task at all is left.
LEMMA SettleQueue ==
  ASSUME IInv, NEW r \in Running, NEW how, settle(r, how)
  PROVE  OneHolder' /\ Chain' /\ Books'
  <1> USE DEF settle
  <1>1. r \in Requests /\ task[r] = "running"
    OBVIOUS
  <1>2. Queued' = Queued /\ Accepted' = Accepted \ {r}
    BY <1>1 DEF IInv, TypeOK, Accepted, Queued
  <1>3. \A q \in Accepted \ {r} : q \in Queued
    BY <1>1 DEF IInv, OneHolder, Holder, Accepted, Queued
  <1>4. Accepted' = Queued
    BY <1>1, <1>2, <1>3 DEF Accepted, Queued
  <1>5. Books'
    BY <1>1, <1>2, <1>4, QueuedIsFinite DEF IInv, Books, SemaphoreIsTruthful, TypeOK, Released
  <1>6. OneHolder' /\ Chain'
    BY <1>1 DEF IInv, TypeOK, OneHolder, Holder, Chain
  <1> QED BY <1>5, <1>6

LEMMA TimeoutStep ==
  ASSUME IInv, NEW r \in Requests, timeout(r)
  PROVE  IInv'
  <1> USE DEF timeout, settle
  <1>1. OneHolder' /\ Chain' /\ Books'
    BY SettleQueue
  <1>2. TypeOK'
    BY DEF IInv, TypeOK, Answers, Released
  <1>3. Executions' /\ NoWastedDraw'
    BY DEF IInv, TypeOK, Executions, NoWastedDraw
  <1> QED BY <1>1, <1>2, <1>3 DEF IInv

\* The end of an execution, attached to its task or not.
LEMMA EndStep ==
  ASSUME IInv, NEW r \in Live, NEW how \in Answers, end(r, how)
  PROVE  IInv'
  <1> USE DEF end, settle
  <1>1. OneHolder' /\ Chain' /\ Books'
    BY SettleQueue, QuietQueue
  <1>2. TypeOK'
    BY DEF IInv, TypeOK, Released
  <1>3. Executions'
    BY DEF IInv, TypeOK, Executions
  <1>4. NoWastedDraw'
    <2>1. \A q \in Requests : answer[q] = "late" => answer'[q] = "late"
      BY DEF IInv, TypeOK, Executions
    <2> QED BY <2>1 DEF IInv, TypeOK, NoWastedDraw
  <1> QED BY <1>1, <1>2, <1>3, <1>4 DEF IInv

LEMMA BrowserIsShared ==
  ASSUME IInv
  PROVE  SecondBrowserIsLate
  BY DEF IInv, SecondBrowserIsLate, Executions, OneHolder, Holder, TypeOK

LEMMA ExecutionStep ==
  ASSUME IInv, NEW r \in Requests, Execution(r)
  PROVE  IInv'
  <1>1. CASE launched(r)
    <2> USE <1>1 DEF launched
    <2>1. TypeOK' /\ Executions' /\ NoWastedDraw'
      BY DEF IInv, TypeOK, Executions, NoWastedDraw
    <2> QED BY <2>1, QuietQueue DEF IInv
  <1>2. CASE launchFails(r)
    BY <1>2, EndStep DEF launchFails, Answers
  <1>3. ASSUME NEW cacheable \in BOOLEAN, drawn(r, cacheable)
        PROVE  IInv'
    <2> USE <1>3 DEF drawn
    <2>1. TypeOK' /\ Executions'
      BY DEF IInv, TypeOK, Executions
    <2>2. NoWastedDraw'
      <3> SUFFICES ASSUME NEW q \in Requests, exec'[q] = "drawing", asked[q] \in cache'
                   PROVE  \E p \in Requests : asked[p] = asked[q] /\ answer[p] = "late"
        BY DEF NoWastedDraw
      <3>1. q # r /\ exec[q] = "drawing"
        BY DEF IInv, TypeOK
      <3>2. CASE asked[q] \in cache
        BY <3>1, <3>2 DEF IInv, NoWastedDraw
      <3>3. CASE asked[q] = asked[r]
        BY <3>1, <3>3, BrowserIsShared DEF SecondBrowserIsLate
      <3> QED BY <3>2, <3>3
    <2> QED BY <2>1, <2>2, QuietQueue DEF IInv
  <1>4. CASE drawFails(r)
    <2> USE <1>4 DEF drawFails
    <2>1. TypeOK' /\ Executions' /\ NoWastedDraw'
      BY DEF IInv, TypeOK, Executions, NoWastedDraw
    <2> QED BY <2>1, QuietQueue DEF IInv
  <1>5. CASE closed(r)
    <2>1. result[r] \in Answers /\ r \in Live
      BY <1>5 DEF IInv, TypeOK, Answers, closed
    <2> QED BY <1>5, <2>1, EndStep DEF closed
  <1> QED BY <1>1, <1>2, <1>3, <1>4, <1>5 DEF Execution

LEMMA NextIInv == IInv /\ [Next]_vars => IInv'
  <1> SUFFICES ASSUME IInv, [Next]_vars PROVE IInv'
    OBVIOUS
  <1>1. ASSUME NEW r \in Requests,
               (\E how \in {"document", "notModified"} : answerAtOnce(r, how)) \/ refuse(r)
        PROVE  IInv'
    BY <1>1, AtOnceStep DEF answerAtOnce, refuse
  <1>2. ASSUME NEW r \in Requests, Task(r)
        PROVE  IInv'
    BY <1>2, StartStep, TimeoutStep DEF Task
  <1>3. ASSUME NEW d \in Documents, evict(d)
        PROVE  IInv'
    <2>1. TypeOK' /\ Executions' /\ NoWastedDraw'
      BY <1>3 DEF evict, IInv, TypeOK, Executions, NoWastedDraw
    <2> QED BY <1>3, <2>1, QuietQueue DEF IInv, evict
  <1>4. CASE UNCHANGED vars
    <2>1. TypeOK' /\ Executions' /\ NoWastedDraw'
      BY <1>4 DEF vars, IInv, TypeOK, Executions, NoWastedDraw
    <2> QED BY <1>4, <2>1, QuietQueue DEF IInv, vars
  <1> QED BY <1>1, <1>2, <1>3, <1>4, AcceptStep, ExecutionStep DEF Next

LEMMA Invariance == Spec => []IInv
  BY InitIInv, NextIInv, PTL DEF Spec

-----------------------------------------------------------------------------
\* The state of the queue, of the executions and of the answers keeps its type.
THEOREM TypeCorrect == Spec => []TypeOK
  <1>1. IInv => TypeOK
    BY DEF IInv
  <1> QED BY <1>1, Invariance, PTL

\* activeRenders and waitingCount count the chain exactly, in any order of
\* completions, failures and timeouts.
THEOREM Semaphore == Spec => []SemaphoreIsTruthful
  <1>1. IInv => SemaphoreIsTruthful
    BY DEF IInv, Books
  <1> QED BY <1>1, Invariance, PTL

\* At most maxQueueWaiting tasks wait behind the one that runs.
THEOREM Admission == Spec => []AdmissionBound
  <1>1. ASSUME IInv PROVE AdmissionBound
    <2>1. PICK h : \A r \in Requests : Holder(r) => r = h
      BY <1>1 DEF IInv, OneHolder
    <2>2. Accepted \subseteq Queued \cup {h}
      BY <2>1 DEF Holder, Accepted, Queued
    <2>3. /\ IsFiniteSet(Queued \cup {h})
          /\ Cardinality(Queued \cup {h}) <= waitingCount + 1
      <3>1. IsFiniteSet(Queued) /\ Cardinality(Queued) \in Nat /\ waitingCount = Cardinality(Queued)
        BY <1>1, QueuedIsFinite DEF IInv, Books, SemaphoreIsTruthful
      <3>2. /\ IsFiniteSet(Queued \cup {h})
            /\ Cardinality(Queued \cup {h})
                 = IF h \in Queued THEN Cardinality(Queued) ELSE Cardinality(Queued) + 1
        BY <3>1, FS_AddElement, Zenon
      <3> QED BY <3>1, <3>2
    <2>4. /\ IsFiniteSet(Accepted)
          /\ Cardinality(Accepted) <= Cardinality(Queued \cup {h})
      BY <2>2, <2>3, FS_Subset
    <2>5. Cardinality(Accepted) \in Nat /\ Cardinality(Queued \cup {h}) \in Nat
      BY <2>3, <2>4, FS_CardinalityType
    <2> QED BY <1>1, <2>3, <2>4, <2>5 DEF AdmissionBound, IInv, Books, TypeOK
  <1> QED BY <1>1, Invariance, PTL

\* A second browser in the process is always the remnant of a timeout.
THEOREM LateBrowser == Spec => []SecondBrowserIsLate
  <1> QED BY BrowserIsShared, Invariance, PTL

\* No document is drawn again while it is cached, but for a detached execution.
THEOREM DrawnOnce == Spec => []NoWastedDraw
  <1>1. IInv => NoWastedDraw
    BY DEF IInv
  <1> QED BY <1>1, Invariance, PTL
-----------------------------------------------------------------------------
(***************************************************************************)
(* The cache.  The bytes of a sequence are a recursive function, and what  *)
(* holds of it for every sequence needs induction: a nonempty set of       *)
(* numbers has a least one, because the finite subsets of the numbers are  *)
(* well-founded, so a claim about 0..n that fails fails somewhere first.   *)
(***************************************************************************)
\* The first counterexample.
LEMMA Least ==
  ASSUME NEW T \in SUBSET Nat, NEW n \in T
  PROVE  \E m \in T : \A k \in T : m <= k
<1> DEFINE Below(m) == 0..(m - 1)
           F == {Below(m) : m \in T}
<1>1. F \subseteq FiniteSubsetsOf(Nat)
  <2>1. \A m \in T : IsFiniteSet(Below(m)) /\ Below(m) \in SUBSET Nat
    <3> TAKE m \in T
    <3>1. m - 1 \in Int /\ 0 \in Int
      OBVIOUS
    <3> QED BY <3>1, FS_Interval
  <2> HIDE DEF Below
  <2> QED BY <2>1 DEF FiniteSubsetsOf
<1>2. IsWellFoundedOn(StrictSubsetOrdering(Nat), FiniteSubsetsOf(Nat))
  BY FS_StrictSubsetOrderingWellFounded
<1>3. PICK x \in F : \A y \in F : ~ (<<y, x>> \in StrictSubsetOrdering(Nat))
  <2>1. F # {}
    OBVIOUS
  <2> HIDE DEF F
  <2> QED BY <1>1, <1>2, <2>1, WFMin
<1>4. PICK m \in T : x = Below(m)
  OBVIOUS
<1>5. ASSUME NEW k \in T, k < m PROVE FALSE
  <2>1. Below(k) \subseteq Below(m) /\ Below(k) # Below(m) /\ Below(k) \in SUBSET Nat /\ Below(m) \in SUBSET Nat
    <3>1. k \in Below(m) /\ k \notin Below(k)
      BY <1>5
    <3> QED BY <3>1, <1>5
  <2>2. <<Below(k), x>> \in StrictSubsetOrdering(Nat)
    BY <2>1, <1>4 DEF StrictSubsetOrdering
  <2> QED BY <2>2, <1>3, <1>5
<1> QED BY <1>5, <1>4

Entries == [key : Keys, bytes : Nat, expires : Nat, made : Nat]

SumsTo(s, g) ==
    /\ g \in [0..Len(s) -> Nat]
    /\ g[0] = 0 /\ \A i \in 1..Len(s) : g[i] = g[i - 1] + s[i].bytes

\* The entries of a sequence.
LEMMA EntriesIn ==
  ASSUME NEW s \in Seq(Entries)
  PROVE  Len(s) \in Nat /\ DOMAIN s = 1..Len(s) /\ \A i \in 1..Len(s) : s[i] \in Entries /\ s[i].bytes \in Nat
<1>1. Len(s) \in Nat /\ DOMAIN s = 1..Len(s) /\ \A i \in 1..Len(s) : s[i] \in Entries
  OBVIOUS
<1>2. \A e \in Entries : e.bytes \in Nat
  BY DEF Entries
<1> QED BY <1>1, <1>2

\* Whatever is computed one step after the other is a function of the steps.
Steps(n, S) == [1..n -> [S -> S]]
Runs(g, n, S, b, step) == g \in [0..n -> S] /\ g[0] = b /\ \A i \in 1..n : g[i] = step[i][g[i - 1]]

LEMMA StepByStep ==
  ASSUME NEW n \in Nat, NEW S, NEW b \in S, NEW step \in Steps(n, S)
  PROVE  \E g : Runs(g, n, S, b, step)
<1> USE DEF Steps
<1> DEFINE Partly(k, g) == g \in [0..k -> S] /\ g[0] = b /\ \A i \in 1..k : g[i] = step[i][g[i - 1]]
           T == {k \in 0..n : ~ \E g : Partly(k, g)}
<1>1. T = {}
  <2> SUFFICES ASSUME NEW t \in T PROVE FALSE
    OBVIOUS
  <2>1. PICK m \in T : \A k \in T : m <= k
    <3>1. T \in SUBSET Nat
      OBVIOUS
    <3> HIDE DEF T
    <3> QED BY <3>1, Least
  <2>2. m # 0
    <3>1. Partly(0, [i \in 0..0 |-> b])
      OBVIOUS
    <3> QED BY <3>1
  <2>3. m \in 1..n /\ m - 1 \in 0..n /\ m - 1 \notin T
    <3>1. m \in 0..n
      OBVIOUS
    <3> HIDE DEF T
    <3> QED BY <3>1, <2>1, <2>2
  <2>4. PICK g : Partly(m - 1, g)
    BY <2>3
  <2> DEFINE h == [i \in 0..m |-> IF i = m THEN step[m][g[m - 1]] ELSE g[i]]
  <2>5. Partly(m, h)
    <3>1. m - 1 \in Nat /\ m \in Nat /\ step[m] \in [S -> S] /\ m - 1 \in 0..(m - 1)
      BY <2>3
    <3>2. g[m - 1] \in S /\ step[m][g[m - 1]] \in S
      BY <2>4, <3>1
    <3>3. \A i \in 0..m : i # m => h[i] = g[i] /\ i \in 0..(m - 1) /\ g[i] \in S
      BY <2>4, <3>1
    <3>4. h[m] = step[m][g[m - 1]]
      BY <3>1
    <3>5. h \in [0..m -> S]
      BY <3>1, <3>2, <3>3, <3>4
    <3>6. h[0] = b
      BY <3>1, <3>3, <2>3, <2>4
    <3>7. ASSUME NEW i \in 1..m PROVE h[i] = step[i][h[i - 1]]
      <4>1. h[i - 1] = g[i - 1]
        BY <3>1, <3>3
      <4>2. CASE i = m
        BY <4>1, <4>2, <3>4
      <4>3. CASE i # m
        <5>1. i \in 1..(m - 1)
          BY <4>3, <3>1
        <5> QED BY <4>1, <5>1, <2>4, <3>3, <4>3
      <4> QED BY <4>2, <4>3
    <3> HIDE DEF h
    <3> QED BY <3>5, <3>6, <3>7
  <2> QED BY <2>5
<1>2. PICK g : Partly(n, g)
  <2> HIDE DEF Partly
  <2>1. n \in 0..n
    OBVIOUS
  <2>2. n \notin T
    <3> HIDE DEF T
    <3> QED BY <1>1
  <2> QED BY <2>1, <2>2
<1> QED BY <1>2 DEF Runs

\* The sums of the first entries exist,
LEMMA SumsExist ==
  ASSUME NEW s \in Seq(Entries)
  PROVE  \E g : SumsTo(s, g)
<1> DEFINE step == [i \in 1..Len(s) |-> [x \in Nat |-> x + s[i].bytes]]
<1>1. Len(s) \in Nat /\ \A i \in 1..Len(s) : s[i].bytes \in Nat
  BY EntriesIn
<1>2. step \in Steps(Len(s), Nat)
  BY <1>1 DEF Steps
<1>3. PICK g : Runs(g, Len(s), Nat, 0, step)
  <2> HIDE DEF step
  <2>1. 0 \in Nat
    OBVIOUS
  <2> QED BY <1>1, <1>2, <2>1, StepByStep
<1>4. ASSUME NEW i \in 1..Len(s) PROVE g[i] = g[i - 1] + s[i].bytes
  <2>1. i - 1 \in 0..Len(s)
    BY <1>1
  <2>2. g[i - 1] \in Nat
    BY <2>1, <1>3 DEF Runs
  <2> QED BY <2>2, <1>3 DEF Runs
<1> QED BY <1>3, <1>4 DEF SumsTo, Runs

\* and they are what BytesOf chooses.
LEMMA SumsAreBytes ==
  ASSUME NEW s \in Seq(Entries)
  PROVE  SumsTo(s, BytesOf(s)) /\ \A g : SumsTo(s, g) => g = BytesOf(s)
<1> DEFINE Step(f) == [i \in 0..Len(s) |-> IF i = 0 THEN 0 ELSE f[i - 1] + s[i].bytes]
<1>0. Len(s) \in Nat /\ \A i \in 1..Len(s) : s[i].bytes \in Nat
  BY EntriesIn
<1>1. PICK g : SumsTo(s, g)
  BY SumsExist
<1>2. g = Step(g)
  <2>1. g = [i \in 0..Len(s) |-> g[i]]
    BY <1>1 DEF SumsTo
  <2>2. \A i \in 0..Len(s) : g[i] = IF i = 0 THEN 0 ELSE g[i - 1] + s[i].bytes
    BY <1>0, <1>1 DEF SumsTo
  <2> QED BY <2>1, <2>2
<1>3. BytesOf(s) = CHOOSE f : f = Step(f)
  BY DEF BytesOf
<1>4. BytesOf(s) = Step(BytesOf(s))
  <2> HIDE DEF Step
  <2> QED BY <1>2, <1>3, Zenon
<1>5. ASSUME NEW a, NEW b, a = Step(a), b = Step(b) PROVE a = b
  <2> DEFINE T == {k \in 0..Len(s) : a[k] # b[k]}
  <2>1. T = {}
    <3> SUFFICES ASSUME NEW n \in T PROVE FALSE
      OBVIOUS
    <3>1. PICK m \in T : \A k \in T : m <= k
      <4>1. T \in SUBSET Nat
        BY <1>0
      <4> HIDE DEF T
      <4> QED BY <4>1, Least
    <3>2. m # 0 /\ m \in 0..Len(s) /\ a[m] # b[m]
      <4>1. 0 \in 0..Len(s)
        BY <1>0
      <4> QED BY <1>5, <4>1
    <3>3. m - 1 \in 0..Len(s) /\ m - 1 \notin T
      <4> HIDE DEF T
      <4> QED BY <3>1, <3>2, <1>0
    <3>4. a[m - 1] = b[m - 1]
      BY <3>3
    <3> QED BY <3>2, <3>4, <1>5
  <2>2. \A k \in 0..Len(s) : a[k] = b[k]
    BY <2>1
  <2>3. a = [k \in 0..Len(s) |-> a[k]] /\ b = [k \in 0..Len(s) |-> b[k]]
    BY <1>5
  <2> QED BY <2>2, <2>3
<1>6. g = BytesOf(s)
  <2> HIDE DEF Step
  <2> QED BY <1>2, <1>4, <1>5
<1>7. ASSUME NEW f, SumsTo(s, f) PROVE f = BytesOf(s)
  <2>1. f = Step(f)
    <3>1. f = [i \in 0..Len(s) |-> f[i]]
      BY <1>7 DEF SumsTo
    <3>2. \A i \in 0..Len(s) : f[i] = IF i = 0 THEN 0 ELSE f[i - 1] + s[i].bytes
      BY <1>0, <1>7 DEF SumsTo
    <3> QED BY <3>1, <3>2
  <2> HIDE DEF Step
  <2> QED BY <2>1, <1>4, <1>5
<1> QED BY <1>1, <1>6, <1>7

\* All of the bytes are the last sum.
LEMMA BytesEnd ==
  ASSUME NEW s \in Seq(Entries), NEW g, SumsTo(s, g)
  PROVE  Bytes(s) = g[Len(s)] /\ BytesOf(s) = g /\ Bytes(s) \in Nat
<1>1. g = BytesOf(s) /\ Len(s) \in 0..Len(s)
  BY SumsAreBytes, EntriesIn
<1> QED BY <1>1 DEF Bytes, SumsTo

\* No sum is less than one before it.
LEMMA SumsGrow ==
  ASSUME NEW s \in Seq(Entries), NEW g, SumsTo(s, g), NEW i \in 0..Len(s), NEW j \in 0..Len(s), i <= j
  PROVE  g[i] <= g[j]
<1> DEFINE T == {k \in i..Len(s) : ~(g[i] <= g[k])}
<1>0. Len(s) \in Nat /\ (\A k \in 1..Len(s) : s[k].bytes \in Nat) /\ \A k \in 0..Len(s) : g[k] \in Nat
  BY EntriesIn DEF SumsTo
<1>1. T = {}
  <2> SUFFICES ASSUME NEW t \in T PROVE FALSE
    OBVIOUS
  <2>1. PICK m \in T : \A k \in T : m <= k
    <3>1. T \in SUBSET Nat
      BY <1>0
    <3> HIDE DEF T
    <3> QED BY <3>1, Least
  <2>2. m \in i..Len(s) /\ ~(g[i] <= g[m]) /\ m # i
    BY <1>0
  <2>3. m - 1 \in i..Len(s) /\ m \in 1..Len(s) /\ m - 1 \notin T
    <3> HIDE DEF T
    <3> QED BY <2>1, <2>2, <1>0
  <2>4. g[i] <= g[m - 1]
    BY <2>3
  <2>5. g[m] = g[m - 1] + s[m].bytes
    BY <2>3 DEF SumsTo
  <2>6. g[m - 1] \in Nat /\ g[i] \in Nat /\ s[m].bytes \in Nat
    BY <2>3, <1>0
  <2> QED BY <2>2, <2>4, <2>5, <2>6
<1>2. j \in i..Len(s)
  BY <1>0
<1> QED BY <1>1, <1>2

\* An entry more.
LEMMA BytesAppend ==
  ASSUME NEW s \in Seq(Entries), NEW e \in Entries
  PROVE  Append(s, e) \in Seq(Entries) /\ Bytes(Append(s, e)) = Bytes(s) + e.bytes
<1> DEFINE n == Len(s)
           t == Append(s, e)
           g == BytesOf(s)
           h == [i \in 0..(n + 1) |-> IF i = n + 1 THEN g[n] + e.bytes ELSE g[i]]
<1>1. n \in Nat /\ t \in Seq(Entries) /\ Len(t) = n + 1 /\ t[n + 1] = e /\ \A i \in 1..n : t[i] = s[i]
  OBVIOUS
<1>2. e.bytes \in Nat
  BY DEF Entries
<1>3. SumsTo(s, g) /\ Bytes(s) = g[n]
  BY SumsAreBytes, BytesEnd
<1> HIDE DEF n, t, g
<1>4. (\A i \in 0..n : g[i] \in Nat) /\ g[0] = 0 /\ \A i \in 1..n : g[i] = g[i - 1] + s[i].bytes
  BY <1>3 DEF SumsTo, n
<1>5. SumsTo(t, h)
  <2>1. h \in [0..(n + 1) -> Nat] /\ h[0] = 0
    BY <1>1, <1>2, <1>4
  <2>2. ASSUME NEW i \in 1..(n + 1) PROVE h[i] = h[i - 1] + t[i].bytes
    <3>1. CASE i = n + 1
      BY <3>1, <1>1
    <3>2. CASE i # n + 1
      BY <3>2, <1>1, <1>4
    <3> QED BY <3>1, <3>2
  <2> QED BY <2>1, <2>2, <1>1 DEF SumsTo
<1>6. Bytes(t) = h[n + 1]
  BY <1>1, <1>5, BytesEnd
<1> QED BY <1>1, <1>3, <1>6 DEF t

\* An entry less.
LEMMA RemovedIs ==
  ASSUME NEW S, NEW s \in Seq(S), NEW p \in 1..Len(s)
  PROVE  LET t == RemoveAt(s, p) IN
         /\ t \in Seq(S) /\ Len(t) = Len(s) - 1
         /\ \A i \in 1..Len(t) : t[i] = IF i < p THEN s[i] ELSE s[i + 1]
<1> DEFINE a == SubSeq(s, 1, p - 1)
           b == SubSeq(s, p + 1, Len(s))
<1>1. Len(s) \in Nat /\ p \in Nat /\ p <= Len(s) /\ 1 <= p
  OBVIOUS
<1>2. a \in Seq(S) /\ Len(a) = p - 1 /\ \A i \in 1..(p - 1) : a[i] = s[i]
  BY <1>1
<1>3. b \in Seq(S) /\ Len(b) = Len(s) - p /\ \A i \in 1..(Len(s) - p) : b[i] = s[p + i]
  <2>1. CASE p = Len(s)
    BY <1>1, <2>1
  <2>2. CASE p < Len(s)
    BY <1>1, <2>2
  <2> QED BY <1>1, <2>1, <2>2
<1>4. RemoveAt(s, p) = a \o b
  BY DEF RemoveAt
<1> HIDE DEF a, b
<1>5. a \o b \in Seq(S) /\ Len(a \o b) = Len(s) - 1
  <2>1. a \o b \in Seq(S) /\ Len(a \o b) = Len(a) + Len(b)
    <3>1. a \in Seq(S) /\ b \in Seq(S)
      BY <1>2, <1>3
    <3> QED BY <3>1
  <2>2. Len(a) = p - 1 /\ Len(b) = Len(s) - p
    BY <1>2, <1>3
  <2> QED BY <1>1, <2>1, <2>2
<1>6. ASSUME NEW i \in 1..(Len(s) - 1) PROVE (a \o b)[i] = IF i < p THEN s[i] ELSE s[i + 1]
  <2>1. CASE i < p
    BY <2>1, <1>1, <1>2, <1>3
  <2>2. CASE ~(i < p)
    <3>1. (a \o b)[i] = b[i - (p - 1)] /\ i - (p - 1) \in 1..(Len(s) - p) /\ p + (i - (p - 1)) = i + 1
      BY <2>2, <1>1, <1>2, <1>3
    <3> QED BY <3>1, <2>2, <1>3
  <2> QED BY <2>1, <2>2
<1> QED BY <1>4, <1>5, <1>6

\* The bytes of an entry less.
LEMMA BytesRemoved ==
  ASSUME NEW s \in Seq(Entries), NEW p \in 1..Len(s)
  PROVE  /\ RemoveAt(s, p) \in Seq(Entries) /\ s[p].bytes <= Bytes(s)
         /\ Bytes(RemoveAt(s, p)) = Bytes(s) - s[p].bytes
<1> DEFINE n == Len(s)
           t == RemoveAt(s, p)
           g == BytesOf(s)
           h == [i \in 0..(n - 1) |-> IF i < p THEN g[i] ELSE g[i + 1] - s[p].bytes]
<1>1. /\ t \in Seq(Entries) /\ Len(t) = n - 1
      /\ \A i \in 1..(n - 1) : t[i] = IF i < p THEN s[i] ELSE s[i + 1]
  BY RemovedIs
<1>2. n \in Nat /\ p \in 1..n /\ \A i \in 1..n : s[i].bytes \in Nat
  BY EntriesIn
<1>3. SumsTo(s, g) /\ Bytes(s) = g[n]
  BY SumsAreBytes, BytesEnd
<1> HIDE DEF n, t, g
<1>4. (\A i \in 0..n : g[i] \in Nat) /\ g[0] = 0 /\ \A i \in 1..n : g[i] = g[i - 1] + s[i].bytes
  BY <1>3 DEF SumsTo, n
<1>5. \A i \in p..n : s[p].bytes <= g[i]
  <2> TAKE i \in p..n
  <2>1. g[p] <= g[i]
    <3>1. p \in 0..n /\ i \in 0..n /\ p <= i
      BY <1>2
    <3> QED BY <3>1, <1>3, SumsGrow DEF n
  <2>2. g[p] = g[p - 1] + s[p].bytes /\ g[p - 1] \in Nat /\ g[i] \in Nat /\ s[p].bytes \in Nat
    BY <1>2, <1>4
  <2> QED BY <2>1, <2>2
<1>6. SumsTo(t, h)
  <2>1. ASSUME NEW i \in 0..(n - 1) PROVE h[i] \in Nat
    <3>1. CASE i < p
      BY <3>1, <1>2, <1>4
    <3>2. CASE ~(i < p)
      <4>1. i + 1 \in p..n /\ i + 1 \in 0..n
        BY <3>2, <1>2
      <4> QED BY <4>1, <3>2, <1>2, <1>4, <1>5
    <3> QED BY <3>1, <3>2
  <2>2. h[0] = 0
    BY <1>2, <1>4
  <2>3. ASSUME NEW i \in 1..(n - 1) PROVE h[i] = h[i - 1] + t[i].bytes
    <3>0. i \in 1..n /\ i + 1 \in 1..n /\ i - 1 \in 0..(n - 1) /\ i \in 0..(n - 1)
      BY <1>2
    <3>1. CASE i < p
      BY <3>0, <3>1, <1>1, <1>2, <1>4
    <3>2. CASE i = p
      <4>1. h[i] = g[p + 1] - s[p].bytes /\ h[i - 1] = g[p - 1] /\ t[i] = s[p + 1]
        BY <3>0, <3>2, <1>1, <1>2
      <4>2. g[p + 1] = g[p] + s[p + 1].bytes /\ g[p] = g[p - 1] + s[p].bytes
        BY <3>0, <3>2, <1>2, <1>4
      <4>3. g[p - 1] \in Nat /\ s[p].bytes \in Nat /\ s[p + 1].bytes \in Nat
        BY <3>0, <3>2, <1>2, <1>4
      <4> QED BY <4>1, <4>2, <4>3
    <3>3. CASE i > p
      <4>1. h[i] = g[i + 1] - s[p].bytes /\ h[i - 1] = g[i] - s[p].bytes /\ t[i] = s[i + 1]
        BY <3>0, <3>3, <1>1, <1>2
      <4>2. g[i + 1] = g[i] + s[i + 1].bytes
        <5>1. (i + 1) - 1 = i
          BY <3>0
        <5> QED BY <3>0, <1>4, <5>1
      <4>3. g[i] \in Nat /\ s[p].bytes \in Nat /\ s[i + 1].bytes \in Nat
        <5>1. i \in 0..n
          BY <3>0, <1>2
        <5> QED BY <3>0, <1>2, <1>4, <5>1
      <4> QED BY <4>1, <4>2, <4>3
    <3> QED BY <3>1, <3>2, <3>3, <1>2
  <2> HIDE DEF h
  <2>4. h \in [0..(n - 1) -> Nat]
    <3>1. h = [i \in 0..(n - 1) |-> h[i]]
      BY DEF h
    <3> QED BY <3>1, <2>1
  <2> QED BY <2>2, <2>3, <2>4, <1>1 DEF SumsTo
<1>7. Bytes(t) = h[n - 1]
  <2> HIDE DEF h
  <2> QED BY <1>1, <1>6, BytesEnd
<1>8. h[n - 1] = g[n] - s[p].bytes /\ s[p].bytes <= g[n]
  <2>1. CASE p = n
    BY <2>1, <1>2, <1>4, <1>5
  <2>2. CASE p # n
    BY <2>2, <1>2, <1>4, <1>5
  <2> QED BY <2>1, <2>2
<1> QED BY <1>1, <1>3, <1>7, <1>8 DEF t

\* The bytes when the first entries are gone.
LEMMA BytesLeft ==
  ASSUME NEW s \in Seq(Entries), NEW k \in 0..Len(s)
  PROVE  LET t == SubSeq(s, k + 1, Len(s)) IN
         /\ t \in Seq(Entries) /\ Len(t) = Len(s) - k /\ \A i \in 1..Len(t) : t[i] = s[k + i]
         /\ BytesOf(s)[k] \in Nat /\ BytesOf(s)[k] <= Bytes(s) /\ Bytes(t) = Bytes(s) - BytesOf(s)[k]
<1> DEFINE n == Len(s)
           t == SubSeq(s, k + 1, Len(s))
           g == BytesOf(s)
           h == [i \in 0..(n - k) |-> g[k + i] - g[k]]
<1>1. /\ n \in Nat /\ k \in 0..n /\ t \in Seq(Entries) /\ Len(t) = n - k
      /\ \A i \in 1..(n - k) : t[i] = s[k + i]
  <2>1. Len(s) \in Nat
    OBVIOUS
  <2>2. CASE k = Len(s)
    BY <2>1, <2>2
  <2>3. CASE k # Len(s)
    BY <2>1, <2>3
  <2> QED BY <2>2, <2>3
<1>2. \A i \in 1..n : s[i].bytes \in Nat
  BY EntriesIn
<1>3. SumsTo(s, g) /\ Bytes(s) = g[n]
  BY SumsAreBytes, BytesEnd
<1> HIDE DEF n, t, g
<1>4. (\A i \in 0..n : g[i] \in Nat) /\ g[0] = 0 /\ \A i \in 1..n : g[i] = g[i - 1] + s[i].bytes
  BY <1>3 DEF SumsTo, n
<1>5. \A i \in k..n : g[k] <= g[i]
  <2> TAKE i \in k..n
  <2>1. k \in 0..n /\ i \in 0..n /\ k <= i
    BY <1>1
  <2> QED BY <2>1, <1>3, SumsGrow DEF n
<1>6. SumsTo(t, h)
  <2>1. ASSUME NEW i \in 0..(n - k) PROVE h[i] \in Nat
    <3>1. k + i \in k..n /\ k + i \in 0..n /\ k \in 0..n
      BY <1>1
    <3> QED BY <3>1, <1>4, <1>5
  <2>2. h[0] = 0
    BY <1>1, <1>4
  <2>3. ASSUME NEW i \in 1..(n - k) PROVE h[i] = h[i - 1] + t[i].bytes
    <3>1. k + i \in 1..n /\ i - 1 \in 0..(n - k) /\ i \in 0..(n - k) /\ k + (i - 1) \in 0..n /\ (k + i) - 1 = k + (i - 1)
      BY <1>1
    <3>2. g[k + i] = g[k + (i - 1)] + s[k + i].bytes
      BY <3>1, <1>4
    <3>3. g[k] \in Nat /\ g[k + (i - 1)] \in Nat /\ s[k + i].bytes \in Nat
      BY <3>1, <1>1, <1>2, <1>4
    <3>4. h[i] = g[k + i] - g[k] /\ h[i - 1] = g[k + (i - 1)] - g[k] /\ t[i] = s[k + i]
      BY <3>1, <1>1
    <3> HIDE DEF h
    <3> QED BY <3>2, <3>3, <3>4
  <2> HIDE DEF h
  <2>4. h \in [0..(n - k) -> Nat]
    <3>1. h = [i \in 0..(n - k) |-> h[i]]
      BY DEF h
    <3> QED BY <3>1, <2>1
  <2> QED BY <2>2, <2>3, <2>4, <1>1 DEF SumsTo
<1>7. Bytes(t) = h[n - k]
  <2> HIDE DEF h
  <2> QED BY <1>1, <1>6, BytesEnd
<1>8. h[n - k] = g[n] - g[k] /\ g[k] <= g[n] /\ g[k] \in Nat
  BY <1>1, <1>4, <1>5
<1> QED BY <1>1, <1>3, <1>7, <1>8 DEF t, n, g

-----------------------------------------------------------------------------
\* The steps of set.
Counts == [kept : Seq(Entries), bytes : Nat]
IsTrue(c) == c \in Counts /\ c.bytes = Bytes(c.kept)

LEMMA CountedIs ==
  ASSUME NEW s \in Seq(Entries), NEW n \in Nat
  PROVE  Counted(s, n) \in Counts /\ Counted(s, n).kept = s /\ Counted(s, n).bytes = n
BY DEF Counted, Counts

LEMMA LessIs ==
  ASSUME NEW a \in Nat, NEW b \in Nat
  PROVE  AtLeastZero(a, b) \in Nat /\ (a >= b => AtLeastZero(a, b) = a - b)
BY DEF AtLeastZero

LEMMA BytesNone == Bytes(<<>>) = 0 /\ <<>> \in Seq(Entries)
<1>1. <<>> \in Seq(Entries) /\ Len(<<>>) = 0
  OBVIOUS
<1>2. SumsTo(<<>>, [i \in 0..0 |-> 0])
  BY <1>1 DEF SumsTo
<1> QED BY <1>1, <1>2, BytesEnd

LEMMA LookedIs ==
  ASSUME NEW c \in Counts, NEW e \in Entries
  PROVE  Looked(c, e) \in Counts
<1>1. c.kept \in Seq(Entries) /\ c.bytes \in Nat /\ e.bytes \in Nat
  BY DEF Counts, Entries
<1>2. Append(c.kept, e) \in Seq(Entries)
  BY <1>1
<1> QED BY <1>1, <1>2, CountedIs, LessIs DEF Looked

\* The sweep of set takes one entry after the other.
LEMMA SweepIs ==
  ASSUME NEW c \in Counts
  PROVE  /\ Sweep(c) \in [0..Len(c.kept) -> Counts] /\ Sweep(c)[0] = Counted(<<>>, c.bytes)
         /\ \A i \in 1..Len(c.kept) : Sweep(c)[i] = Looked(Sweep(c)[i - 1], c.kept[i])
<1> DEFINE n == Len(c.kept)
           step == [i \in 1..n |-> [x \in Counts |-> Looked(x, c.kept[i])]]
           Loop(f) == [i \in 0..n |-> IF i = 0 THEN Counted(<<>>, c.bytes) ELSE Looked(f[i - 1], c.kept[i])]
<1>1. c.kept \in Seq(Entries) /\ c.bytes \in Nat
  BY DEF Counts
<1>2. n \in Nat /\ \A i \in 1..n : c.kept[i] \in Entries
  BY <1>1, EntriesIn
<1>3. Counted(<<>>, c.bytes) \in Counts
  BY <1>1, BytesNone, CountedIs
<1>4. step \in Steps(n, Counts)
  <2>1. \A i \in 1..n : [x \in Counts |-> Looked(x, c.kept[i])] \in [Counts -> Counts]
    BY <1>2, LookedIs
  <2> QED BY <2>1 DEF Steps
<1>5. PICK g : Runs(g, n, Counts, Counted(<<>>, c.bytes), step)
  <2> HIDE DEF step, n
  <2> QED BY <1>2, <1>3, <1>4, StepByStep
<1>6. /\ g \in [0..n -> Counts] /\ g[0] = Counted(<<>>, c.bytes)
      /\ \A i \in 1..n : g[i] = Looked(g[i - 1], c.kept[i])
  <2>1. g \in [0..n -> Counts] /\ g[0] = Counted(<<>>, c.bytes) /\ \A i \in 1..n : g[i] = step[i][g[i - 1]]
    <3> HIDE DEF n, step
    <3> QED BY <1>5 DEF Runs
  <2>2. \A i \in 1..n : g[i - 1] \in Counts
    BY <2>1, <1>2
  <2>3. ASSUME NEW i \in 1..n PROVE step[i][g[i - 1]] = Looked(g[i - 1], c.kept[i])
    BY <2>2
  <2> QED BY <2>1, <2>3
<1>7. g = Loop(g)
  <2>1. g = [i \in 0..n |-> g[i]]
    BY <1>6
  <2>2. \A i \in 0..n : g[i] = IF i = 0 THEN Counted(<<>>, c.bytes) ELSE Looked(g[i - 1], c.kept[i])
    BY <1>2, <1>6
  <2> QED BY <2>1, <2>2
<1>8. Sweep(c) = CHOOSE f : f = Loop(f)
  BY DEF Sweep
<1>9. Sweep(c) = Loop(Sweep(c))
  <2> HIDE DEF Loop
  <2> QED BY <1>7, <1>8, Zenon
<1>10. ASSUME NEW a, NEW b, a = Loop(a), b = Loop(b) PROVE a = b
  <2> DEFINE T == {k \in 0..n : a[k] # b[k]}
  <2>1. T = {}
    <3> SUFFICES ASSUME NEW t \in T PROVE FALSE
      OBVIOUS
    <3>1. PICK m \in T : \A k \in T : m <= k
      <4>1. T \in SUBSET Nat
        BY <1>2
      <4> HIDE DEF T
      <4> QED BY <4>1, Least
    <3>2. m # 0 /\ m \in 0..n /\ a[m] # b[m]
      <4>1. 0 \in 0..n
        BY <1>2
      <4> QED BY <1>10, <4>1
    <3>3. m - 1 \in 0..n /\ m - 1 \notin T
      <4> HIDE DEF T
      <4> QED BY <3>1, <3>2, <1>2
    <3>4. a[m - 1] = b[m - 1]
      BY <3>3
    <3>5. a[m] = Looked(a[m - 1], c.kept[m]) /\ b[m] = Looked(b[m - 1], c.kept[m])
      BY <3>2, <1>10
    <3> QED BY <3>2, <3>4, <3>5
  <2>2. \A k \in 0..n : a[k] = b[k]
    BY <2>1
  <2>3. a = [k \in 0..n |-> a[k]] /\ b = [k \in 0..n |-> b[k]]
    BY <1>10
  <2> QED BY <2>2, <2>3
<1>11. g = Sweep(c)
  <2> HIDE DEF Loop
  <2> QED BY <1>7, <1>9, <1>10
<1> QED BY <1>6, <1>11

\* The sweep leaves count and contents in agreement.
LEMMA SweepCounts ==
  ASSUME NEW c, IsTrue(c), OneEach(c.kept)
  PROVE  /\ IsTrue(Swept(c)) /\ OneEach(Swept(c).kept)
         /\ \A j \in 1..Len(Swept(c).kept) : \E k \in 1..Len(c.kept) : Swept(c).kept[j] = c.kept[k]
<1> DEFINE s == c.kept
           n == Len(s)
           g == BytesOf(s)
           w == Sweep(c)
           Good(i) == /\ w[i].bytes = Bytes(w[i].kept) + (Bytes(s) - g[i])
                      /\ OneEach(w[i].kept)
                      /\ \A j \in 1..Len(w[i].kept) : \E k \in 1..i : w[i].kept[j] = s[k]
           T == {i \in 0..n : ~Good(i)}
<1>1. c \in Counts /\ s \in Seq(Entries) /\ c.bytes = Bytes(s)
  BY DEF IsTrue, Counts
<1>2. n \in Nat /\ DOMAIN s = 1..n /\ \A i \in 1..n : s[i] \in Entries /\ s[i].bytes \in Nat
  BY <1>1, EntriesIn
<1>3. w \in [0..n -> Counts] /\ w[0] = Counted(<<>>, c.bytes) /\ \A i \in 1..n : w[i] = Looked(w[i - 1], s[i])
  BY <1>1, SweepIs
<1>4. SumsTo(s, g) /\ Bytes(s) = g[n] /\ Bytes(s) \in Nat
  BY <1>1, SumsAreBytes, BytesEnd
<1>5. (\A i \in 0..n : g[i] \in Nat /\ g[i] <= Bytes(s)) /\ g[0] = 0 /\ \A i \in 1..n : g[i] = g[i - 1] + s[i].bytes
  <2>1. \A i \in 0..n : g[i] <= g[n]
    BY <1>1, <1>2, <1>4, SumsGrow
  <2> HIDE DEF g, s
  <2> QED BY <2>1, <1>4 DEF SumsTo
<1>6. \A i, j \in 1..n : s[i].key = s[j].key => i = j
  BY <1>2 DEF OneEach
<1> HIDE DEF g, w, s, n
<1>7. Good(0)
  <2>1. w[0].kept = <<>> /\ w[0].bytes = Bytes(s)
    <3>1. c.bytes \in Nat /\ c.bytes = Bytes(s)
      BY <1>1, <1>4
    <3>2. Counted(<<>>, c.bytes).kept = <<>> /\ Counted(<<>>, c.bytes).bytes = c.bytes
      BY <3>1, BytesNone, CountedIs
    <3> QED BY <1>3, <3>1, <3>2
  <2> QED BY <2>1, <1>4, <1>5, BytesNone DEF OneEach
<1>8. ASSUME NEW i \in 1..n, Good(i - 1) PROVE Good(i)
  <2> DEFINE v == w[i - 1]
             e == s[i]
  <2>0. v \in Counts /\ v.kept \in Seq(Entries) /\ v.bytes \in Nat /\ e \in Entries /\ e.bytes \in Nat /\ i \in Nat /\ i - 1 \in 0..n
    BY <1>2, <1>3 DEF Counts
  <2>1. w[i] = Looked(v, e)
    BY <1>3
  <2>2. g[i] = g[i - 1] + e.bytes /\ g[i] \in Nat /\ g[i - 1] \in Nat /\ g[i] <= Bytes(s) /\ Bytes(s) \in Nat
    BY <1>2, <1>4, <1>5, <2>0
  <2>3. Bytes(v.kept) \in Nat /\ v.bytes = Bytes(v.kept) + (Bytes(s) - g[i - 1])
    BY <1>8, <2>0, SumsAreBytes, BytesEnd
  <2>4. DOMAIN v.kept = 1..Len(v.kept) /\ Len(v.kept) \in Nat
    BY <2>0
  <2>5. OneEach(v.kept) /\ \A j \in 1..Len(v.kept) : \E k \in 1..(i - 1) : v.kept[j] = s[k]
    BY <1>8
  <2>6. 1..(i - 1) \subseteq 1..i /\ i \in 1..i /\ 1..i \subseteq 1..n /\ i \notin 1..(i - 1)
    BY <1>2, <2>0
  <2> HIDE DEF v, e
  <2>7. CASE now > e.expires
    <3>1. w[i] = Counted(v.kept, AtLeastZero(v.bytes, e.bytes))
      BY <2>1, <2>7 DEF Looked
    <3>2. v.bytes >= e.bytes /\ v.bytes - e.bytes = Bytes(v.kept) + (Bytes(s) - g[i])
      BY <2>0, <2>2, <2>3
    <3>3. w[i].kept = v.kept /\ w[i].bytes = Bytes(v.kept) + (Bytes(s) - g[i])
      BY <2>0, <3>1, <3>2, LessIs, CountedIs
    <3>4. \A j \in 1..Len(v.kept) : \E k \in 1..i : v.kept[j] = s[k]
      BY <2>5, <2>6
    <3> QED BY <2>5, <3>3, <3>4
  <2>8. CASE ~(now > e.expires)
    <3> DEFINE t == Append(v.kept, e)
    <3>1. w[i] = Counted(t, v.bytes)
      BY <2>1, <2>8 DEF Looked
    <3>2. t \in Seq(Entries) /\ Bytes(t) = Bytes(v.kept) + e.bytes
      BY <2>0, BytesAppend
    <3>3. /\ Len(t) = Len(v.kept) + 1 /\ DOMAIN t = 1..(Len(v.kept) + 1) /\ t[Len(v.kept) + 1] = e
          /\ \A j \in 1..Len(v.kept) : t[j] = v.kept[j]
      BY <2>0, <2>4
    <3> HIDE DEF t
    <3>4. w[i].kept = t /\ w[i].bytes = v.bytes
      BY <2>0, <3>1, <3>2, CountedIs
    <3>5. w[i].bytes = Bytes(t) + (Bytes(s) - g[i])
      BY <2>0, <2>2, <2>3, <3>2, <3>4
    <3>6. \A j \in 1..Len(v.kept) : v.kept[j].key # e.key
      <4> TAKE j \in 1..Len(v.kept)
      <4>1. PICK k \in 1..(i - 1) : v.kept[j] = s[k]
        BY <2>5
      <4>2. k \in 1..n /\ k # i /\ i \in 1..n
        BY <2>6
      <4> QED BY <4>1, <4>2, <1>6 DEF e
    <3>7. OneEach(t)
      <4>1. \A j, k \in 1..Len(v.kept) : v.kept[j].key = v.kept[k].key => j = k
        BY <2>4, <2>5 DEF OneEach
      <4> SUFFICES ASSUME NEW j \in 1..(Len(v.kept) + 1), NEW k \in 1..(Len(v.kept) + 1), t[j].key = t[k].key PROVE j = k
        BY <3>3 DEF OneEach
      <4>2. \A a \in 1..(Len(v.kept) + 1) : a \in 1..Len(v.kept) \/ a = Len(v.kept) + 1
        BY <2>4
      <4> QED BY <3>3, <3>6, <4>1, <4>2
    <3>8. \A j \in 1..Len(t) : \E k \in 1..i : t[j] = s[k]
      <4> TAKE j \in 1..Len(t)
      <4>1. CASE j \in 1..Len(v.kept)
        BY <4>1, <2>5, <2>6, <3>3
      <4>2. CASE j = Len(v.kept) + 1
        BY <4>2, <2>6, <3>3 DEF e
      <4> QED BY <4>1, <4>2, <3>3, <2>4
    <3> QED BY <3>4, <3>5, <3>7, <3>8
  <2> QED BY <2>7, <2>8
<1>9. T = {}
  <2> SUFFICES ASSUME NEW t \in T PROVE FALSE
    OBVIOUS
  <2>1. PICK m \in T : \A k \in T : m <= k
    <3>1. T \in SUBSET Nat
      BY <1>2
    <3> HIDE DEF T
    <3> QED BY <3>1, Least
  <2>2. m \in 0..n /\ ~Good(m)
    OBVIOUS
  <2>3. m # 0
    <3> HIDE DEF Good
    <3> QED BY <2>2, <1>7
  <2>4. m \in 1..n /\ m - 1 \in 0..n /\ m - 1 \notin T
    <3> HIDE DEF T
    <3> QED BY <2>1, <2>2, <2>3, <1>2
  <2>5. Good(m - 1)
    <3> HIDE DEF Good
    <3> QED BY <2>4
  <2> HIDE DEF Good
  <2> QED BY <2>2, <2>4, <2>5, <1>8
<1>10. Good(n)
  <2>1. n \in 0..n
    BY <1>2
  <2> HIDE DEF Good
  <2> QED BY <2>1, <1>9
<1>11. Swept(c) = w[n] /\ w[n] \in Counts /\ w[n].kept \in Seq(Entries)
  BY <1>2, <1>3 DEF Swept, w, n, s, Counts
<1>12. w[n].bytes = Bytes(w[n].kept)
  <2>1. Bytes(w[n].kept) \in Nat
    BY <1>11, SumsAreBytes, BytesEnd
  <2> QED BY <1>10, <1>4, <2>1
<1> QED BY <1>10, <1>11, <1>12 DEF IsTrue, n, s

\* Eviction ends with room for n bytes, and in agreement.
LEMMA EvictedCounts ==
  ASSUME NEW c, IsTrue(c), OneEach(c.kept), NEW n \in Nat, n <= MaxBytes
  PROVE  /\ IsTrue(Evicted(c, n)) /\ OneEach(Evicted(c, n).kept) /\ Evicted(c, n).bytes + n <= MaxBytes
         /\ \A j \in 1..Len(Evicted(c, n).kept) : \E k \in 1..Len(c.kept) : Evicted(c, n).kept[j] = c.kept[k]
<1> DEFINE s == c.kept
           t(i) == SubSeq(s, i + 1, Len(s))
           e == Evicted(c, n)
<1>1. c \in Counts /\ s \in Seq(Entries) /\ c.bytes = Bytes(s) /\ c.bytes \in Nat
  BY DEF IsTrue, Counts
<1>2. Len(s) \in Nat /\ DOMAIN s = 1..Len(s)
  BY <1>1
<1>3. MaxBytes \in Nat
  BY CacheAssumption
<1>4. \A i \in 0..Len(s) : /\ t(i) \in Seq(Entries) /\ Len(t(i)) = Len(s) - i /\ \A j \in 1..Len(t(i)) : t(i)[j] = s[i + j]
                           /\ Left(c, i) \in Nat /\ Left(c, i) = Bytes(t(i))
  <2> TAKE i \in 0..Len(s)
  <2>1. /\ t(i) \in Seq(Entries) /\ Len(t(i)) = Len(s) - i /\ \A j \in 1..Len(t(i)) : t(i)[j] = s[i + j]
        /\ BytesOf(s)[i] \in Nat /\ BytesOf(s)[i] <= Bytes(s) /\ Bytes(t(i)) = Bytes(s) - BytesOf(s)[i]
    BY <1>1, BytesLeft
  <2>2. Left(c, i) = c.bytes - BytesOf(s)[i] /\ Left(c, i) \in Nat
    BY <1>1, <2>1, LessIs DEF Left
  <2> QED BY <1>1, <2>1, <2>2
<1>5. PICK i \in Fits(c, n) : i = (CHOOSE j \in Fits(c, n) : \A k \in Fits(c, n) : j <= k)
  <2>1. Fits(c, n) \in SUBSET Nat /\ Len(s) \in Fits(c, n)
    BY <1>2 DEF Fits
  <2>2. \E j \in Fits(c, n) : \A k \in Fits(c, n) : j <= k
    BY <2>1, Least
  <2> QED BY <2>2
<1>6. i \in 0..Len(s) /\ (i = Len(s) \/ Left(c, i) + n <= MaxBytes)
  BY <1>5 DEF Fits
<1> DEFINE r == t(i)
<1>7. /\ r \in Seq(Entries) /\ Len(r) = Len(s) - i /\ \A j \in 1..Len(r) : r[j] = s[i + j]
      /\ Left(c, i) \in Nat /\ Left(c, i) = Bytes(r)
  BY <1>4, <1>6
<1>8. e = Counted(r, Left(c, i))
  BY <1>5 DEF Evicted
<1> HIDE DEF r, e, s
<1>9. e \in Counts /\ e.kept = r /\ e.bytes = Left(c, i)
  BY <1>7, <1>8, CountedIs
<1>10. Left(c, i) + n <= MaxBytes
  <2>1. CASE i = Len(s)
    <3>1. r \in Seq(Entries) /\ Len(r) = 0
      BY <1>2, <1>7, <2>1
    <3>2. r = <<>>
      BY <3>1
    <3>3. Left(c, i) = 0
      BY <1>7, <3>2, BytesNone
    <3> QED BY <3>3, <1>3
  <2> QED BY <1>6, <2>1
<1>11. i \in Nat /\ i <= Len(s) /\ DOMAIN r = 1..Len(r) /\ \A a \in 1..Len(r) : a \in Nat /\ i + a \in 1..Len(s)
  <2>1. i \in Nat /\ i <= Len(s)
    <3>1. i \in 0..Len(s)
      BY <1>6
    <3> HIDE <1>5
    <3> QED BY <1>2, <3>1
  <2>2. r \in Seq(Entries) /\ Len(r) = Len(s) - i
    BY <1>7
  <2>3. DOMAIN r = 1..Len(r)
    BY <2>2
  <2>4. \A a \in 1..Len(r) : a \in Nat /\ i + a \in 1..Len(s)
    BY <1>2, <2>1, <2>2
  <2> QED BY <2>1, <2>3, <2>4
<1>12. OneEach(r)
  <2>1. \A a, b \in 1..Len(s) : s[a].key = s[b].key => a = b
    BY <1>2 DEF OneEach, s
  <2>2. ASSUME NEW a \in 1..Len(r), NEW b \in 1..Len(r), r[a].key = r[b].key PROVE a = b
    <3>1. i + a = i + b
      BY <2>1, <2>2, <1>7, <1>11
    <3> QED BY <3>1, <1>11
  <2> QED BY <2>2, <1>11 DEF OneEach
<1>13. \A j \in 1..Len(r) : \E k \in 1..Len(s) : r[j] = s[k]
  BY <1>7, <1>11
<1>14. IsTrue(e)
  BY <1>7, <1>9 DEF IsTrue
<1> QED BY <1>9, <1>10, <1>12, <1>13, <1>14 DEF e, s

\* An entry of either cache that goes.
LEMMA WithoutIs ==
  ASSUME NEW S, NEW s \in Seq(S), OneEach(s), NEW k
  PROVE  LET t == Without(s, k) IN
         /\ t \in Seq(S) /\ Len(t) <= Len(s) /\ OneEach(t) /\ ~Has(t, k)
         /\ \A j \in 1..Len(t) : \E i \in 1..Len(s) : t[j] = s[i]
         /\ Has(s, k) => Len(t) = Len(s) - 1 /\ PlaceOf(s, k) \in 1..Len(s) /\ EntryOf(s, k) = s[PlaceOf(s, k)] /\ EntryOf(s, k).key = k
<1> DEFINE t == Without(s, k)
           p == PlaceOf(s, k)
<1>1. Len(s) \in Nat /\ DOMAIN s = 1..Len(s) /\ \A a, b \in 1..Len(s) : s[a].key = s[b].key => a = b
  BY DEF OneEach
<1>2. CASE ~Has(s, k)
  <2>1. t = s
    BY <1>2 DEF Without
  <2>2. t \in Seq(S) /\ Len(t) <= Len(s) /\ OneEach(t) /\ ~Has(t, k) /\ \A j \in 1..Len(t) : t[j] = s[j]
    <3> HIDE DEF t
    <3> QED BY <1>1, <1>2, <2>1
  <2>3. \A j \in 1..Len(t) : \E i \in 1..Len(s) : t[j] = s[i]
    <3> HIDE DEF t
    <3> QED BY <2>1, <2>2
  <2> HIDE DEF t
  <2> QED BY <1>2, <2>2, <2>3 DEF t
<1>3. CASE Has(s, k)
  <2>1. p \in 1..Len(s) /\ s[p].key = k
    BY <1>1, <1>3 DEF Has, PlaceOf
  <2>2. t = RemoveAt(s, p)
    BY <1>3 DEF Without
  <2>3. EntryOf(s, k) = s[p]
    BY DEF EntryOf
  <2> HIDE DEF t, p
  <2>4. /\ t \in Seq(S) /\ Len(t) = Len(s) - 1
        /\ \A i \in 1..Len(t) : t[i] = IF i < p THEN s[i] ELSE s[i + 1]
    BY <2>1, <2>2, RemovedIs
  <2>5. DOMAIN t = 1..Len(t)
    BY <2>4
  <2> DEFINE at(i) == IF i < p THEN i ELSE i + 1
  <2>6. \A i \in 1..Len(t) : at(i) \in 1..Len(s) /\ at(i) # p /\ t[i] = s[at(i)]
    BY <1>1, <2>1, <2>4
  <2>7. \A i, j \in 1..Len(t) : at(i) = at(j) => i = j
    BY <1>1, <2>1, <2>4
  <2> HIDE DEF at
  <2>8. OneEach(t) /\ ~Has(t, k)
    BY <1>1, <2>1, <2>5, <2>6, <2>7 DEF OneEach, Has
  <2>9. Len(t) <= Len(s)
    BY <1>1, <2>4
  <2> QED BY <2>1, <2>3, <2>4, <2>6, <2>8, <2>9 DEF p, t
<1> QED BY <1>2, <1>3

\* An entry of either cache that comes.
LEMMA AppendedIs ==
  ASSUME NEW S, NEW s \in Seq(S), OneEach(s), NEW e \in S, ~Has(s, e.key)
  PROVE  LET t == Append(s, e) IN
         /\ t \in Seq(S) /\ Len(t) = Len(s) + 1 /\ OneEach(t)
         /\ \A j \in 1..Len(t) : t[j] = e \/ \E i \in 1..Len(s) : t[j] = s[i]
<1> DEFINE t == Append(s, e)
<1>1. Len(s) \in Nat /\ DOMAIN s = 1..Len(s) /\ \A a, b \in 1..Len(s) : s[a].key = s[b].key => a = b
  BY DEF OneEach
<1>2. /\ t \in Seq(S) /\ Len(t) = Len(s) + 1 /\ DOMAIN t = 1..(Len(s) + 1) /\ t[Len(s) + 1] = e
      /\ \A j \in 1..Len(s) : t[j] = s[j]
  BY <1>1
<1>3. \A j \in 1..Len(s) : s[j].key # e.key
  BY <1>1 DEF Has
<1> HIDE DEF t
<1>4. \A a \in 1..(Len(s) + 1) : a \in 1..Len(s) \/ a = Len(s) + 1
  BY <1>1
<1>5. OneEach(t)
  <2> SUFFICES ASSUME NEW j \in 1..(Len(s) + 1), NEW k \in 1..(Len(s) + 1), t[j].key = t[k].key PROVE j = k
    BY <1>2 DEF OneEach
  <2> QED BY <1>1, <1>2, <1>3, <1>4
<1> QED BY <1>2, <1>4, <1>5 DEF t

\* The room made for a logo.
LEMMA YoungestIs ==
  ASSUME NEW S, NEW s \in Seq(S), OneEach(s), NEW n \in Nat
  PROVE  LET t == Youngest(s, n) IN
         /\ t \in Seq(S) /\ Len(t) <= n /\ OneEach(t) /\ \A j \in 1..Len(t) : \E i \in 1..Len(s) : t[j] = s[i]
<1>1. Len(s) \in Nat /\ DOMAIN s = 1..Len(s) /\ \A a, b \in 1..Len(s) : s[a].key = s[b].key => a = b
  BY DEF OneEach
<1>2. CASE Len(s) > n
  <2> DEFINE d == Len(s) - n
             t == SubSeq(s, d + 1, Len(s))
  <2>1. Youngest(s, n) = t
    BY <1>1, <1>2 DEF Youngest
  <2>2. d \in Nat /\ d + 1 <= Len(s) + 1 /\ d + 1 >= 1 /\ d + n = Len(s)
    BY <1>1, <1>2
  <2>3. t \in Seq(S) /\ Len(t) = n /\ \A j \in 1..n : t[j] = s[d + j]
    <3> HIDE DEF d
    <3>0. Len(s) \in Nat /\ d \in Nat /\ d <= Len(s)
      BY <1>1, <2>2
    <3>1. t \in Seq(S) /\ Len(t) = Len(s) - d /\ \A j \in 1..(Len(s) - d) : t[j] = s[d + j]
      <4>1. CASE d = Len(s)
        BY <3>0, <4>1
      <4>2. CASE d < Len(s)
        BY <3>0, <4>2
      <4> QED BY <3>0, <4>1, <4>2
    <3>2. Len(s) - d = n
      BY <2>2, <3>0
    <3> HIDE DEF t
    <3> QED BY <3>1, <3>2
  <2> HIDE DEF d, t
  <2>4. DOMAIN t = 1..n /\ \A j \in 1..n : d + j \in 1..Len(s)
    BY <1>1, <2>2, <2>3
  <2>5. OneEach(t)
    <3> SUFFICES ASSUME NEW i \in 1..n, NEW j \in 1..n, t[i].key = t[j].key PROVE i = j
      BY <2>4 DEF OneEach
    <3>1. d + i = d + j
      BY <1>1, <2>3, <2>4
    <3> QED BY <3>1, <2>2
  <2> QED BY <2>1, <2>3, <2>4, <2>5
<1>3. CASE ~(Len(s) > n)
  <2>1. Youngest(s, n) = SubSeq(s, 1, Len(s))
    BY <1>3 DEF Youngest
  <2>2. SubSeq(s, 1, Len(s)) = s
    BY <1>1
  <2> DEFINE t == Youngest(s, n)
  <2>3. t = s
    BY <2>1, <2>2
  <2> HIDE DEF t
  <2>4. t \in Seq(S) /\ Len(t) <= n /\ OneEach(t)
    BY <1>1, <1>3, <2>3
  <2>5. \A j \in 1..Len(t) : \E i \in 1..Len(s) : t[j] = s[i]
    BY <2>3
  <2> QED BY <2>4, <2>5 DEF t
<1> QED BY <1>2, <1>3

Pictures == [key : Addresses, found : BOOLEAN, expires : Nat]
Lasts(e, t) == e.expires = e.made + DocumentTtl /\ e.made <= t
IsSoon(l, t) == ~l.found => l.expires <= t + NegativeTtl
IsFetch(f, t) == f = NotFetching \/ (f \in [op : {"fetch"}, key : Addresses, since : Nat] /\ f.since <= t)

\* What is counted is what is kept, and a fetch began in the past.
DocumentsInv ==
    /\ results \in Seq(Entries) /\ OneEach(results) /\ resultBytes = Bytes(results) /\ resultBytes <= MaxBytes
    /\ \A i \in 1..Len(results) : Lasts(results[i], now)
    /\ handed \in Nat /\ handed <= DocumentTtl
LogosInv ==
    /\ logos \in Seq(Pictures) /\ OneEach(logos) /\ Len(logos) <= MaxLogos
    /\ \A i \in 1..Len(logos) : IsSoon(logos[i], now)
    /\ fetching = [q \in Exporters |-> fetching[q]] /\ \A q \in Exporters : IsFetch(fetching[q], now)
CacheInv == now \in Nat /\ DocumentsInv /\ LogosInv

LEMMA CachesStart == CacheInit => CacheInv
<1> SUFFICES ASSUME CacheInit PROVE CacheInv
  OBVIOUS
<1>1. now = 0 /\ results = <<>> /\ resultBytes = 0 /\ logos = <<>> /\ handed = 0 /\ fetching = [q \in Exporters |-> NotFetching]
  BY DEF CacheInit
<1>2. MaxBytes \in Nat /\ DocumentTtl \in Nat /\ MaxLogos \in Nat
  BY CacheAssumption
<1>3. DocumentsInv
  BY <1>1, <1>2, BytesNone DEF DocumentsInv, OneEach
<1>4. LogosInv
  <2>1. logos \in Seq(Pictures) /\ OneEach(logos) /\ Len(logos) = 0
    BY <1>1 DEF OneEach
  <2>2. fetching = [q \in Exporters |-> fetching[q]] /\ \A q \in Exporters : IsFetch(fetching[q], now)
    BY <1>1 DEF IsFetch
  <2> QED BY <2>1, <2>2, <1>2 DEF LogosInv
<1> QED BY <1>1, <1>3, <1>4 DEF CacheInv

\* A document that is found.
LEMMA FoundIs ==
  ASSUME DocumentsInv, now \in Nat, NEW k, Has(results, k)
  PROVE  LET e == EntryOf(results, k)
             t == Without(results, k) IN
         /\ e \in Entries /\ e.key = k /\ Lasts(e, now) /\ e.bytes \in Nat /\ e.made \in Nat /\ e.expires \in Nat
         /\ t \in Seq(Entries) /\ OneEach(t) /\ ~Has(t, k) /\ \A j \in 1..Len(t) : Lasts(t[j], now)
         /\ resultBytes \in Nat /\ e.bytes <= resultBytes /\ Bytes(t) \in Nat /\ Bytes(t) = resultBytes - e.bytes
<1> DEFINE e == EntryOf(results, k)
           t == Without(results, k)
           p == PlaceOf(results, k)
<1>1. results \in Seq(Entries) /\ OneEach(results) /\ resultBytes = Bytes(results) /\ \A i \in 1..Len(results) : Lasts(results[i], now)
  BY DEF DocumentsInv
<1>2. /\ t \in Seq(Entries) /\ OneEach(t) /\ ~Has(t, k) /\ p \in 1..Len(results) /\ e = results[p] /\ e.key = k
      /\ \A j \in 1..Len(t) : \E i \in 1..Len(results) : t[j] = results[i]
  BY <1>1, WithoutIs
<1>3. t = RemoveAt(results, p)
  BY DEF Without
<1>4. e.bytes <= Bytes(results) /\ Bytes(t) = Bytes(results) - e.bytes
  BY <1>1, <1>2, <1>3, BytesRemoved
<1>5. Bytes(results) \in Nat /\ Bytes(t) \in Nat
  BY <1>1, <1>2, SumsAreBytes, BytesEnd
<1> HIDE DEF e, t, p
<1>6. e \in Entries /\ Lasts(e, now)
  BY <1>1, <1>2
<1>7. e.bytes \in Nat /\ e.made \in Nat /\ e.expires \in Nat
  BY <1>6 DEF Entries
<1> QED BY <1>1, <1>2, <1>4, <1>5, <1>6, <1>7 DEF e, t

\* A document that is asked for.
LEMMA GetKeeps ==
  ASSUME CacheInv, NEW k \in Keys, get(k)
  PROVE  CacheInv'
<1> DEFINE e == EntryOf(results, k)
           t == Without(results, k)
<1>1. /\ e \in Entries /\ e.key = k /\ Lasts(e, now) /\ e.bytes \in Nat /\ e.made \in Nat /\ e.expires \in Nat
      /\ t \in Seq(Entries) /\ OneEach(t) /\ ~Has(t, k) /\ \A j \in 1..Len(t) : Lasts(t[j], now)
      /\ resultBytes \in Nat /\ e.bytes <= resultBytes /\ Bytes(t) \in Nat /\ Bytes(t) = resultBytes - e.bytes
  BY FoundIs DEF CacheInv, get
<1>2. now' = now /\ logos' = logos /\ fetching' = fetching
  BY DEF get
<1>3. now \in Nat /\ handed \in Nat /\ handed <= DocumentTtl /\ MaxBytes \in Nat /\ DocumentTtl \in Nat /\ resultBytes <= MaxBytes
  BY CacheAssumption DEF CacheInv, DocumentsInv
<1>4. LogosInv'
  BY <1>2 DEF CacheInv, LogosInv
<1>5. CASE now > e.expires
  <2>1. results' = t /\ resultBytes' = AtLeastZero(resultBytes, e.bytes) /\ handed' = handed
    BY <1>5 DEF get
  <2>2. resultBytes' = Bytes(t) /\ resultBytes' <= MaxBytes
    <3> HIDE DEF t, e
    <3>1. AtLeastZero(resultBytes, e.bytes) = resultBytes - e.bytes
      BY <1>1, LessIs
    <3>2. resultBytes' = Bytes(t)
      BY <1>1, <2>1, <3>1
    <3> QED BY <1>1, <1>3, <3>2
  <2> HIDE DEF t
  <2> QED BY <1>1, <1>2, <1>3, <1>4, <2>1, <2>2 DEF CacheInv, DocumentsInv
<1>6. CASE ~(now > e.expires)
  <2>1. results' = Append(t, e) /\ resultBytes' = resultBytes /\ handed' = now - e.made
    BY <1>6 DEF get
  <2> HIDE DEF t, e
  <2>2. /\ results' \in Seq(Entries) /\ OneEach(results')
        /\ \A j \in 1..Len(results') : results'[j] = e \/ \E i \in 1..Len(t) : results'[j] = t[i]
    BY <1>1, <2>1, AppendedIs
  <2>3. Bytes(results') = resultBytes
    BY <1>1, <2>1, BytesAppend
  <2>4. handed' \in Nat /\ handed' <= DocumentTtl
    BY <1>1, <1>3, <1>6, <2>1 DEF Lasts
  <2>5. \A j \in 1..Len(results') : Lasts(results'[j], now)
    BY <1>1, <2>2
  <2>6. OneEach(results)'
    BY <2>2 DEF OneEach
  <2> QED BY <1>2, <1>3, <1>4, <2>1, <2>2, <2>3, <2>4, <2>5, <2>6 DEF CacheInv, DocumentsInv
<1> QED BY <1>5, <1>6

\* A document that is stored.
LEMMA SetKeeps ==
  ASSUME CacheInv, NEW k \in Keys, NEW bytes \in Sizes, set(k, bytes)
  PROVE  CacheInv'
<1> DEFINE f == WithoutFormer(k)
           w == Swept(f)
           c == Evicted(w, bytes)
           e == [key |-> k, bytes |-> bytes, expires |-> now + DocumentTtl, made |-> now]
<1>1. /\ bytes > 0 /\ bytes <= MaxBytes /\ results' = Append(c.kept, e) /\ resultBytes' = c.bytes + bytes
      /\ now' = now /\ logos' = logos /\ fetching' = fetching /\ handed' = handed
  BY DEF set
<1>2. bytes \in Nat /\ MaxBytes \in Nat /\ DocumentTtl \in Nat /\ now \in Nat /\ handed \in Nat /\ handed <= DocumentTtl
  BY CacheAssumption DEF CacheInv, DocumentsInv
<1>3. results \in Seq(Entries) /\ OneEach(results) /\ resultBytes = Bytes(results) /\ \A i \in 1..Len(results) : Lasts(results[i], now)
  BY DEF CacheInv, DocumentsInv
<1>4. IsTrue(f) /\ OneEach(f.kept) /\ \A i \in 1..Len(f.kept) : Lasts(f.kept[i], now) /\ f.kept[i].key # k
  <2> DEFINE t == Without(results, k)
  <2>1. CASE Has(results, k)
    <3>1. f = Counted(t, AtLeastZero(resultBytes, EntryOf(results, k).bytes))
      BY <2>1 DEF WithoutFormer
    <3>2. /\ t \in Seq(Entries) /\ OneEach(t) /\ ~Has(t, k) /\ \A j \in 1..Len(t) : Lasts(t[j], now)
          /\ AtLeastZero(resultBytes, EntryOf(results, k).bytes) = Bytes(t) /\ Bytes(t) \in Nat
      BY <2>1, FoundIs, LessIs DEF CacheInv
    <3> HIDE DEF t
    <3>3. f \in Counts /\ f.kept = t /\ f.bytes = Bytes(t)
      BY <3>1, <3>2, CountedIs
    <3>4. \A i \in 1..Len(t) : t[i].key # k
      <4>1. DOMAIN t = 1..Len(t)
        BY <3>2
      <4> QED BY <3>2, <4>1 DEF Has
    <3> QED BY <3>2, <3>3, <3>4 DEF IsTrue
  <2>2. CASE ~Has(results, k)
    <3>1. f = Counted(results, resultBytes)
      BY <2>2 DEF WithoutFormer
    <3>2. resultBytes \in Nat
      BY <1>3, SumsAreBytes, BytesEnd
    <3>3. f \in Counts /\ f.kept = results /\ f.bytes = Bytes(results)
      BY <1>3, <3>1, <3>2, CountedIs
    <3>4. \A i \in 1..Len(results) : results[i].key # k
      <4>1. DOMAIN results = 1..Len(results)
        BY <1>3
      <4> QED BY <2>2, <4>1 DEF Has
    <3> QED BY <1>3, <3>3, <3>4 DEF IsTrue
  <2> QED BY <2>1, <2>2
<1> HIDE DEF f
<1>5. IsTrue(w) /\ OneEach(w.kept) /\ \A j \in 1..Len(w.kept) : \E i \in 1..Len(f.kept) : w.kept[j] = f.kept[i]
  BY <1>4, SweepCounts
<1> HIDE DEF w
<1>6. /\ IsTrue(c) /\ OneEach(c.kept) /\ c.bytes + bytes <= MaxBytes
      /\ \A j \in 1..Len(c.kept) : \E i \in 1..Len(w.kept) : c.kept[j] = w.kept[i]
  BY <1>1, <1>2, <1>5, EvictedCounts
<1> HIDE DEF c
<1>7. c.kept \in Seq(Entries) /\ c.bytes = Bytes(c.kept)
  BY <1>6 DEF IsTrue, Counts
<1>8. \A j \in 1..Len(c.kept) : Lasts(c.kept[j], now) /\ c.kept[j].key # k
  <2> TAKE j \in 1..Len(c.kept)
  <2>1. PICK i \in 1..Len(w.kept) : c.kept[j] = w.kept[i]
    BY <1>6
  <2>2. PICK h \in 1..Len(f.kept) : w.kept[i] = f.kept[h]
    BY <1>5
  <2> QED BY <1>4, <2>1, <2>2
<1>9. e \in Entries /\ e.key = k /\ e.bytes = bytes /\ Lasts(e, now)
  BY <1>2 DEF Entries, Lasts
<1> HIDE DEF e
<1>10. ~Has(c.kept, e.key)
  <2>1. DOMAIN c.kept = 1..Len(c.kept)
    BY <1>7
  <2> QED BY <2>1, <1>8, <1>9 DEF Has
<1>11. /\ results' \in Seq(Entries) /\ OneEach(results')
       /\ \A j \in 1..Len(results') : results'[j] = e \/ \E i \in 1..Len(c.kept) : results'[j] = c.kept[i]
  BY <1>1, <1>6, <1>7, <1>9, <1>10, AppendedIs
<1>12. Bytes(results') = c.bytes + bytes
  BY <1>1, <1>7, <1>9, BytesAppend
<1>13. \A j \in 1..Len(results') : Lasts(results'[j], now)
  BY <1>8, <1>9, <1>11
<1>14. OneEach(results)'
  BY <1>11 DEF OneEach
<1>15. DocumentsInv'
  BY <1>1, <1>2, <1>6, <1>11, <1>12, <1>13, <1>14 DEF DocumentsInv
<1>16. LogosInv'
  BY <1>1 DEF CacheInv, LogosInv
<1> QED BY <1>1, <1>2, <1>15, <1>16 DEF CacheInv

\* A logo that is asked for, or fetched.
LEMMA LogosKeep ==
  ASSUME CacheInv, NEW q \in Exporters, (\E a \in Addresses : resolveTenantLogo(q, a)) \/ \E found \in BOOLEAN : storeLogo(q, found)
  PROVE  CacheInv'
<1>1. /\ logos \in Seq(Pictures) /\ OneEach(logos) /\ Len(logos) <= MaxLogos /\ \A i \in 1..Len(logos) : IsSoon(logos[i], now)
      /\ fetching = [p \in Exporters |-> fetching[p]] /\ \A p \in Exporters : IsFetch(fetching[p], now)
  BY DEF CacheInv, LogosInv
<1>2. now' = now /\ results' = results /\ resultBytes' = resultBytes /\ handed' = handed
  BY DEF resolveTenantLogo, storeLogo
<1>3. DocumentsInv' /\ now' \in Nat
  BY <1>2 DEF CacheInv, DocumentsInv, OneEach
<1>4. now \in Nat /\ MaxLogos \in Nat /\ MaxLogos - 1 \in Nat /\ LogoTtl \in Nat /\ NegativeTtl \in Nat
  BY CacheAssumption DEF CacheInv
<1>5. ASSUME NEW a \in Addresses, resolveTenantLogo(q, a) PROVE CacheInv'
  <2> DEFINE t == Without(logos, a)
             l == EntryOf(logos, a)
             known == Has(logos, a) /\ now <= l.expires
  <2>1. /\ logos' = IF known THEN Append(t, l) ELSE t
        /\ fetching' = IF known THEN fetching ELSE [fetching EXCEPT ![q] = [op |-> "fetch", key |-> a, since |-> now]]
    BY <1>5 DEF resolveTenantLogo
  <2>2. /\ t \in Seq(Pictures) /\ Len(t) <= Len(logos) /\ OneEach(t) /\ ~Has(t, a)
        /\ \A j \in 1..Len(t) : \E i \in 1..Len(logos) : t[j] = logos[i]
        /\ Has(logos, a) => Len(t) = Len(logos) - 1 /\ PlaceOf(logos, a) \in 1..Len(logos) /\ l = logos[PlaceOf(logos, a)] /\ l.key = a
    BY <1>1, WithoutIs
  <2> HIDE DEF t, l
  <2>3. Len(t) \in Nat /\ Len(logos) \in Nat /\ Len(t) <= MaxLogos /\ \A j \in 1..Len(t) : IsSoon(t[j], now)
    BY <1>1, <1>4, <2>2
  <2>4. /\ logos' \in Seq(Pictures) /\ OneEach(logos') /\ Len(logos') <= MaxLogos /\ \A j \in 1..Len(logos') : IsSoon(logos'[j], now)
    <3>1. CASE known
      <4>1. l \in Pictures /\ IsSoon(l, now) /\ ~Has(t, l.key)
        BY <1>1, <2>2, <3>1
      <4>2. /\ Append(t, l) \in Seq(Pictures) /\ Len(Append(t, l)) = Len(t) + 1 /\ OneEach(Append(t, l))
            /\ \A j \in 1..Len(Append(t, l)) : Append(t, l)[j] = l \/ \E i \in 1..Len(t) : Append(t, l)[j] = t[i]
        BY <2>2, <4>1, AppendedIs
      <4>3. Len(t) + 1 <= MaxLogos
        BY <1>1, <1>4, <2>2, <2>3, <3>1
      <4> QED BY <2>1, <2>3, <3>1, <4>1, <4>2, <4>3
    <3>2. CASE ~known
      BY <2>1, <2>2, <2>3, <3>2
    <3> QED BY <3>1, <3>2
  <2>5. fetching' = [p \in Exporters |-> fetching'[p]] /\ \A p \in Exporters : IsFetch(fetching'[p], now)
    <3> DEFINE f == [op |-> "fetch", key |-> a, since |-> now]
    <3>1. IsFetch(f, now)
      BY <1>4 DEF IsFetch
    <3> HIDE DEF f
    <3> QED BY <1>1, <2>1, <3>1 DEF f
  <2> QED BY <1>2, <1>3, <2>4, <2>5 DEF CacheInv, LogosInv, OneEach
<1>6. ASSUME NEW found \in BOOLEAN, storeLogo(q, found) PROVE CacheInv'
  <2> DEFINE f == fetching[q]
             s == Without(logos, f.key)
             t == Youngest(s, MaxLogos - 1)
             l == [key |-> f.key, found |-> found, expires |-> f.since + IF found THEN LogoTtl ELSE NegativeTtl]
  <2>1. f.op = "fetch" /\ logos' = Append(t, l) /\ fetching' = [fetching EXCEPT ![q] = NotFetching]
    BY <1>6 DEF storeLogo, RoomForLogo
  <2>2. f.key \in Addresses /\ f.since \in Nat /\ f.since <= now
    BY <1>1, <2>1 DEF IsFetch, NotFetching
  <2>3. l \in Pictures /\ l.key = f.key /\ IsSoon(l, now)
    BY <1>4, <2>2 DEF Pictures, IsSoon
  <2>4. /\ s \in Seq(Pictures) /\ OneEach(s) /\ ~Has(s, f.key)
        /\ \A j \in 1..Len(s) : \E i \in 1..Len(logos) : s[j] = logos[i]
    <3>1. ASSUME NEW k
          PROVE  LET r == Without(logos, k) IN
                 /\ r \in Seq(Pictures) /\ OneEach(r) /\ ~Has(r, k)
                 /\ \A j \in 1..Len(r) : \E i \in 1..Len(logos) : r[j] = logos[i]
      <4>1. logos \in Seq(Pictures) /\ OneEach(logos)
        BY <1>1
      <4>2. LET r == Without(logos, k) IN
            /\ r \in Seq(Pictures) /\ Len(r) <= Len(logos) /\ OneEach(r) /\ ~Has(r, k)
            /\ \A j \in 1..Len(r) : \E i \in 1..Len(logos) : r[j] = logos[i]
            /\ Has(logos, k) => /\ Len(r) = Len(logos) - 1 /\ PlaceOf(logos, k) \in 1..Len(logos)
                                /\ EntryOf(logos, k) = logos[PlaceOf(logos, k)] /\ EntryOf(logos, k).key = k
        BY <4>1, WithoutIs
      <4> QED BY <4>2
    <3> HIDE DEF f
    <3> QED BY <3>1
  <2> HIDE DEF s, l, f
  <2>5. t \in Seq(Pictures) /\ Len(t) <= MaxLogos - 1 /\ OneEach(t) /\ \A j \in 1..Len(t) : \E i \in 1..Len(s) : t[j] = s[i]
    <3>1. s \in Seq(Pictures) /\ OneEach(s) /\ MaxLogos - 1 \in Nat
      BY <1>4, <2>4
    <3>2. LET y == Youngest(s, MaxLogos - 1) IN
          /\ y \in Seq(Pictures) /\ Len(y) <= MaxLogos - 1 /\ OneEach(y) /\ \A j \in 1..Len(y) : \E i \in 1..Len(s) : y[j] = s[i]
      BY <3>1, YoungestIs
    <3> QED BY <3>2
  <2> HIDE DEF t
  <2>6. ~Has(t, l.key)
    <3>1. DOMAIN t = 1..Len(t) /\ DOMAIN s = 1..Len(s)
      BY <2>4, <2>5
    <3>2. ASSUME NEW i \in 1..Len(t), t[i].key = f.key PROVE FALSE
      <4>1. PICK j \in 1..Len(s) : t[i] = s[j]
        BY <2>5
      <4>2. s[j].key = f.key
        BY <4>1, <3>2
      <4> QED BY <4>2, <3>1, <2>4 DEF Has
    <3> QED BY <2>3, <3>1, <3>2 DEF Has
  <2>7. /\ logos' \in Seq(Pictures) /\ OneEach(logos') /\ Len(logos') = Len(t) + 1
        /\ \A j \in 1..Len(logos') : logos'[j] = l \/ \E i \in 1..Len(t) : logos'[j] = t[i]
    BY <2>1, <2>3, <2>5, <2>6, AppendedIs
  <2>8. Len(logos') <= MaxLogos
    <3>1. Len(t) \in Nat
      BY <2>5
    <3> QED BY <1>4, <2>5, <2>7, <3>1
  <2>9. \A j \in 1..Len(logos') : IsSoon(logos'[j], now)
    BY <1>1, <2>3, <2>4, <2>5, <2>7
  <2>10. fetching' = [p \in Exporters |-> fetching'[p]] /\ \A p \in Exporters : IsFetch(fetching'[p], now)
    <3>1. IsFetch(NotFetching, now)
      BY DEF IsFetch
    <3> QED BY <1>1, <2>1, <3>1
  <2> QED BY <1>2, <1>3, <2>7, <2>8, <2>9, <2>10 DEF CacheInv, LogosInv, OneEach
<1> QED BY <1>5, <1>6

\* Time passes.
LEMMA TickKeeps ==
  ASSUME CacheInv, cacheTick
  PROVE  CacheInv'
<1>1. now' = now + 1 /\ results' = results /\ resultBytes' = resultBytes /\ logos' = logos /\ fetching' = fetching /\ handed' = handed
  BY DEF cacheTick
<1>2. now \in Nat /\ NegativeTtl \in Nat /\ results \in Seq(Entries) /\ logos \in Seq(Pictures)
  BY CacheAssumption DEF CacheInv, DocumentsInv, LogosInv
<1>3. \A e \in Entries : Lasts(e, now) => Lasts(e, now + 1)
  BY <1>2 DEF Lasts, Entries
<1>4. \A l \in Pictures : IsSoon(l, now) => IsSoon(l, now + 1)
  BY <1>2 DEF IsSoon, Pictures
<1>5. \A f : IsFetch(f, now) => IsFetch(f, now + 1)
  BY <1>2 DEF IsFetch
<1>6. (\A i \in 1..Len(results) : results[i] \in Entries) /\ \A i \in 1..Len(logos) : logos[i] \in Pictures
  BY <1>2
<1>7. DocumentsInv'
  BY <1>1, <1>3, <1>6 DEF CacheInv, DocumentsInv, OneEach
<1>8. LogosInv'
  BY <1>1, <1>4, <1>5, <1>6 DEF CacheInv, LogosInv, OneEach
<1> QED BY <1>1, <1>2, <1>7, <1>8 DEF CacheInv

\* What is counted is what is kept, for any sizes, limits and order of requests.
THEOREM CacheInvariant == CacheSpec => []CacheInv
<1>1. CacheInv /\ [CacheNext]_cacheVars => CacheInv'
  <2> SUFFICES ASSUME CacheInv, [CacheNext]_cacheVars PROVE CacheInv'
    OBVIOUS
  <2>1. CASE \E k \in Keys : get(k) \/ \E bytes \in Sizes : set(k, bytes)
    BY <2>1, GetKeeps, SetKeeps
  <2>2. CASE \E q \in Exporters : (\E a \in Addresses : resolveTenantLogo(q, a)) \/ \E found \in BOOLEAN : storeLogo(q, found)
    BY <2>2, LogosKeep
  <2>3. CASE cacheTick
    BY <2>3, TickKeeps
  <2>4. CASE UNCHANGED cacheVars
    BY <2>4 DEF CacheInv, DocumentsInv, LogosInv, OneEach, cacheVars
  <2> QED BY <2>1, <2>2, <2>3, <2>4 DEF CacheNext
<1> QED BY <1>1, CachesStart, PTL DEF CacheSpec

\* The bytes counted by hand in get and set of document-cache.service.ts are
\* those of the documents kept and never more than the limit, no document is
\* handed out past its time, and the logos of tenant-logo.service.ts stay within
\* their number, whatever order the fetches of one address end in.
THEOREM CachesStayBounded == CacheSpec => []CachesAreBounded
<1>1. CacheInv => CachesAreBounded
  <2> SUFFICES ASSUME CacheInv PROVE CachesAreBounded
    OBVIOUS
  <2>1. logos \in Seq(Pictures)
    BY DEF CacheInv, LogosInv
  <2>2. DOMAIN logos = 1..Len(logos)
    BY <2>1
  <2> QED BY <2>2 DEF CacheInv, DocumentsInv, LogosInv, IsSoon, CachesAreBounded
<1> QED BY <1>1, CacheInvariant, PTL
=============================================================================
