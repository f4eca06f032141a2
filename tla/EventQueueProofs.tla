--------------------------- MODULE EventQueueProofs ---------------------------
(***************************************************************************)
(* Theorems about EventQueue, for every set of events and every bound.       *)
(* TypeCorrect and DeadLettersEarned hold for any number of workers; the     *)
(* others are the promises of a daemon with a single worker.                 *)
(***************************************************************************)
EXTENDS EventQueue, TLAPS

\* One queue_worker thread, one daemon: what supervisor.py keeps running.
SoleWorker == \A v, w \in Worker : v = w

\* The columns and the workers' locals always have the types TypeOK gives them.
THEOREM TypeCorrect == Spec => []TypeOK
<1>1. Init => TypeOK
  BY QueueAssumption DEF Init, TypeOK, Event, NoEvent, Working
<1>2. TypeOK /\ [Next]_vars => TypeOK'
  <2> SUFFICES ASSUME TypeOK, [Next]_vars PROVE TypeOK'
    OBVIOUS
  <2> USE QueueAssumption DEF TypeOK, rows, locals, budgets, Goto, Release,
          Dequeuing, Working
  <2>1. ASSUME NEW e \in Event, NEW p \in Priority, Enqueue(e, p) PROVE TypeOK'
    BY <2>1 DEF Enqueue
  <2>2. ASSUME NEW e \in Event, RetryDead(e) PROVE TypeOK'
    BY <2>2 DEF RetryDead
  <2>3. ASSUME NEW w \in Worker, DequeueReset(w) PROVE TypeOK'
    BY <2>3 DEF DequeueReset
  <2>4. ASSUME NEW w \in Worker, DequeueSelect(w) PROVE TypeOK'
    BY <2>4 DEF DequeueSelect, Claimable
  <2>5. ASSUME NEW w \in Worker, DequeueEmpty(w) PROVE TypeOK'
    BY <2>5 DEF DequeueEmpty
  <2>6. ASSUME NEW w \in Worker, DequeueClaim(w) PROVE TypeOK'
    BY <2>6 DEF DequeueClaim
  <2>7. ASSUME NEW w \in Worker, HandlerReturns(w) PROVE TypeOK'
    BY <2>7 DEF HandlerReturns
  <2>8. ASSUME NEW w \in Worker, HandlerRaises(w) PROVE TypeOK'
    BY <2>8 DEF HandlerRaises
  <2>9. ASSUME NEW w \in Worker, Complete(w) PROVE TypeOK'
    BY <2>9 DEF Complete
  <2>10. ASSUME NEW w \in Worker, FailRead(w) PROVE TypeOK'
    <3>1. /\ cur[w] \in Event
          /\ read' \in [Worker -> Nat]
          /\ pc' = [pc EXCEPT ![w] = "failwrite"]
      BY <2>10 DEF FailRead
    <3> QED
      BY <2>10, <3>1 DEF FailRead
  <2>11. ASSUME NEW w \in Worker, FailWrite(w) PROVE TypeOK'
    <3>1. NewCount(read[w]) \in Nat
      BY DEF NewCount
    <3>2. Retries(w) => Backoff(read[w]) \in Int
      BY DEF Retries
    <3>3. due' \in [Event -> Int]
      BY <2>11, <3>2 DEF FailWrite
    <3>4. status' \in [Event -> {"absent", "pending", "processing", "done", "dead"}]
      BY <2>11 DEF FailWrite
    <3>5. /\ count' \in [Event -> Nat]
          /\ stamp' \in [Event -> Int]
      BY <2>11, <3>1 DEF FailWrite
    <3>6. /\ pc' = [pc EXCEPT ![w] = "idle"]
          /\ cur' = [cur EXCEPT ![w] = NoEvent]
          /\ seen' \in [Worker -> Int]
          /\ read' \in [Worker -> Nat]
      BY <2>11 DEF FailWrite
    <3>7. UNCHANGED <<prio, faults, requeues>>
      BY <2>11 DEF FailWrite
    <3>8. /\ pc' \in [Worker -> {"idle"} \cup Dequeuing \cup Working]
          /\ cur' \in [Worker -> Event \cup {NoEvent}]
          /\ \A v \in Worker : pc'[v] \in Working \cup {"claim"} => cur'[v] \in Event
      BY <3>6
    <3> QED
      BY <3>3, <3>4, <3>5, <3>6, <3>7, <3>8
  <2>12. ASSUME NEW w \in Worker, CompleteRaises(w) PROVE TypeOK'
    BY <2>12 DEF CompleteRaises
  <2>13. ASSUME NEW w \in Worker, Abandon(w) PROVE TypeOK'
    BY <2>13 DEF Abandon
  <2>14. CASE Tick
    <3>1. \A x, f \in Int : Older(x, f) \in Int
      BY DEF Older
    <3>2. -MaxPause \in Int /\ -(StuckAfter + 1) \in Int
      OBVIOUS
    <3>3. due' \in [Event -> Int] /\ stamp' \in [Event -> Int]
      BY <2>14, <3>1, <3>2 DEF Tick
    <3>4. seen' \in [Worker -> Int]
      BY <2>14 DEF Tick
    <3> QED
      BY <2>14, <3>3, <3>4 DEF Tick
  <2>15. CASE UNCHANGED vars
    BY <2>15 DEF vars
  <2> QED
    BY <2>1, <2>2, <2>3, <2>4, <2>5, <2>6, <2>7, <2>8, <2>9, <2>10, <2>11,
       <2>12, <2>13, <2>14, <2>15 DEF Next, Poll, Process
<1> QED
  BY <1>1, <1>2, PTL DEF Spec

-----------------------------------------------------------------------------

\* With any number of workers in any interleaving, the dead-letter table holds
\* only events without a handler and events with max_retries counted failures.
THEOREM DeadLettersEarned == Spec => []DeadIsEarned
<1>1. Init => DeadIsEarned
  BY DEF Init, DeadIsEarned
<1>2. TypeOK /\ DeadIsEarned /\ [Next]_vars => DeadIsEarned'
  <2> SUFFICES ASSUME TypeOK, DeadIsEarned, [Next]_vars PROVE DeadIsEarned'
    OBVIOUS
  <2> USE QueueAssumption DEF DeadIsEarned, rows
  <2>1. ASSUME NEW e \in Event, NEW p \in Priority, Enqueue(e, p)
        PROVE  DeadIsEarned'
    BY <2>1 DEF Enqueue, TypeOK
  <2>2. ASSUME NEW e \in Event, RetryDead(e) PROVE DeadIsEarned'
    BY <2>2 DEF RetryDead, TypeOK
  <2>3. ASSUME NEW w \in Worker, DequeueReset(w) PROVE DeadIsEarned'
    BY <2>3 DEF DequeueReset, TypeOK
  <2>4. ASSUME NEW w \in Worker, DequeueClaim(w) PROVE DeadIsEarned'
    BY <2>4 DEF DequeueClaim, TypeOK
  <2>5. ASSUME NEW w \in Worker, Complete(w) PROVE DeadIsEarned'
    BY <2>5 DEF Complete, TypeOK, Working
  <2>6. ASSUME NEW w \in Worker, FailWrite(w) PROVE DeadIsEarned'
    <3>1. cur[w] \in Event /\ read[w] \in Nat
      BY <2>6 DEF FailWrite, TypeOK, Working
    <3>2. cur[w] \notin Orphan /\ ~ Retries(w) => NewCount(read[w]) >= MaxRetries
      BY <3>1 DEF Retries, NewCount
    <3>3. CASE Retries(w)
      BY <2>6, <3>1, <3>3 DEF FailWrite, TypeOK
    <3>4. CASE ~ Retries(w)
      BY <2>6, <3>1, <3>2, <3>4 DEF FailWrite, TypeOK
    <3> QED
      BY <3>3, <3>4
  <2>7. CASE UNCHANGED rows
    BY <2>7
  <2> QED
    BY <2>1, <2>2, <2>3, <2>4, <2>5, <2>6, <2>7
    DEF Next, Poll, Process, vars, DequeueSelect, DequeueEmpty, HandlerReturns,
        HandlerRaises, FailRead, CompleteRaises, Abandon, Tick
<1> QED
  BY <1>1, <1>2, TypeCorrect, PTL DEF Spec

-----------------------------------------------------------------------------

\* The inductive invariant of a single worker: its step preserves SoleInv.
LEMMA SoleWorkerStep ==
  ASSUME SoleWorker, TypeOK, SoleInv, [Next]_vars
  PROVE  SoleInv'
<1> USE QueueAssumption DEF SoleWorker, Working, Dequeuing, Open, InHand
<1> DEFINE Parts == /\ HeldIsProcessing' /\ OpenHasBudget' /\ SelectedIsDue'
                    /\ SeenIsPast' /\ ReadIsCurrent' /\ RunHasHandler'
<1>0. SUFFICES Parts
  BY DEF SoleInv
<1> USE DEF SoleInv, HeldIsProcessing, OpenHasBudget, SelectedIsDue,
        SeenIsPast, ReadIsCurrent, RunHasHandler
<1>1. ASSUME NEW e \in Event, NEW p \in Priority, Enqueue(e, p) PROVE Parts
  <2>1. \A w \in Worker : pc[w] \in Working \cup {"claim"} => cur[w] # e
    BY <1>1 DEF Enqueue, TypeOK
  <2> QED
    BY <1>1, <2>1 DEF Enqueue, TypeOK, locals
<1>2. ASSUME NEW e \in Event, RetryDead(e) PROVE Parts
  <2>1. \A w \in Worker : pc[w] \in Working \cup {"claim"} => cur[w] # e
    BY <1>2 DEF RetryDead, Requeueable, TypeOK
  <2> QED
    BY <1>2, <2>1 DEF RetryDead, TypeOK, locals
<1>3. ASSUME NEW w \in Worker, DequeueReset(w) PROVE Parts
  BY <1>3 DEF DequeueReset, Goto, TypeOK, Stuck
<1>4. ASSUME NEW w \in Worker, DequeueSelect(w) PROVE Parts
  BY <1>4 DEF DequeueSelect, Claimable, Goto, TypeOK, rows
<1>5. ASSUME NEW w \in Worker, DequeueEmpty(w) \/ Abandon(w) PROVE Parts
  BY <1>5 DEF DequeueEmpty, Abandon, Release, Goto, TypeOK, rows
<1>6. ASSUME NEW w \in Worker, DequeueClaim(w) PROVE Parts
  BY <1>6 DEF DequeueClaim, Goto, TypeOK
<1>7. ASSUME NEW w \in Worker,
             HandlerReturns(w) \/ HandlerRaises(w) \/ CompleteRaises(w)
      PROVE  Parts
  BY <1>7 DEF HandlerReturns, HandlerRaises, CompleteRaises, Goto, TypeOK, rows
<1>8. ASSUME NEW w \in Worker, Complete(w) PROVE Parts
  BY <1>8 DEF Complete, Release, Goto, TypeOK
<1>9. ASSUME NEW w \in Worker, FailRead(w) PROVE Parts
  BY <1>9 DEF FailRead, Goto, TypeOK, rows
<1>10. ASSUME NEW w \in Worker, FailWrite(w) PROVE Parts
  <2>1. /\ cur[w] \in Event
        /\ read[w] \in Nat
        /\ \A v \in Worker : pc'[v] = "idle" /\ seen'[v] = 0
    BY <1>10 DEF FailWrite, Release, Goto, TypeOK
  <2>2. Retries(w) => NewCount(read[w]) < MaxRetries
    BY <2>1 DEF Retries, NewCount
  <2>3. OpenHasBudget'
    BY <1>10, <2>1, <2>2 DEF FailWrite, TypeOK
  <2> QED
    BY <2>1, <2>3
<1>11. CASE Tick
  <2>1. /\ UNCHANGED <<status, count, pc, cur, read>>
        /\ \A w \in Worker : seen'[w] = IF pc[w] \in Dequeuing
                                          THEN seen[w] - 1 ELSE seen[w]
        /\ \A w \in Worker : pc[w] \in Dequeuing => seen[w] > -MaxPause
    BY <1>11 DEF Tick
  <2>2. SeenIsPast'
    BY <2>1 DEF TypeOK
  <2>3. ASSUME NEW w \in Worker, pc[w] = "claim"
        PROVE  due'[cur[w]] <= seen'[w]
    <3>1. cur[w] \in Event /\ due[cur[w]] \in Int /\ seen[w] \in Int
      BY <2>3 DEF TypeOK
    <3>2. due'[cur[w]] = Older(due[cur[w]], -MaxPause)
      BY <1>11, <3>1 DEF Tick
    <3> QED
      BY <2>1, <2>3, <3>1, <3>2 DEF Older
  <2> QED
    BY <2>1, <2>2, <2>3
<1>12. CASE UNCHANGED vars
  BY <1>12 DEF vars, rows, locals
<1> QED
  BY <1>1, <1>2, <1>3, <1>4, <1>5, <1>6, <1>7, <1>8, <1>9, <1>10, <1>11, <1>12
  DEF Next, Poll, Process

\* Every reachable state satisfies the lone worker's invariant.
LEMMA SoleWorkerInvariant ==
  ASSUME SoleWorker
  PROVE  Spec => []SoleInv
<1>1. Init => SoleInv
  BY QueueAssumption DEF Init, SoleInv, HeldIsProcessing, OpenHasBudget, SelectedIsDue,
     SeenIsPast, ReadIsCurrent, RunHasHandler, InHand, Working, Dequeuing, Open
<1>2. TypeOK /\ SoleInv /\ [Next]_vars => SoleInv'
  BY SoleWorkerStep
<1> QED
  BY <1>1, <1>2, TypeCorrect, PTL DEF Spec

\* A daemon with one worker: neither the five-minute reset nor a manual requeue
\* takes the row of an event from under the handler that runs it.
THEOREM HandlerKeepsItsRow ==
  ASSUME SoleWorker
  PROVE  Spec => []HeldIsProcessing
<1>1. SoleInv => HeldIsProcessing
  BY DEF SoleInv
<1> QED
  BY <1>1, SoleWorkerInvariant, PTL

\* A daemon with one worker: max_retries is never passed by an open event.
THEOREM RetriesAreBounded ==
  ASSUME SoleWorker
  PROVE  Spec => []OpenHasBudget
<1>1. SoleInv => OpenHasBudget
  BY DEF SoleInv
<1> QED
  BY <1>1, SoleWorkerInvariant, PTL

\* A daemon with one worker: a completed event is never executed again, although
\* no statement that writes the row by id looks at the status it overwrites.
THEOREM CompletionIsFinal ==
  ASSUME SoleWorker
  PROVE  Spec => DoneIsFinal
<1> DEFINE Keeps == \A e \in Event : status[e] = "done" => status'[e] = "done"
<1>1. TypeOK /\ SoleInv /\ [Next]_vars => [Keeps]_vars
  <2> SUFFICES ASSUME TypeOK, SoleInv, [Next]_vars PROVE Keeps
    OBVIOUS
  <2> USE DEF TypeOK, SoleInv, HeldIsProcessing, SelectedIsDue, InHand, Working
  <2>1. ASSUME NEW e \in Event, NEW p \in Priority, Enqueue(e, p) PROVE Keeps
    BY <2>1 DEF Enqueue
  <2>2. ASSUME NEW e \in Event, RetryDead(e) PROVE Keeps
    BY <2>2 DEF RetryDead, Requeueable
  <2>3. ASSUME NEW w \in Worker, DequeueReset(w) PROVE Keeps
    BY <2>3 DEF DequeueReset, Stuck
  <2>4. ASSUME NEW w \in Worker, DequeueClaim(w) PROVE Keeps
    BY <2>4 DEF DequeueClaim
  <2>5. ASSUME NEW w \in Worker, Complete(w) PROVE Keeps
    BY <2>5 DEF Complete
  <2>6. ASSUME NEW w \in Worker, FailWrite(w) PROVE Keeps
    BY <2>6 DEF FailWrite
  <2>7. CASE UNCHANGED status
    BY <2>7
  <2> QED
    BY <2>1, <2>2, <2>3, <2>4, <2>5, <2>6, <2>7
    DEF Next, Poll, Process, vars, rows, DequeueSelect, DequeueEmpty, HandlerReturns,
        HandlerRaises, FailRead, CompleteRaises, Abandon, Tick
<1> QED
  BY <1>1, SoleWorkerInvariant, TypeCorrect, PTL DEF Spec, DoneIsFinal

\* A daemon with one worker: a retry is not claimed before its backoff is over.
THEOREM BackoffIsKept ==
  ASSUME SoleWorker
  PROVE  Spec => RetryWaits
<1> DEFINE Waits == \A e \in Event :
              (status[e] = "pending" /\ status'[e] = "processing") => due[e] <= 0
<1>1. TypeOK /\ SoleInv /\ [Next]_vars => [Waits]_vars
  <2> SUFFICES ASSUME TypeOK, SoleInv, [Next]_vars PROVE Waits
    OBVIOUS
  <2>1. ASSUME NEW w \in Worker, DequeueClaim(w) PROVE Waits
    <3>1. /\ cur[w] \in Event
          /\ due[cur[w]] <= seen[w]
          /\ seen[w] <= 0
          /\ status' = [status EXCEPT ![cur[w]] = "processing"]
      BY <2>1 DEF DequeueClaim, SoleInv, SelectedIsDue, SeenIsPast
    <3>2. due[cur[w]] <= 0
      BY <3>1 DEF TypeOK
    <3> QED
      BY <3>1, <3>2 DEF TypeOK
  <2>2. CASE \A e \in Event : status'[e] = "processing" => status[e] = "processing"
    BY <2>2
  <2> QED
    BY <2>1, <2>2
    DEF TypeOK, Next, Poll, Process, vars, rows, DequeueSelect, DequeueEmpty,
        HandlerReturns, HandlerRaises, FailRead, CompleteRaises, Abandon, Tick,
        Enqueue, RetryDead, DequeueReset, Stuck, Complete, FailWrite
<1> QED
  BY <1>1, SoleWorkerInvariant, TypeCorrect, PTL DEF Spec, RetryWaits

-----------------------------------------------------------------------------
(* A daemon with one worker implements TaskLedger.                           *)

\* The only running task is the one in the single worker's hands.
LEMMA SoleRunning ==
  ASSUME SoleWorker, NEW w \in Worker
  PROVE  Running = IF InHand(w) THEN {cur[w]} ELSE {}
BY DEF SoleWorker, Running

\* The same after a step.
LEMMA SoleRunningNext ==
  ASSUME SoleWorker, NEW w \in Worker
  PROVE  Running' = IF InHand(w)' THEN {cur'[w]} ELSE {}
BY DEF SoleWorker, Running, InHand

\* Every step of the queue is a step of the ledger or leaves it unchanged.
LEMMA LedgerStep ==
  ASSUME SoleWorker, TypeOK, SoleInv, [Next]_vars
  PROVE  [Ledger!TNext]_(Ledger!tvars)
<1> DEFINE phase == [e \in Event |-> PhaseOf(status[e])]
           Stutter == phase' = phase /\ count' = count /\ Running' = Running
<1>1. Stutter => [Ledger!TNext]_(Ledger!tvars)
  BY DEF Ledger!tvars
<1>2. ASSUME NEW e \in Event,
             \/ Ledger!Submit(e) \/ Ledger!Start(e) \/ Ledger!Succeed(e)
             \/ Ledger!Fail(e) \/ Ledger!Drop(e) \/ Ledger!Reopen(e)
      PROVE  [Ledger!TNext]_(Ledger!tvars)
  BY <1>2 DEF Ledger!TNext
<1>3. ASSUME NEW w \in Worker
      PROVE  /\ InHand(w) => cur[w] \in Event /\ phase[cur[w]] = "open"
             /\ Running = IF InHand(w) THEN {cur[w]} ELSE {}
             /\ Running' = IF InHand(w)' THEN {cur'[w]} ELSE {}
  BY SoleRunning, SoleRunningNext
  DEF SoleInv, HeldIsProcessing, TypeOK, InHand, PhaseOf, Open
<1>4. UNCHANGED locals => Running' = Running
  BY DEF Running, InHand, locals
<1>5. ASSUME NEW e \in Event, NEW p \in Priority, Enqueue(e, p)
      PROVE  Ledger!Submit(e)
  <2>1. /\ phase[e] = "new"
        /\ phase' = [phase EXCEPT ![e] = "open"]
    BY <1>5 DEF Enqueue, PhaseOf, Open, TypeOK
  <2> QED
    BY <1>4, <1>5, <2>1 DEF Enqueue, Ledger!Submit
<1>6. ASSUME NEW e \in Event, RetryDead(e)
      PROVE  Ledger!Reopen(e)
  <2>1. /\ phase[e] = "dead"
        /\ phase' = [phase EXCEPT ![e] = "open"]
    BY <1>6 DEF RetryDead, Requeueable, PhaseOf, Open, TypeOK
  <2>2. e \notin Running
    BY <2>1, <1>3 DEF Running
  <2> QED
    BY <1>4, <1>6, <2>1, <2>2 DEF RetryDead, Ledger!Reopen, locals
<1>7. ASSUME NEW w \in Worker, DequeueReset(w)
      PROVE  Stutter
  <2>1. phase' = phase
    BY <1>7 DEF DequeueReset, Stuck, PhaseOf, Open, TypeOK
  <2>2. ~ InHand(w) /\ ~ InHand(w)'
    BY <1>7 DEF DequeueReset, InHand, Working, Goto, TypeOK
  <2> QED
    BY <1>3, <1>7, <2>1, <2>2 DEF DequeueReset
<1>8. ASSUME NEW w \in Worker, DequeueSelect(w) \/ DequeueEmpty(w)
      PROVE  Stutter
  <2>1. ~ InHand(w) /\ ~ InHand(w)'
    BY <1>8 DEF DequeueSelect, DequeueEmpty, Release, InHand, Working, Goto, TypeOK
  <2> QED
    BY <1>3, <1>8, <2>1 DEF DequeueSelect, DequeueEmpty, rows
<1>9. ASSUME NEW w \in Worker, DequeueClaim(w)
      PROVE  Ledger!Start(cur[w])
  <2>1. /\ cur[w] \in Event
        /\ phase[cur[w]] = "open"
        /\ phase' = phase
    BY <1>9 DEF DequeueClaim, SoleInv, SelectedIsDue, PhaseOf, Open, TypeOK
  <2>2. ~ InHand(w) /\ InHand(w)' /\ cur' = cur /\ count' = count
    BY <1>9 DEF DequeueClaim, InHand, Working, Goto, TypeOK
  <2>3. Running = {} /\ Running' = {cur[w]}
    BY <1>3, <2>2
  <2> QED
    BY <2>1, <2>2, <2>3 DEF Ledger!Start
<1>10. ASSUME NEW w \in Worker,
              \/ HandlerReturns(w) \/ HandlerRaises(w)
              \/ FailRead(w) \/ CompleteRaises(w)
       PROVE  Stutter
  <2>1. /\ InHand(w) /\ InHand(w)' /\ cur' = cur
        /\ status' = status /\ count' = count
    BY <1>10 DEF HandlerReturns, HandlerRaises, FailRead, CompleteRaises, InHand,
       Working, Goto, TypeOK, rows
  <2> QED
    BY <1>3, <2>1
<1>11. ASSUME NEW w \in Worker, Complete(w)
       PROVE  Ledger!Succeed(cur[w])
  <2>1. InHand(w) /\ ~ InHand(w)' /\ count' = count
    BY <1>11 DEF Complete, Release, InHand, Working, Goto, TypeOK
  <2>2. phase' = [phase EXCEPT ![cur[w]] = "done"]
    BY <1>11, <1>3, <2>1 DEF Complete, PhaseOf, Open, TypeOK
  <2>3. cur[w] \notin Orphan
    BY <1>11 DEF Complete, SoleInv, RunHasHandler
  <2>4. Running = {cur[w]} /\ Running' = {}
    BY <1>3, <2>1
  <2> QED
    BY <1>3, <2>1, <2>2, <2>3, <2>4 DEF Ledger!Succeed
<1>12. ASSUME NEW w \in Worker, FailWrite(w)
       PROVE  Ledger!Fail(cur[w])
  <2>1. InHand(w) /\ ~ InHand(w)'
    BY <1>12 DEF FailWrite, Release, InHand, Working, Goto, TypeOK
  <2>2. /\ cur[w] \in Event
        /\ read[w] = count[cur[w]]
        /\ count[cur[w]] < MaxRetries
    BY <1>12, <1>3, <2>1
    DEF FailWrite, SoleInv, HeldIsProcessing, OpenHasBudget, ReadIsCurrent, Open
  <2>3. count' = [count EXCEPT ![cur[w]] = count[cur[w]] + 1]
    <3>1. count[cur[w]] \in Nat /\ CountCap >= MaxRetries
      BY <2>2, QueueAssumption DEF TypeOK
    <3>2. NewCount(read[w]) = count[cur[w]] + 1
      BY <2>2, <3>1, QueueAssumption DEF NewCount
    <3> QED
      BY <1>12, <3>2 DEF FailWrite
  <2>4. Retries(w) <=> cur[w] \notin Orphan /\ count[cur[w]] + 1 < MaxRetries
    BY <2>2 DEF Retries
  <2>5. phase' = [phase EXCEPT ![cur[w]] = IF Retries(w) THEN "open" ELSE "dead"]
    BY <1>12, <2>2 DEF FailWrite, PhaseOf, Open, TypeOK
  <2>6. Running = {cur[w]} /\ Running' = {}
    BY <1>3, <2>1
  <2> QED
    BY <1>3, <2>1, <2>2, <2>3, <2>4, <2>5, <2>6 DEF Ledger!Fail
<1>13. ASSUME NEW w \in Worker, Abandon(w)
       PROVE  Stutter \/ Ledger!Drop(cur[w])
  <2>1. ~ InHand(w)' /\ status' = status /\ count' = count
    BY <1>13 DEF Abandon, Release, InHand, Working, Goto, TypeOK, rows
  <2>2. Running = (IF InHand(w) THEN {cur[w]} ELSE {}) /\ Running' = {}
    BY <1>3, <2>1
  <2> QED
    BY <2>1, <2>2 DEF Ledger!Drop
<1>14. CASE Tick \/ UNCHANGED vars
  <2>1. Stutter
    BY <1>14 DEF Tick, vars, rows, locals, Running, InHand
  <2> QED
    BY <1>1, <2>1
<1> QED
  <2>1. ASSUME NEW w \in Worker, InHand(w) PROVE cur[w] \in Event
    BY <1>3, <2>1
  <2>2. ASSUME NEW w \in Worker, DequeueClaim(w) PROVE cur[w] \in Event
    BY <2>2 DEF DequeueClaim, SoleInv, SelectedIsDue
  <2>3. ASSUME NEW w \in Worker,
               Poll(w) \/ Process(w) \/ CompleteRaises(w) \/ Abandon(w)
        PROVE  [Ledger!TNext]_(Ledger!tvars)
    <3>1. Complete(w) \/ FailWrite(w) => InHand(w)
      BY DEF Complete, FailWrite, InHand, Working
    <3>2. Ledger!Drop(cur[w]) => cur[w] \in Event
      BY <1>3, <2>1 DEF Ledger!Drop
    <3> QED
      BY <1>1, <1>2, <1>7, <1>8, <1>9, <1>10, <1>11, <1>12, <1>13, <2>1, <2>2,
         <2>3, <3>1, <3>2 DEF Poll, Process
  <2> QED
    BY <1>2, <1>5, <1>6, <1>14, <2>3 DEF Next

\* A daemon with one worker implements TaskLedger: every statement of the queue is
\* a step of the ledger or leaves it unchanged.
THEOREM QueueImplementsLedger ==
  ASSUME SoleWorker
  PROVE  Spec => LedgerSpec
<1>1. Init => Ledger!TInit
  BY DEF Init, Ledger!TInit, PhaseOf, Open, Running, InHand, Working
<1>2. TypeOK /\ SoleInv /\ [Next]_vars => [Ledger!TNext]_(Ledger!tvars)
  BY LedgerStep
<1> QED
  BY <1>1, <1>2, SoleWorkerInvariant, TypeCorrect, PTL DEF Spec, LedgerSpec, Ledger!TSpec
=============================================================================
