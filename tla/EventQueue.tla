------------------------------ MODULE EventQueue ------------------------------
(***************************************************************************)
(* The durable SQLite event queue (integrations/event_queue.py) and the     *)
(* workers that drain it (core/event_worker.py, the daemon's queue_worker). *)
(* The connection is in autocommit mode, so every SQL statement is a step   *)
(* of its own and the workers interleave between statements.  Clocks are    *)
(* kept relative to the present: a stamp of -3 lies three ticks back, a due *)
(* time of 2 lies two ticks ahead, and Tick moves all of them.              *)
(***************************************************************************)
EXTENDS Integers, FiniteSets

CONSTANTS
    Worker,        \* the EventWorker loops polling one database file
    MaxEvents,     \* bound: events ever enqueued
    Priority,      \* the priorities enqueue() is called with; 1 is critical
    Orphan,        \* events whose type has no registered handler
    MaxRetries,    \* the row's max_retries
    BackoffUnit,   \* the 30 s of the first retry delay, in ticks
    StuckAfter,    \* _STUCK_MINUTES, in ticks
    MaxPause,      \* bound: ticks a dequeue() call may be suspended
    CountCap,      \* bound: retry_count is not told apart above it
    MaxFaults,     \* bound: worker crashes and database errors
    MaxRequeues    \* bound: manual retry_dead() calls that take effect

Event   == 1..MaxEvents         \* in the order of created_at
NoEvent == 0

\* 30 * 4^retry_count seconds.
Backoff(count) == BackoffUnit * (4 ^ count)

ASSUME QueueAssumption ==
    /\ MaxEvents \in Nat \ {0}
    /\ Priority \subseteq Nat
    /\ Orphan \subseteq Event
    /\ MaxRetries \in Nat \ {0}
    /\ \A count \in 0..MaxRetries : Backoff(count) \in Nat
    /\ StuckAfter \in Nat
    /\ MaxPause \in Nat
    /\ CountCap \in Nat /\ CountCap >= MaxRetries
    /\ MaxFaults \in Nat
    /\ MaxRequeues \in Nat

VARIABLES
    status,    \* [Event -> the status column], "absent" before enqueue()
    prio,      \* [Event -> the priority column]
    count,     \* [Event -> the retry_count column]
    due,       \* [Event -> scheduled_at - now]
    stamp,     \* [Event -> updated_at - now]
    pc,        \* [Worker -> the statement it executes next]
    cur,       \* [Worker -> the event in its hands]
    seen,      \* [Worker -> the `now` its dequeue() read, minus now]
    read,      \* [Worker -> the retry_count its fail() read]
    faults,    \* faults so far
    requeues   \* effective retry_dead() calls so far

rows    == <<status, prio, count, due, stamp>>
locals  == <<pc, cur, seen, read>>
budgets == <<faults, requeues>>
vars    == <<rows, locals, budgets>>

Dequeuing == {"select", "claim"}
Working   == {"run", "complete", "failread", "failwrite"}
Open      == {"pending", "processing"}

\* The types of the columns and of the workers' local variables.
TypeOK ==
    /\ status \in [Event -> {"absent", "pending", "processing", "done", "dead"}]
    /\ prio \in [Event -> Nat]
    /\ count \in [Event -> Nat]
    /\ due \in [Event -> Int]
    /\ stamp \in [Event -> Int]
    /\ pc \in [Worker -> {"idle"} \cup Dequeuing \cup Working]
    /\ cur \in [Worker -> Event \cup {NoEvent}]
    /\ \A w \in Worker : pc[w] \in Working \cup {"claim"} => cur[w] \in Event
    /\ seen \in [Worker -> Int]
    /\ read \in [Worker -> Nat]
    /\ faults \in Nat
    /\ requeues \in Nat

Init ==
    /\ status = [e \in Event |-> "absent"]
    /\ prio = [e \in Event |-> 0]
    /\ count = [e \in Event |-> 0]
    /\ due = [e \in Event |-> 0]
    /\ stamp = [e \in Event |-> 0]
    /\ pc = [w \in Worker |-> "idle"]
    /\ cur = [w \in Worker |-> NoEvent]
    /\ seen = [w \in Worker |-> 0]
    /\ read = [w \in Worker |-> 0]
    /\ faults = 0
    /\ requeues = 0

Goto(w, label) == pc' = [pc EXCEPT ![w] = label]

\* Back to the top of the poll loop, with every local variable forgotten.
Release(w) ==
    /\ Goto(w, "idle")
    /\ cur' = [cur EXCEPT ![w] = NoEvent]
    /\ seen' = [seen EXCEPT ![w] = 0]
    /\ read' = [read EXCEPT ![w] = 0]

-----------------------------------------------------------------------------
(* Producers: the GitHub webhook and the CLI.                                *)

Enqueue(e, p) ==
    /\ status[e] = "absent"
    /\ \A f \in Event : f < e => status[f] # "absent"
    /\ status' = [status EXCEPT ![e] = "pending"]
    /\ prio' = [prio EXCEPT ![e] = p]
    /\ count' = [count EXCEPT ![e] = 0]
    /\ due' = [due EXCEPT ![e] = 0]
    /\ stamp' = [stamp EXCEPT ![e] = 0]
    /\ UNCHANGED <<locals, budgets>>

\* Mutant: the WHERE clause without AND status='dead'.
RequeueableAny(e) == status[e] # "absent"

Requeueable(e) == status[e] = "dead"

RetryDead(e) ==
    /\ Requeueable(e)
    /\ requeues < MaxRequeues
    /\ status' = [status EXCEPT ![e] = "pending"]
    /\ count' = [count EXCEPT ![e] = 0]
    /\ due' = [due EXCEPT ![e] = 0]
    /\ stamp' = [stamp EXCEPT ![e] = 0]
    /\ requeues' = requeues + 1
    /\ UNCHANGED <<prio, locals, faults>>

-----------------------------------------------------------------------------
(* dequeue(): three autocommit statements.                                   *)

\* Mutant: no crash recovery.
StuckForgotten(e) == FALSE

Stuck(e) == status[e] = "processing" /\ stamp[e] < -StuckAfter

DequeueReset(w) ==
    /\ pc[w] = "idle"
    /\ status' = [e \in Event |-> IF Stuck(e) THEN "pending" ELSE status[e]]
    /\ stamp' = [e \in Event |-> IF Stuck(e) THEN 0 ELSE stamp[e]]
    /\ seen' = [seen EXCEPT ![w] = 0]
    /\ Goto(w, "select")
    /\ UNCHANGED <<prio, count, due, cur, read, budgets>>

\* Mutant: scheduled_at is not consulted.
ClaimableEarly(w) == {e \in Event : status[e] = "pending"}

Claimable(w) == {e \in Event : status[e] = "pending" /\ due[e] <= seen[w]}

\* ORDER BY priority ASC, created_at ASC
Before(e, f) == prio[e] < prio[f] \/ (prio[e] = prio[f] /\ e <= f)

DequeueSelect(w) ==
    /\ pc[w] = "select"
    /\ \E e \in Claimable(w) :
          /\ \A f \in Claimable(w) : Before(e, f)
          /\ cur' = [cur EXCEPT ![w] = e]
    /\ Goto(w, "claim")
    /\ UNCHANGED <<rows, seen, read, budgets>>

DequeueEmpty(w) ==
    /\ pc[w] = "select"
    /\ Claimable(w) = {}
    /\ Release(w)
    /\ UNCHANGED <<rows, budgets>>

\* UPDATE ... SET status='processing' WHERE id=?, whatever the row holds now.
\* _process() then fails an event without handler outright.
DequeueClaim(w) ==
    /\ pc[w] = "claim"
    /\ status' = [status EXCEPT ![cur[w]] = "processing"]
    /\ stamp' = [stamp EXCEPT ![cur[w]] = seen[w]]
    /\ seen' = [seen EXCEPT ![w] = 0]
    /\ Goto(w, IF cur[w] \in Orphan THEN "failread" ELSE "run")
    /\ UNCHANGED <<prio, count, due, cur, read, budgets>>

-----------------------------------------------------------------------------
(* _process(): run the handler, then complete() or fail().                   *)

HandlerReturns(w) ==
    /\ pc[w] = "run"
    /\ Goto(w, "complete")
    /\ UNCHANGED <<rows, cur, seen, read, budgets>>

HandlerRaises(w) ==
    /\ pc[w] = "run"
    /\ Goto(w, "failread")
    /\ UNCHANGED <<rows, cur, seen, read, budgets>>

Complete(w) ==
    /\ pc[w] = "complete"
    /\ status' = [status EXCEPT ![cur[w]] = "done"]
    /\ stamp' = [stamp EXCEPT ![cur[w]] = 0]
    /\ Release(w)
    /\ UNCHANGED <<prio, count, due, budgets>>

FailRead(w) ==
    /\ pc[w] = "failread"
    /\ read' = [read EXCEPT ![w] = count[cur[w]]]
    /\ Goto(w, "failwrite")
    /\ UNCHANGED <<rows, cur, seen, budgets>>

\* Mutant: counting the attempts left instead of the failures.
NewCountDown(n) == n - 1

\* retry_count + 1.  Overlapping workers can push it past max_retries without
\* end; above max_retries the code tells no two values apart.
NewCount(n) == IF n < CountCap THEN n + 1 ELSE n

\* Mutants: the comparison off by one, either way.
RetriesLess(w) == cur[w] \notin Orphan /\ read[w] + 2 < MaxRetries
RetriesMore(w) == cur[w] \notin Orphan /\ read[w] + 1 <= MaxRetries

\* `retry and new_count < max_retries`
Retries(w) == cur[w] \notin Orphan /\ read[w] + 1 < MaxRetries

FailWrite(w) ==
    /\ pc[w] = "failwrite"
    /\ count' = [count EXCEPT ![cur[w]] = NewCount(read[w])]
    /\ stamp' = [stamp EXCEPT ![cur[w]] = 0]
    /\ \/ /\ Retries(w)
          /\ status' = [status EXCEPT ![cur[w]] = "pending"]
          /\ due' = [due EXCEPT ![cur[w]] = Backoff(read[w])]
       \/ /\ ~ Retries(w)
          /\ status' = [status EXCEPT ![cur[w]] = "dead"]
          /\ UNCHANGED due
    /\ Release(w)
    /\ UNCHANGED <<prio, budgets>>

-----------------------------------------------------------------------------
(* Faults and time.                                                          *)

\* A statement of complete() raises inside _process()'s try block: fail() runs.
CompleteRaises(w) ==
    /\ pc[w] = "complete"
    /\ faults < MaxFaults
    /\ faults' = faults + 1
    /\ Goto(w, "failread")
    /\ UNCHANGED <<rows, cur, seen, read, requeues>>

\* A statement of dequeue() or fail() raises into the loop's except, or the
\* process dies and its successor starts polling: the row stays as it is.
Abandon(w) ==
    /\ pc[w] # "idle"
    /\ faults < MaxFaults
    /\ faults' = faults + 1
    /\ Release(w)
    /\ UNCHANGED <<rows, requeues>>

\* Every comparison stays exact: a due time is compared with a `now` at most
\* MaxPause back, a stamp with StuckAfter.
Older(x, floor) == IF x > floor THEN x - 1 ELSE x

Tick ==
    /\ \A w \in Worker : pc[w] \in Dequeuing => seen[w] > -MaxPause
    /\ due' = [e \in Event |-> Older(due[e], -MaxPause)]
    /\ stamp' = [e \in Event |-> Older(stamp[e], -(StuckAfter + 1))]
    /\ seen' = [w \in Worker |-> IF pc[w] \in Dequeuing THEN seen[w] - 1 ELSE seen[w]]
    /\ UNCHANGED <<status, prio, count, pc, cur, read, budgets>>

-----------------------------------------------------------------------------

Poll(w) ==
    \/ DequeueReset(w) \/ DequeueSelect(w) \/ DequeueEmpty(w) \/ DequeueClaim(w)

Process(w) ==
    \/ HandlerReturns(w) \/ HandlerRaises(w)
    \/ Complete(w) \/ FailRead(w) \/ FailWrite(w)

Next ==
    \/ \E e \in Event, p \in Priority : Enqueue(e, p)
    \/ \E e \in Event : RetryDead(e)
    \/ \E w \in Worker : Poll(w) \/ Process(w) \/ CompleteRaises(w) \/ Abandon(w)
    \/ Tick

Spec == Init /\ [][Next]_vars

\* The poll loop never stops, every handler returns or raises (each remote call
\* has a timeout) and time passes.  Faults, enqueues and requeues may not occur.
Fairness == (\A w \in Worker : WF_vars(Poll(w) \/ Process(w))) /\ WF_vars(Tick)

FairSpec == Spec /\ Fairness

-----------------------------------------------------------------------------
(* Properties.                                                               *)

InHand(w) == pc[w] \in Working

\* What EventWorker's docstring promises of parallel workers: the claim in
\* dequeue() hands an event to one of them only.
ExclusiveClaim ==
    \A v, w \in Worker : v # w /\ InHand(v) /\ InHand(w) => cur[v] # cur[w]

\* The dead-letter table holds only events without handler and events whose
\* recorded failures reached max_retries, whatever the workers' interleaving.
DeadIsEarned ==
    \A e \in Event : status[e] = "dead" => e \in Orphan \/ count[e] >= MaxRetries

\* An event a worker is still working on is marked processing: no reset,
\* requeue or late acknowledgement takes the row from under its handler.
HeldIsProcessing ==
    \A w \in Worker : InHand(w) => status[cur[w]] = "processing"

\* An event in the queue always has an attempt left.
OpenHasBudget ==
    \A e \in Event : status[e] \in Open => count[e] < MaxRetries

\* A completed event is never run again: nothing takes a row out of done.
DoneIsFinal ==
    [][\A e \in Event : status[e] = "done" => status'[e] = "done"]_vars

\* A failed event is not picked up again before its backoff has elapsed.
RetryWaits ==
    [][\A e \in Event :
          (status[e] = "pending" /\ status'[e] = "processing") => due[e] <= 0]_vars

\* The abstract view of a row and of the workers' hands.
PhaseOf(s) == IF s \in Open THEN "open" ELSE IF s = "absent" THEN "new" ELSE s
Running    == {cur[w] : w \in {v \in Worker : InHand(v)}}

Ledger == INSTANCE TaskLedger WITH
    Task <- Event, Hopeless <- Orphan, Allowance <- MaxRetries,
    phase <- [e \in Event |-> PhaseOf(status[e])], tries <- count,
    running <- Running

\* With one worker the queue keeps the ledger's promise: a task is run by one
\* worker at a time, stays open until a run succeeds or max_retries failures are
\* counted, and then stays closed.
LedgerSpec == Ledger!TSpec

\* What makes the single worker's promises inductive: between SELECT and claim
\* the row stays pending and due, and fail() writes back the count it read.
SelectedIsDue ==
    \A w \in Worker : pc[w] = "claim" =>
        status[cur[w]] = "pending" /\ due[cur[w]] <= seen[w] /\ cur[w] \in Event

SeenIsPast ==
    \A w \in Worker : seen[w] <= 0 /\ (pc[w] \in Dequeuing => seen[w] >= -MaxPause)

ReadIsCurrent ==
    \A w \in Worker : pc[w] = "failwrite" => read[w] = count[cur[w]]

RunHasHandler ==
    \A w \in Worker : pc[w] \in {"run", "complete"} => cur[w] \notin Orphan

SoleInv ==
    /\ HeldIsProcessing
    /\ OpenHasBudget
    /\ SelectedIsDue
    /\ SeenIsPast
    /\ ReadIsCurrent
    /\ RunHasHandler

\* No event is lost: whatever crashes and errors occur, each one enqueued ends
\* as done or in the dead-letter table.
EventuallySettled ==
    \A e \in Event : status[e] \in Open ~> status[e] \in {"done", "dead"}
=============================================================================
