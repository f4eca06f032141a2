------------------------------ MODULE TaskLedger ------------------------------
(***************************************************************************)
(* What the event queue promises its producers, without statements, clocks  *)
(* or workers: a submitted task stays open until one run of it succeeds or  *)
(* its failures use up the allowance; a run may be dropped without trace,   *)
(* and then the task is simply run again; only an operator reopens a dead   *)
(* task.  EventQueue implements it when a single worker polls.              *)
(***************************************************************************)
EXTENDS Naturals

CONSTANTS Task, Hopeless, Allowance

VARIABLES
    phase,     \* [Task -> {"new", "open", "done", "dead"}]
    tries,     \* [Task -> failures counted since the task was last opened]
    running    \* the tasks being run

tvars == <<phase, tries, running>>

TInit ==
    /\ phase = [k \in Task |-> "new"]
    /\ tries = [k \in Task |-> 0]
    /\ running = {}

Submit(k) ==
    /\ phase[k] = "new"
    /\ phase' = [phase EXCEPT ![k] = "open"]
    /\ tries' = [tries EXCEPT ![k] = 0]
    /\ UNCHANGED running

Start(k) ==
    /\ phase[k] = "open"
    /\ k \notin running
    /\ running' = running \cup {k}
    /\ UNCHANGED <<phase, tries>>

Succeed(k) ==
    /\ k \in running
    /\ k \notin Hopeless
    /\ phase[k] = "open"
    /\ phase' = [phase EXCEPT ![k] = "done"]
    /\ running' = running \ {k}
    /\ UNCHANGED tries

\* A failed run is counted; it closes the task once the allowance is used up.
Fail(k) ==
    /\ k \in running
    /\ phase[k] = "open"
    /\ tries' = [tries EXCEPT ![k] = @ + 1]
    /\ phase' = [phase EXCEPT ![k] =
          IF k \notin Hopeless /\ tries[k] + 1 < Allowance THEN "open" ELSE "dead"]
    /\ running' = running \ {k}

Drop(k) ==
    /\ k \in running
    /\ running' = running \ {k}
    /\ UNCHANGED <<phase, tries>>

Reopen(k) ==
    /\ phase[k] = "dead"
    /\ k \notin running
    /\ phase' = [phase EXCEPT ![k] = "open"]
    /\ tries' = [tries EXCEPT ![k] = 0]
    /\ UNCHANGED running

TNext ==
    \E k \in Task :
        Submit(k) \/ Start(k) \/ Succeed(k) \/ Fail(k) \/ Drop(k) \/ Reopen(k)

TSpec == TInit /\ [][TNext]_tvars
=============================================================================
