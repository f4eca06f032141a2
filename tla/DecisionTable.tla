---------------------------- MODULE DecisionTable ----------------------------
(***************************************************************************)
(* What a table of requests promises the person who decides them, without   *)
(* columns, clocks, processes or messages: a request is carried out at most *)
(* once, only after it was approved, and never after it was turned down;    *)
(* what came of it is recorded once.  A decision is taken up, and put back  *)
(* if nobody is left to carry it out.  Approvals implements the table for   *)
(* one decider, Deploys for one operator, Chat for any number of tabs.      *)
(***************************************************************************)

CONSTANTS
    Request,
    Disputable   \* whether the filer of a request may disown what came of it

VARIABLE stage   \* [Request -> Stage]

Stage == {"new", "open", "taken", "refused", "started", "succeeded", "failed"}

DInit == stage = [r \in Request |-> "new"]

\* The requests of R that are in one of the stages `from` move on to `to`.
Move(R, from, to) ==
    stage' = [r \in Request |-> IF r \in R /\ stage[r] \in from THEN to ELSE stage[r]]

Submit(R) == Move(R, {"new"}, "open")
TakeUp(r) == stage[r] = "open" /\ Move({r}, {"open"}, "taken")
Start(r)  == stage[r] = "taken" /\ Move({r}, {"taken"}, "started")

\* Turned down, withdrawn or expired, at the latest before the start.
Refuse(R) == Move(R, {"new", "open", "taken"}, "refused")

PutBack(r) == stage[r] = "taken" /\ Move({r}, {"taken"}, "open")

Finish(r) ==
    stage[r] = "started" /\ \E s \in {"succeeded", "failed"} : Move({r}, {"started"}, s)

\* The outcome of a disputed request is whatever was written last.
Dispute(r) ==
    /\ Disputable
    /\ stage[r] \in {"started", "succeeded", "failed"}
    /\ \E s \in {"succeeded", "failed"} : Move({r}, {stage[r]}, s)

DNext ==
    \/ \E R \in SUBSET Request : Submit(R) \/ Refuse(R)
    \/ \E r \in Request : TakeUp(r) \/ PutBack(r) \/ Start(r) \/ Finish(r) \/ Dispute(r)

DSpec == DInit /\ [][DNext]_stage
=============================================================================
