------------------------------ MODULE MCHealing ------------------------------
(* An instance of Healing for TLC: one healer, one incident, and a           *)
(* deployment whose pods crash whatever is done.                             *)
EXTENDS Healing, Functions

CONSTANT w

OneHealer == {w}
Nobody    == {}

(* "After 3 failed attempts, escalate to Slack/PagerDuty and stop            *)
(* retrying" (healer.py:116): a deployment is not restarted more often than  *)
(* that, whatever names its pods have.                                       *)
StopsRetrying == FoldFunction(+, 0, restarts) <= MaxFixes
=============================================================================
