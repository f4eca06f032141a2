---------------------------- MODULE MCEventQueue ----------------------------
(* Instances of EventQueue for TLC.                                          *)
EXTENDS EventQueue, TLC

CONSTANTS w1, w2

OneWorker  == {w1}
TwoWorkers == {w1, w2}

\* webhook.py enqueues with priority 2, the CLI with any.
Priorities == {1, 2}

\* `agent events enqueue` accepts any event type.
LastIsOrphan == {MaxEvents}
NoOrphan     == {}

Interchangeable == Permutations(TwoWorkers)
=============================================================================
