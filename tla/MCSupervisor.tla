----------------------------- MODULE MCSupervisor -----------------------------
(* Instances of Supervisor for TLC: 1 is ngrok, 2 is mcp.                    *)
EXTENDS Supervisor

CONSTANT MaxMishaps \* bound: all of them together

NgrokAndMcp   == 1..2
Tunnel        == {1}
McpNeedsNgrok == <<NoService, 1>>
OneHost       == {"a"}
TwoHosts      == {"a", "b"}

(* A child exits or hangs, a start or the loop raises, or the supervisor is  *)
(* killed: together, at most MaxMishaps times.                               *)
Mishaps   == faults + glitches + kills
LoopSpec  == Init /\ [][Next /\ Mishaps' <= MaxMishaps]_vars /\ WF_vars(Loop)
=============================================================================
