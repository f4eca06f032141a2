------------------------------ MODULE Supervisor ------------------------------
(***************************************************************************)
(* `agent supervise` (core/supervisor.py): one loop that starts the child   *)
(* processes ngrok, mcp and daemon, notices that they exit or hang, restarts *)
(* them with backoff, gives mcp the tunnel's hostname and stops them in      *)
(* reverse order.  The children, the operator and the machine act between    *)
(* any two visits of a pass.  Times count loop ticks, relative to now; a     *)
(* pass takes no time of its own, the sleep after it takes one tick.         *)
(***************************************************************************)
EXTENDS Integers

CONSTANTS
    NumServices,     \* services, in the order of default_services()
    Probed,          \* those with a health check
    DependsOn,       \* [Service -> the service it waits for, or NoService]
    Optional,        \* those whose command() may find no executable
    Host,            \* hostnames the tunnel can get
    NoHost,
    HealthInterval,  \* between health checks, once there was a verdict
    FirstInterval,   \* between health checks until then
    HealthFailures,  \* checks in a row that must fail
    Grace,           \* after a start, failures do not count
    BackoffBase, BackoffMax,
    StableAfter,     \* a run this long resets the backoff
    DepWait,         \* longest wait for a dependency
    MaxFaults,       \* bound: exits and hangs of children
    MaxGlitches,     \* bound: exceptions in the loop, failed starts
    MaxKills         \* bound: supervisors killed hard

NoService == 0
Service   == 1..NumServices
Alive     == {"silent", "answering"}

ASSUME SupervisorAssumption ==
    /\ NumServices \in Nat \ {0}
    /\ Probed \subseteq Service
    /\ Optional \subseteq Service
    /\ DependsOn \in [Service -> Service \cup {NoService}]
    /\ \A s \in Service : DependsOn[s] < s
    /\ NoHost \notin Host
    /\ HealthInterval \in Nat /\ FirstInterval \in 0..HealthInterval /\ HealthFailures \in Nat \ {0}
    /\ BackoffBase \in Nat \ {0} /\ BackoffMax \in Nat \ {0}
    /\ StableAfter \in Nat /\ Grace \in 0..StableAfter /\ DepWait \in Nat
    /\ MaxFaults \in Nat /\ MaxGlitches \in Nat /\ MaxKills \in Nat

VARIABLES
    phase,     \* of the supervisor: off, starting, loop, stop
    at,        \* the service visited next; 0: between passes
    rt,        \* [Service -> _Runtime]
    healthy,   \* the services with rt.healthy
    child,     \* [Service -> the process in rt.proc]
    envUsed,   \* [Service -> the hostname it was started with]
    host,      \* the tunnel's hostname
    stopFile,  \* data/supervisor.stop: "absent" or "present"
    recorded,  \* the services whose process data/supervisor.json names
    orphan,    \* processes of a killed supervisor that the file names
    stray,     \* those that it does not name
    faults, glitches, kills

memory == <<rt, healthy, envUsed>>
left   == <<orphan, stray>>
counts == <<faults, glitches, kills>>
vars   == <<phase, at, memory, child, host, stopFile, recorded, left, counts>>

State == {"pending", "running", "crashed", "unhealthy", "failed", "unavailable",
          "waiting", "reconfiguring", "stopped"}

\* up and waited are -1 for None; up, since and waited stop at the largest
\* value anything compares them with.
Runtime ==
    [state : State, backoff : 0..BackoffMax, wait : 0..BackoffMax,
     up : -1..StableAfter, fails : Nat,
     since : Nat, waited : -1..DepWait]

\* The types of the loop's memory, the processes and the files.
TypeOK ==
    /\ phase \in {"off", "starting", "loop", "stop"}
    /\ at \in 0..(NumServices + 1)
    /\ rt \in [Service -> Runtime]
    /\ healthy \subseteq Service
    /\ child \in [Service -> {"none", "exited"} \cup Alive]
    /\ envUsed \in [Service -> Host \cup {NoHost}]
    /\ host \in Host
    /\ stopFile \in {"absent", "present"}
    /\ recorded \subseteq Service
    /\ orphan \subseteq Service
    /\ stray \subseteq Service
    /\ faults \in Nat /\ glitches \in Nat /\ kills \in Nat

Fresh ==
    [state |-> "pending", backoff |-> 0, wait |-> 0, up |-> -1, fails |-> 0,
     since |-> 0, waited |-> -1]

Init ==
    /\ phase = "off"
    /\ at = 0
    /\ rt = [s \in Service |-> Fresh]
    /\ healthy = {}
    /\ child = [s \in Service |-> "none"]
    /\ envUsed = [s \in Service |-> NoHost]
    /\ host \in Host
    /\ stopFile = "absent"
    /\ recorded = {}
    /\ orphan = {}
    /\ stray = {}
    /\ faults = 0 /\ glitches = 0 /\ kills = 0

Least(a, b) == IF a < b THEN a ELSE b

-----------------------------------------------------------------------------
(* The children: they start to answer, stop answering or exit.               *)

\* ngrok, the service others depend on, may come up under another hostname.
Answer(s, h) ==
    /\ child[s] = "silent"
    /\ child' = [child EXCEPT ![s] = "answering"]
    /\ h = host \/ \E t \in Service : DependsOn[t] = s
    /\ host' = h
    /\ UNCHANGED <<phase, at, memory, stopFile, recorded, left, counts>>

Fault(s, becomes) ==
    /\ faults < MaxFaults
    /\ faults' = faults + 1
    /\ child' = [child EXCEPT ![s] = becomes]
    /\ UNCHANGED <<phase, at, memory, host, stopFile, recorded, left, glitches, kills>>

Hang(s) == child[s] = "answering" /\ Fault(s, "silent")
Exit(s) == child[s] \in Alive /\ Fault(s, "exited")

-----------------------------------------------------------------------------
(* What a visit does to one _Runtime.                                        *)

KeptBackoff(r) == IF r.up >= StableAfter THEN 0 ELSE r.backoff

\* Mutant: the delay grows without limit.
NextBackoffUncapped(r) == IF KeptBackoff(r) = 0 THEN BackoffBase ELSE 2 * KeptBackoff(r)

NextBackoff(r) ==
    Least(BackoffMax, IF KeptBackoff(r) = 0 THEN BackoffBase ELSE 2 * KeptBackoff(r))

\* _schedule_restart()
Scheduled(r, why) ==
    [r EXCEPT !.backoff = NextBackoff(r), !.wait = NextBackoff(r), !.state = why]

\* _start(), when Popen succeeds.
Started(r) ==
    [r EXCEPT !.state = "running", !.up = 0, !.fails = 0, !.since = 0, !.waited = -1]

\* Mutant: a failed check is not counted.
FailedUncounted(r) == [r EXCEPT !.since = 0]

Failed(r) == [r EXCEPT !.since = 0, !.fails = @ + 1]

Older(r) ==
    [r EXCEPT !.wait = IF @ = 0 THEN 0 ELSE @ - 1,
              !.up = IF @ < 0 THEN @ ELSE Least(StableAfter, @ + 1),
              !.since = Least(HealthInterval, @ + 1),
              !.waited = IF @ < 0 THEN @ ELSE Least(DepWait, @ + 1)]

\* The environment a service would be started with now.
Env(s) ==
    IF DependsOn[s] # NoService /\ child[DependsOn[s]] = "answering" THEN host ELSE NoHost

\* Mutant: the test of the dependency's health is inverted.
DriftedInverted(s) ==
    /\ DependsOn[s] # NoService => DependsOn[s] \notin healthy
    /\ Env(s) # envUsed[s]

Drifted(s) ==
    /\ DependsOn[s] # NoService => DependsOn[s] \in healthy
    /\ Env(s) # envUsed[s]

Due(s) ==
    rt[s].since >= IF s \notin healthy /\ rt[s].fails = 0 THEN FirstInterval ELSE HealthInterval

Missing(s) ==
    /\ DependsOn[s] # NoService
    /\ DependsOn[s] \notin healthy
    /\ rt[DependsOn[s]].state # "unavailable"

\* waiting_since or now
Waited(s) == IF rt[s].waited < 0 THEN 0 ELSE rt[s].waited
-----------------------------------------------------------------------------
(* One pass: step() visits the services in order, then write_state().        *)

\* The sleep, the test for the stop file and the start of a pass.
Wake ==
    /\ phase = "loop" /\ at = 0
    /\ stopFile = "absent"
    /\ at' = 1
    /\ rt' = [s \in Service |-> Older(rt[s])]
    /\ UNCHANGED <<phase, healthy, envUsed, child, host, stopFile, recorded, left, counts>>

\* The visit ends with the runtime r, the process c and the healthy services h.
Leave(s, r, c, h) ==
    /\ at' = s + 1
    /\ rt' = [rt EXCEPT ![s] = r]
    /\ child' = [child EXCEPT ![s] = c]
    /\ healthy' = h
    /\ recorded' = IF c = "none" THEN recorded \ {s} ELSE recorded
    /\ UNCHANGED <<phase, host, stopFile, left, faults, kills>>

Visiting(s) == phase = "loop" /\ at = s

\* Mutant: a service that exited keeps its health.
NoticeExitHealthy(s) ==
    /\ Visiting(s)
    /\ child[s] = "exited"
    /\ Leave(s, Scheduled(rt[s], "crashed"), "none", healthy)
    /\ UNCHANGED <<envUsed, glitches>>

NoticeExit(s) ==
    /\ Visiting(s)
    /\ child[s] = "exited"
    /\ Leave(s, Scheduled(rt[s], "crashed"), "none", healthy \ {s})
    /\ UNCHANGED <<envUsed, glitches>>

\* No health check, or not yet time for one.
LeaveAlone(s) ==
    /\ Visiting(s)
    /\ child[s] \in Alive
    /\ s \in Probed => ~ Due(s)
    /\ Leave(s, rt[s], child[s], IF s \in Probed THEN healthy ELSE healthy \cup {s})
    /\ UNCHANGED <<envUsed, glitches>>

ProbeAnswered(s) ==
    /\ Visiting(s)
    /\ child[s] = "answering" /\ s \in Probed /\ Due(s)
    /\ LET r == [rt[s] EXCEPT !.since = 0, !.fails = 0]
       IN  IF Drifted(s) THEN Leave(s, [r EXCEPT !.state = "reconfiguring", !.wait = 0], "none", healthy \ {s})
                         ELSE Leave(s, r, child[s], healthy \cup {s})
    /\ UNCHANGED <<envUsed, glitches>>

ProbeInGrace(s) ==
    /\ Visiting(s)
    /\ child[s] = "silent" /\ s \in Probed /\ Due(s)
    /\ rt[s].up < Grace
    /\ Leave(s, [rt[s] EXCEPT !.since = 0], child[s], healthy)
    /\ UNCHANGED <<envUsed, glitches>>

ProbeFailed(s) ==
    /\ Visiting(s)
    /\ child[s] = "silent" /\ s \in Probed /\ Due(s)
    /\ rt[s].up >= Grace
    /\ LET r == Failed(rt[s])
       IN  IF r.fails >= HealthFailures
           THEN Leave(s, Scheduled(r, "unhealthy"), "none", healthy \ {s})
           ELSE Leave(s, r, child[s], healthy \ {s})
    /\ UNCHANGED <<envUsed, glitches>>

BackOff(s) ==
    /\ Visiting(s)
    /\ child[s] = "none"
    /\ rt[s].wait > 0
    /\ Leave(s, rt[s], "none", healthy)
    /\ UNCHANGED <<envUsed, glitches>>

\* Mutant: the wait for the dependency starts anew at every visit.
MustWaitAnew(s) == Missing(s) /\ DepWait > 0

MustWait(s) == Missing(s) /\ Waited(s) < DepWait

AwaitDependency(s) ==
    /\ Visiting(s)
    /\ child[s] = "none" /\ rt[s].wait = 0
    /\ MustWait(s)
    /\ Leave(s, [rt[s] EXCEPT !.state = "waiting", !.waited = Waited(s)], "none", healthy)
    /\ UNCHANGED <<envUsed, glitches>>

\* The runtime on entry to _start(): waiting_since is set when the wait is over.
Ready(s) ==
    /\ Visiting(s)
    /\ child[s] = "none" /\ rt[s].wait = 0
    /\ ~ MustWait(s)

Entered(s) == IF Missing(s) THEN [rt[s] EXCEPT !.waited = Waited(s)] ELSE rt[s]

StartUnavailable(s) ==
    /\ Ready(s)
    /\ s \in Optional
    /\ Leave(s, [Entered(s) EXCEPT !.state = "unavailable", !.wait = BackoffMax], "none", healthy)
    /\ UNCHANGED <<envUsed, glitches>>

Glitch == glitches < MaxGlitches /\ glitches' = glitches + 1

\* Popen raises OSError.
StartFails(s) ==
    /\ Ready(s)
    /\ Glitch
    /\ Leave(s, Scheduled(Entered(s), "failed"), "none", healthy)
    /\ UNCHANGED envUsed

StartSucceeds(s) ==
    /\ Ready(s)
    /\ Leave(s, Started(rt[s]), "silent", healthy \ {s})
    /\ envUsed' = [envUsed EXCEPT ![s] = Env(s)]
    /\ UNCHANGED glitches

\* The log cannot be opened, or the pid file not be written: the exception ends
\* the pass, before or after the child was started, and no state is written.
StartRaises(s) ==
    /\ Ready(s)
    /\ Glitch
    /\ at' = 0
    /\ \/ /\ rt' = [rt EXCEPT ![s] = Entered(s)]
          /\ UNCHANGED <<child, healthy, envUsed>>
       \/ /\ rt' = [rt EXCEPT ![s] = Started(rt[s])]
          /\ child' = [child EXCEPT ![s] = "silent"]
          /\ healthy' = healthy \ {s}
          /\ envUsed' = [envUsed EXCEPT ![s] = Env(s)]
    /\ UNCHANGED <<phase, host, stopFile, recorded, left, faults, kills>>

\* Mutant: only services that have passed a health check are recorded.
WriteStateHealthy ==
    /\ phase = "loop" /\ at = NumServices + 1
    /\ at' = 0
    /\ recorded' = healthy
    /\ UNCHANGED <<phase, memory, child, host, stopFile, left, counts>>

\* write_state(); the write may be dropped or raise.
WriteState ==
    /\ phase = "loop" /\ at = NumServices + 1
    /\ at' = 0
    /\ \/ /\ recorded' = {s \in Service : child[s] # "none"}
          /\ UNCHANGED glitches
       \/ /\ Glitch
          /\ UNCHANGED recorded
    /\ UNCHANGED <<phase, memory, child, host, stopFile, left, faults, kills>>
-----------------------------------------------------------------------------
(* Start and stop (`agent supervise run` and `stop`), and hard kills.        *)

Forget ==
    /\ rt' = [s \in Service |-> Fresh]
    /\ healthy' = {}
    /\ UNCHANGED envUsed

\* running_supervisor_pid() finds none; kill_orphans() and the pid file.
SuperviseRun ==
    /\ phase = "off"
    /\ phase' = "starting"
    /\ orphan' = {}
    /\ UNCHANGED <<at, memory, child, host, stopFile, recorded, stray, counts>>

\* run() removes a stop file before its loop.
Enter ==
    /\ phase = "starting"
    /\ phase' = "loop"
    /\ stopFile' = "absent"
    /\ UNCHANGED <<at, memory, child, host, recorded, left, counts>>

SuperviseStop ==
    /\ phase # "off"
    /\ stopFile = "absent"
    /\ stopFile' = "present"
    /\ UNCHANGED <<phase, at, memory, child, host, recorded, left, counts>>

\* Mutant: the last service is forgotten.
StopSeenShort ==
    /\ phase = "loop"
    /\ at = 0 /\ stopFile = "present"
    /\ phase' = "stop"
    /\ at' = NumServices - 1
    /\ UNCHANGED <<memory, child, host, stopFile, recorded, left, counts>>

\* The loop sees the stop file, or is interrupted anywhere: shutdown().
StopSeen ==
    /\ phase = "loop"
    /\ at = 0 /\ stopFile = "present"
    /\ phase' = "stop"
    /\ at' = NumServices
    /\ UNCHANGED <<memory, child, host, stopFile, recorded, left, counts>>

Interrupt ==
    /\ phase = "loop"
    /\ phase' = "stop"
    /\ at' = NumServices
    /\ UNCHANGED <<memory, child, host, stopFile, recorded, left, counts>>

\* Mutant: the services are stopped in the order in which they were started.
StopOrderForward(s) == s = NumServices + 1 - at

StopOrder(s) == s = at

ShutDown(s) ==
    /\ phase = "stop" /\ at > 0
    /\ StopOrder(s)
    /\ at' = at - 1
    /\ child' = [child EXCEPT ![s] = "none"]
    /\ healthy' = healthy \ {s}
    /\ rt' = [rt EXCEPT ![s].state = "stopped"]
    /\ recorded' = recorded \ {s}
    /\ UNCHANGED <<phase, envUsed, host, stopFile, left, counts>>

Off ==
    /\ phase = "stop" /\ at = 0
    /\ phase' = "off"
    /\ stopFile' = "absent"
    /\ Forget
    /\ UNCHANGED <<at, child, host, recorded, left, counts>>

\* SIGKILL, SIGTERM or TerminateProcess: the children live on.
HardKill ==
    /\ phase # "off"
    /\ kills < MaxKills
    /\ kills' = kills + 1
    /\ phase' = "off"
    /\ at' = 0
    /\ LET alive == {s \in Service : child[s] \in Alive}
       IN  /\ orphan' = orphan \cup (alive \cap recorded)
           /\ stray' = stray \cup (alive \ recorded)
    /\ child' = [s \in Service |-> "none"]
    /\ recorded' = {}
    /\ Forget
    /\ UNCHANGED <<host, stopFile, faults, glitches>>

\* An orphan ends by itself.
OrphanEnds(s) ==
    /\ s \in orphan \cup stray
    /\ orphan' = orphan \ {s}
    /\ stray' = stray \ {s}
    /\ UNCHANGED <<phase, at, memory, child, host, stopFile, recorded, counts>>

-----------------------------------------------------------------------------

Visit(s) ==
    \/ NoticeExit(s) \/ LeaveAlone(s)
    \/ ProbeAnswered(s) \/ ProbeInGrace(s) \/ ProbeFailed(s)
    \/ BackOff(s) \/ AwaitDependency(s)
    \/ StartUnavailable(s) \/ StartFails(s) \/ StartSucceeds(s) \/ StartRaises(s)

Loop ==
    \/ Enter \/ Wake \/ WriteState \/ StopSeen \/ Off
    \/ \E s \in Service : Visit(s) \/ ShutDown(s)

Next ==
    \/ Loop
    \/ SuperviseRun \/ SuperviseStop \/ Interrupt \/ HardKill
    \/ \E s \in Service : Hang(s) \/ Exit(s) \/ OrphanEnds(s)
    \/ \E s \in Service, h \in Host : Answer(s, h)

Spec == Init /\ [][Next]_vars

\* The loop keeps running: every wait in it has a timeout.
FairSpec == Spec /\ WF_vars(Loop)

-----------------------------------------------------------------------------
(* Properties.                                                               *)

\* "MCP goes down before the tunnel that feeds it": while the supervisor stops,
\* a service is stopped only when no process of a dependent is left.
StopsInOrder ==
    [][\A s, t \in Service :
          /\ phase = "stop" /\ child[s] # "none" /\ child'[s] = "none"
          /\ DependsOn[t] = s
          => phase' = "off" \/ child[t] = "none"]_vars

\* "stops cleanly (children included)": an orphan is the trace of a hard kill.
OffMeansDown == phase \in {"off", "starting"} => \A s \in Service : child[s] = "none"

\* A supervisor killed while it sleeps leaves no process behind that the next
\* start does not know of and end, unless a write or a start of a child failed.
StraysAreUnrecorded == [][stray' \subseteq stray \/ at # 0 \/ glitches > 0]_vars

\* "depends_on": a service is started only while the one it depends on has a
\* process, however old the health check is, unless it has waited for it long
\* enough or there is no executable to wait for.
StartsAfterDependency ==
    [][\A s \in Service :
          child[s] = "none" /\ child'[s] # "none" /\ DependsOn[s] # NoService
          => \/ child[DependsOn[s]] # "none"
             \/ rt[DependsOn[s]].state = "unavailable"
             \/ Waited(s) >= DepWait]_vars

\* "restarts a service that is running but hung": it answers again, or its
\* process is ended.
HungIsRestarted ==
    \A s \in Probed : child[s] = "silent" ~> child[s] # "silent"

\* "restarts a service that exits": whatever the backoff and the dependency, it
\* is started again unless its executable is missing or the supervisor ends.
ExitedIsRestarted ==
    \A s \in Service :
        phase = "loop" /\ child[s] \notin Alive
          ~> phase # "loop" \/ child[s] \in Alive \/ rt[s].state = "unavailable"

\* "restarting MCP if that hostname changes": once every service keeps answering,
\* each runs with the hostname it would be started with.
ConfigurationFollows ==
    <>[](phase = "loop" /\ stopFile = "absent" /\ \A s \in Probed : child[s] = "answering")
      => <>[](\A s \in Probed : envUsed[s] = Env(s))

\* "a run that stayed up long enough counts as recovered": the backoff is reset
\* only when a run of StableAfter ends.
ResetIsEarned ==
    [][\A s \in Service :
          rt'[s].backoff < rt[s].backoff /\ phase' # "off" => child[s] # "none"]_vars
=============================================================================
