--------------------------- MODULE SupervisorProofs ---------------------------
(***************************************************************************)
(* Theorems about Supervisor, for every number of services, every bound and *)
(* every setting of its delays.                                              *)
(***************************************************************************)
EXTENDS Supervisor, TLAPS

\* _schedule_restart() keeps the delays within BackoffMax.
LEMMA ScheduledType ==
  ASSUME NEW r \in Runtime, NEW why \in State
  PROVE  Scheduled(r, why) \in Runtime
<1>1. NextBackoff(r) \in 0..BackoffMax
  BY SupervisorAssumption DEF NextBackoff, KeptBackoff, Least, Runtime
<1> QED
  BY <1>1 DEF Scheduled, Runtime

\* Time passing keeps a runtime's types.
LEMMA OlderType ==
  ASSUME NEW r \in Runtime
  PROVE  Older(r) \in Runtime
<1>1. (IF r.wait = 0 THEN 0 ELSE r.wait - 1) \in 0..BackoffMax
  BY SupervisorAssumption DEF Runtime
<1>2. (IF r.up < 0 THEN r.up ELSE Least(StableAfter, r.up + 1)) \in -1..StableAfter
  BY SupervisorAssumption DEF Runtime, Least
<1>3. Least(HealthInterval, r.since + 1) \in Nat
  BY SupervisorAssumption DEF Runtime, Least
<1>4. (IF r.waited < 0 THEN r.waited ELSE Least(DepWait, r.waited + 1)) \in -1..DepWait
  BY SupervisorAssumption DEF Runtime, Least
<1> QED
  BY <1>1, <1>2, <1>3, <1>4 DEF Older, Runtime

\* A service whose child was started has a typed record.
LEMMA StartedType ==
  ASSUME NEW r \in Runtime
  PROVE  Started(r) \in Runtime
<1>1. "running" \in State /\ 0 \in -1..StableAfter /\ 0 \in Nat /\ -1 \in -1..DepWait
  BY SupervisorAssumption DEF State
<1> QED
  BY <1>1 DEF Started, Runtime

\* A service whose start failed has a typed record.
LEMMA FailedType ==
  ASSUME NEW r \in Runtime
  PROVE  Failed(r) \in Runtime
<1>1. r.fails + 1 \in Nat
  BY DEF Runtime
<1> QED
  BY <1>1 DEF Failed, Runtime

\* A service that was never started has a typed record.
LEMMA FreshType == Fresh \in Runtime
BY SupervisorAssumption DEF Fresh, Runtime, State

\* The wait recorded on entry to _start() or "waiting" stays within DepWait.
LEMMA EnteredType ==
  ASSUME TypeOK, NEW s \in Service
  PROVE  /\ Entered(s) \in Runtime
         /\ Waited(s) \in 0..DepWait
BY SupervisorAssumption DEF TypeOK, Entered, Waited, Runtime

\* What the end of a visit does to anything but the runtime it visits.
LEMMA LeaveEffect ==
  ASSUME TypeOK, NEW s \in Service, NEW r, NEW c \in {"none", "exited"} \cup Alive,
         NEW h \in SUBSET Service, Leave(s, r, c, h), Visiting(s)
  PROVE  /\ phase = "loop" /\ phase' = "loop" /\ at = s /\ at' \in 0..(NumServices + 1)
         /\ child' \in [Service -> {"none", "exited"} \cup Alive]
         /\ healthy' \subseteq Service /\ recorded' \subseteq Service
         /\ UNCHANGED <<host, stopFile, orphan, stray, faults, kills>>
<1>1. s + 1 \in 0..(NumServices + 1)
  BY SupervisorAssumption DEF Service
<1> QED
  BY <1>1 DEF TypeOK, Leave, Visiting, left

\* What a visit does to anything but the runtime it visits.
LEMMA VisitEffect ==
  ASSUME TypeOK, NEW s \in Service, Visit(s)
  PROVE  /\ phase = "loop" /\ phase' = "loop" /\ at = s /\ at' \in 0..(NumServices + 1)
         /\ child' \in [Service -> {"none", "exited"} \cup Alive]
         /\ healthy' \subseteq Service /\ recorded' \subseteq Service
         /\ UNCHANGED <<host, stopFile, orphan, stray, faults, kills>>
<1>0. /\ healthy \in SUBSET Service /\ healthy \cup {s} \in SUBSET Service
      /\ healthy \ {s} \in SUBSET Service
      /\ child[s] \in {"none", "exited"} \cup Alive
      /\ "none" \in {"none", "exited"} \cup Alive
      /\ "silent" \in {"none", "exited"} \cup Alive
  BY DEF TypeOK, Alive
<1>1. CASE NoticeExit(s)
  BY <1>0, <1>1, LeaveEffect DEF NoticeExit
<1>2. CASE LeaveAlone(s)
  <2>1. (IF s \in Probed THEN healthy ELSE healthy \cup {s}) \in SUBSET Service
    BY <1>0
  <2> QED
    BY <1>0, <1>2, <2>1, LeaveEffect DEF LeaveAlone
<1>3. CASE ProbeAnswered(s)
  BY <1>0, <1>3, LeaveEffect DEF ProbeAnswered
<1>4. CASE ProbeInGrace(s)
  BY <1>0, <1>4, LeaveEffect DEF ProbeInGrace
<1>5. CASE ProbeFailed(s)
  BY <1>0, <1>5, LeaveEffect DEF ProbeFailed
<1>6. CASE BackOff(s)
  BY <1>0, <1>6, LeaveEffect DEF BackOff
<1>7. CASE AwaitDependency(s)
  BY <1>0, <1>7, LeaveEffect DEF AwaitDependency
<1>8. CASE StartUnavailable(s)
  BY <1>0, <1>8, LeaveEffect DEF StartUnavailable, Ready
<1>9. CASE StartFails(s)
  BY <1>0, <1>9, LeaveEffect DEF StartFails, Ready
<1>10. CASE StartSucceeds(s)
  BY <1>0, <1>10, LeaveEffect DEF StartSucceeds, Ready
<1>11. CASE StartRaises(s)
  <2>1. 0 \in 0..(NumServices + 1)
    BY SupervisorAssumption
  <2>2. /\ healthy' = healthy \/ healthy' = healthy \ {s}
        /\ child' = child \/ child' = [child EXCEPT ![s] = "silent"]
        /\ Visiting(s) /\ at' = 0
        /\ UNCHANGED <<phase, host, stopFile, recorded, orphan, stray, faults, kills>>
    BY <1>11 DEF StartRaises, Ready, left
  <2> QED
    BY <1>0, <2>1, <2>2 DEF Visiting, TypeOK
<1> QED
  BY <1>1, <1>2, <1>3, <1>4, <1>5, <1>6, <1>7, <1>8, <1>9, <1>10, <1>11 DEF Visit

\* A visit changes the environment used and the count of glitches within types.
LEMMA VisitCounts ==
  ASSUME TypeOK, NEW s \in Service, Visit(s)
  PROVE  envUsed' \in [Service -> Host \cup {NoHost}] /\ glitches' \in Nat
<1>1. /\ envUsed' = envUsed \/ envUsed' = [envUsed EXCEPT ![s] = Env(s)]
      /\ glitches' = glitches \/ glitches' = glitches + 1
  BY DEF Visit, NoticeExit, LeaveAlone, ProbeAnswered, ProbeInGrace, ProbeFailed, BackOff,
         AwaitDependency, StartUnavailable, StartFails, StartSucceeds, StartRaises, Glitch
<1>2. Env(s) \in Host \cup {NoHost}
  BY DEF Env, TypeOK
<1> QED
  BY <1>1, <1>2 DEF TypeOK

\* A visit leaves a well-typed runtime.
LEMMA VisitRuntime ==
  ASSUME TypeOK, NEW s \in Service, Visit(s)
  PROVE  rt' \in [Service -> Runtime]
<1>0. /\ rt \in [Service -> Runtime] /\ rt[s] \in Runtime
      /\ Entered(s) \in Runtime /\ Waited(s) \in -1..DepWait
      /\ 0 \in 0..BackoffMax /\ BackoffMax \in 0..BackoffMax
      /\ {"reconfiguring", "waiting", "unavailable", "crashed", "unhealthy", "failed"} \subseteq State
  BY EnteredType, SupervisorAssumption DEF TypeOK, State
<1> USE <1>0 DEF Leave
<1>1. CASE NoticeExit(s)
  <2>1. Scheduled(rt[s], "crashed") \in Runtime
    BY ScheduledType
  <2> QED
    BY <1>1, <2>1 DEF NoticeExit
<1>2. CASE LeaveAlone(s)
  BY <1>2 DEF LeaveAlone
<1>3. CASE ProbeAnswered(s)
  <2>1. [rt[s] EXCEPT !.since = 0, !.fails = 0] \in Runtime
    BY DEF Runtime
  <2>2. [[rt[s] EXCEPT !.since = 0, !.fails = 0]
            EXCEPT !.state = "reconfiguring", !.wait = 0] \in Runtime
    BY DEF Runtime
  <2> QED
    BY <1>3, <2>1, <2>2 DEF ProbeAnswered
<1>4. CASE ProbeInGrace(s)
  <2>1. [rt[s] EXCEPT !.since = 0] \in Runtime
    BY DEF Runtime
  <2> QED
    BY <1>4, <2>1 DEF ProbeInGrace
<1>5. CASE ProbeFailed(s)
  <2>1. Failed(rt[s]) \in Runtime
    BY FailedType
  <2>2. Scheduled(Failed(rt[s]), "unhealthy") \in Runtime
    BY <2>1, ScheduledType
  <2> QED
    BY <1>5, <2>1, <2>2 DEF ProbeFailed
<1>6. CASE BackOff(s)
  BY <1>6 DEF BackOff
<1>7. CASE AwaitDependency(s)
  <2>1. [rt[s] EXCEPT !.state = "waiting", !.waited = Waited(s)] \in Runtime
    BY DEF Runtime
  <2> QED
    BY <1>7, <2>1 DEF AwaitDependency
<1>8. CASE StartUnavailable(s)
  <2>1. [Entered(s) EXCEPT !.state = "unavailable", !.wait = BackoffMax] \in Runtime
    BY DEF Runtime
  <2> QED
    BY <1>8, <2>1 DEF StartUnavailable
<1>9. CASE StartFails(s)
  <2>1. Scheduled(Entered(s), "failed") \in Runtime
    BY ScheduledType
  <2> QED
    BY <1>9, <2>1 DEF StartFails
<1>10. CASE StartSucceeds(s)
  <2>1. Started(rt[s]) \in Runtime
    BY StartedType
  <2> QED
    BY <1>10, <2>1 DEF StartSucceeds
<1>11. CASE StartRaises(s)
  <2>1. Started(rt[s]) \in Runtime
    BY StartedType
  <2> QED
    BY <1>11, <2>1 DEF StartRaises
<1> QED
  BY <1>1, <1>2, <1>3, <1>4, <1>5, <1>6, <1>7, <1>8, <1>9, <1>10, <1>11 DEF Visit

\* The loop's memory, the processes and the files keep the types of TypeOK:
\* among others, no delay ever exceeds BackoffMax.
THEOREM TypeCorrect == Spec => []TypeOK
<1>1. Init => TypeOK
  BY FreshType, SupervisorAssumption DEF Init, TypeOK, Alive
<1>2. TypeOK /\ [Next]_vars => TypeOK'
  <2> SUFFICES ASSUME TypeOK, [Next]_vars PROVE TypeOK'
    OBVIOUS
  <2>0. /\ 0 \in 0..(NumServices + 1) /\ 1 \in 0..(NumServices + 1)
        /\ NumServices \in 0..(NumServices + 1)
    BY SupervisorAssumption
  <2>1. ASSUME NEW s \in Service, Visit(s) PROVE TypeOK'
    BY <2>1, VisitEffect, VisitRuntime, VisitCounts DEF TypeOK
  <2>2. ASSUME NEW s \in Service, ShutDown(s) PROVE TypeOK'
    <3>1. at - 1 \in 0..(NumServices + 1)
      BY <2>2, SupervisorAssumption DEF ShutDown, TypeOK
    <3>2. [rt[s] EXCEPT !.state = "stopped"] \in Runtime
      BY DEF TypeOK, Runtime, State
    <3>3. rt' \in [Service -> Runtime]
      BY <2>2, <3>2 DEF ShutDown, TypeOK
    <3> QED
      BY <2>2, <3>1, <3>3 DEF ShutDown, TypeOK, left, counts
  <2>3. CASE Enter
    BY <2>3 DEF Enter, TypeOK, memory, left, counts
  <2>4. CASE Wake
    <3>1. rt' \in [Service -> Runtime]
      BY <2>4, OlderType DEF Wake, TypeOK
    <3> QED
      BY <2>0, <2>4, <3>1 DEF Wake, TypeOK, left, counts
  <2>5. CASE WriteState
    <3>1. glitches' \in Nat
      BY <2>5 DEF WriteState, Glitch, TypeOK
    <3>2. recorded' \subseteq Service
      BY <2>5 DEF WriteState, TypeOK
    <3> QED
      BY <2>0, <2>5, <3>1, <3>2 DEF WriteState, TypeOK, memory, left
  <2>6. CASE StopSeen
    BY <2>0, <2>6 DEF StopSeen, TypeOK, memory, left, counts
  <2>7. CASE Off
    BY <2>7, FreshType DEF Off, Forget, TypeOK, left, counts
  <2>8. CASE SuperviseRun
    BY <2>8 DEF SuperviseRun, TypeOK, memory, counts
  <2>9. CASE SuperviseStop
    BY <2>9 DEF SuperviseStop, TypeOK, memory, left, counts
  <2>10. CASE Interrupt
    BY <2>0, <2>10 DEF Interrupt, TypeOK, memory, left, counts
  <2>11. CASE HardKill
    BY <2>0, <2>11, FreshType DEF HardKill, Forget, TypeOK
  <2>12. ASSUME NEW s \in Service, Hang(s) \/ Exit(s) PROVE TypeOK'
    BY <2>12 DEF Hang, Exit, Fault, TypeOK, Alive, memory, left
  <2>13. ASSUME NEW s \in Service, OrphanEnds(s) PROVE TypeOK'
    BY <2>13 DEF OrphanEnds, TypeOK, memory, counts
  <2>14. ASSUME NEW s \in Service, NEW h \in Host, Answer(s, h) PROVE TypeOK'
    BY <2>14 DEF Answer, TypeOK, Alive, memory, left, counts
  <2>15. CASE UNCHANGED vars
    BY <2>15 DEF vars, TypeOK, memory, left, counts
  <2> QED
    BY <2>1, <2>2, <2>3, <2>4, <2>5, <2>6, <2>7, <2>8, <2>9, <2>10, <2>11, <2>12, <2>13,
       <2>14, <2>15 DEF Next, Loop
<1> QED
  BY <1>1, <1>2, PTL DEF Spec

-----------------------------------------------------------------------------
(* What is down while the supervisor stops: the services above `at`, which    *)
(* shutdown() has passed already; and nothing starts them again.              *)

StoppedAbove == phase = "stop" => \A s \in Service : s > at => child[s] = "none"

DownInv == OffMeansDown /\ StoppedAbove

\* Every reachable state satisfies the invariant of services switched off.
LEMMA DownInvariant == Spec => []DownInv
<1> USE DEF DownInv, OffMeansDown, StoppedAbove
<1>1. Init => DownInv
  BY DEF Init
<1>2. TypeOK /\ DownInv /\ [Next]_vars => DownInv'
  <2> SUFFICES ASSUME TypeOK, DownInv, [Next]_vars PROVE DownInv'
    OBVIOUS
  <2>1. ASSUME NEW s \in Service, Visit(s) PROVE DownInv'
    BY <2>1, VisitEffect
  <2>2. ASSUME NEW s \in Service, ShutDown(s) PROVE DownInv'
    <3>1. \A t \in Service : t > at - 1 => t = s \/ t > at
      BY <2>2, SupervisorAssumption, SMTT(30) DEF ShutDown, StopOrder, TypeOK, Service
    <3> QED
      BY <2>2, <3>1 DEF ShutDown, TypeOK
  <2>3. CASE Enter
    BY <2>3 DEF Enter
  <2>4. CASE Wake
    BY <2>4 DEF Wake
  <2>5. CASE WriteState
    BY <2>5 DEF WriteState
  <2>6. CASE StopSeen \/ Interrupt
    <3>1. \A s \in Service : ~ (s > NumServices)
      BY SupervisorAssumption DEF Service
    <3> QED
      BY <2>6, <3>1 DEF StopSeen, Interrupt
  <2>7. CASE Off
    <3>1. \A s \in Service : s > 0
      BY SupervisorAssumption DEF Service
    <3> QED
      BY <2>7, <3>1 DEF Off
  <2>8. CASE SuperviseRun
    BY <2>8 DEF SuperviseRun
  <2>9. CASE SuperviseStop
    BY <2>9 DEF SuperviseStop
  <2>10. CASE HardKill
    BY <2>10 DEF HardKill
  <2>11. ASSUME NEW s \in Service, Hang(s) \/ Exit(s) PROVE DownInv'
    BY <2>11 DEF Hang, Exit, Fault, Alive, TypeOK
  <2>12. ASSUME NEW s \in Service, OrphanEnds(s) PROVE DownInv'
    BY <2>12 DEF OrphanEnds
  <2>13. ASSUME NEW s \in Service, NEW h \in Host, Answer(s, h) PROVE DownInv'
    BY <2>13 DEF Answer, TypeOK
  <2>14. CASE UNCHANGED vars
    BY <2>14 DEF vars
  <2> QED
    BY <2>1, <2>2, <2>3, <2>4, <2>5, <2>6, <2>7, <2>8, <2>9, <2>10, <2>11, <2>12, <2>13,
       <2>14 DEF Next, Loop
<1> QED
  BY <1>1, <1>2, TypeCorrect, PTL DEF Spec

\* A supervisor that is off has left no child of its own behind, however it was
\* stopped; only a hard kill makes orphans.
THEOREM CleanStop == Spec => []OffMeansDown
BY DownInvariant, PTL DEF DownInv

\* shutdown() ends a dependent before the service it depends on.
THEOREM DependentsStopFirst == Spec => StopsInOrder
<1>1. TypeOK /\ DownInv /\ [Next]_vars =>
        [\A s, t \in Service :
            /\ phase = "stop" /\ child[s] # "none" /\ child'[s] = "none"
            /\ DependsOn[t] = s
            => phase' = "off" \/ child[t] = "none"]_vars
  <2> SUFFICES ASSUME TypeOK, DownInv, Next, phase = "stop", phase' # "off",
                      NEW s \in Service, NEW t \in Service, DependsOn[t] = s,
                      child[s] # "none", child'[s] = "none"
               PROVE  child[t] = "none"
    BY DEF vars
  <2>1. PICK u \in Service : ShutDown(u)
    <3>1. ~ \E u \in Service : Visit(u)
      BY VisitEffect
    <3>2. ~ (\E u \in Service : Hang(u) \/ Exit(u)) /\ ~ (\E u \in Service, h \in Host : Answer(u, h))
      BY DEF Hang, Exit, Fault, Answer, TypeOK
    <3> QED
      BY <3>1, <3>2 DEF Next, Loop, Enter, Wake, WriteState, StopSeen, Off, SuperviseRun,
                        SuperviseStop, Interrupt, HardKill, OrphanEnds
  <2>2. at = s
    BY <2>1 DEF ShutDown, StopOrder, TypeOK
  <2>3. t > s
    BY SupervisorAssumption DEF Service
  <2> QED
    BY <2>2, <2>3 DEF DownInv, StoppedAbove
<1> QED
  BY <1>1, TypeCorrect, DownInvariant, PTL DEF Spec, StopsInOrder
-----------------------------------------------------------------------------
(* What the state file names: every live child, whenever no pass is under way *)
(* and no write or start has failed.                                          *)

RecordInv ==
    at = 0 /\ glitches = 0 => \A s \in Service : child[s] \in Alive => s \in recorded

\* A visit leaves the pass under way, or is counted as a glitch.
LEMMA VisitPasses ==
  ASSUME TypeOK, NEW s \in Service, Visit(s)
  PROVE  at' # 0 \/ glitches' > 0
<1>1. s + 1 # 0 /\ glitches \in Nat
  BY SupervisorAssumption DEF Service, TypeOK
<1> QED
  BY <1>1 DEF Visit, NoticeExit, LeaveAlone, ProbeAnswered, ProbeInGrace, ProbeFailed,
     BackOff, AwaitDependency, StartUnavailable, StartFails, StartSucceeds, StartRaises,
     Glitch, Leave

\* Every reachable state satisfies the invariant of the state file.
LEMMA RecordInvariant == Spec => []RecordInv
<1> USE DEF RecordInv
<1>1. Init => RecordInv
  BY DEF Init, Alive
<1>2. TypeOK /\ DownInv /\ DownInv' /\ RecordInv /\ [Next]_vars => RecordInv'
  <2> SUFFICES ASSUME TypeOK, DownInv, DownInv', RecordInv, [Next]_vars PROVE RecordInv'
    OBVIOUS
  <2>1. ASSUME NEW s \in Service, Visit(s) PROVE RecordInv'
    BY <2>1, VisitPasses
  <2>2. ASSUME NEW s \in Service, ShutDown(s) PROVE RecordInv'
    <3>1. phase' = "stop" /\ \A t \in Service : t > 0
      BY <2>2, SupervisorAssumption DEF ShutDown, Service
    <3> QED
      BY <3>1 DEF DownInv, StoppedAbove, Alive
  <2>3. CASE WriteState
    <3>1. glitches' = glitches => recorded' = {s \in Service : child[s] # "none"}
      BY <2>3 DEF WriteState, Glitch, TypeOK
    <3>2. glitches' = glitches \/ glitches' > 0
      BY <2>3 DEF WriteState, Glitch, TypeOK
    <3>3. child' = child
      BY <2>3 DEF WriteState
    <3> QED
      BY <3>1, <3>2, <3>3, <2>3 DEF WriteState, Alive, TypeOK, Glitch
  <2>4. CASE Wake \/ StopSeen \/ Interrupt
    BY <2>4, SupervisorAssumption DEF Wake, StopSeen, Interrupt
  <2>5. CASE Enter \/ Off \/ SuperviseRun \/ SuperviseStop
    BY <2>5 DEF Enter, Off, SuperviseRun, SuperviseStop, memory, counts
  <2>6. CASE HardKill
    BY <2>6 DEF HardKill, Alive
  <2>7. ASSUME NEW s \in Service, Hang(s) \/ Exit(s) PROVE RecordInv'
    BY <2>7 DEF Hang, Exit, Fault, Alive, TypeOK
  <2>8. ASSUME NEW s \in Service, NEW h \in Host, Answer(s, h) PROVE RecordInv'
    BY <2>8 DEF Answer, Alive, TypeOK, counts
  <2>9. ASSUME NEW s \in Service, OrphanEnds(s) PROVE RecordInv'
    BY <2>9 DEF OrphanEnds, counts
  <2>10. CASE UNCHANGED vars
    BY <2>10 DEF vars, counts
  <2> QED
    BY <2>1, <2>2, <2>3, <2>4, <2>5, <2>6, <2>7, <2>8, <2>9, <2>10 DEF Next, Loop
<1> QED
  BY <1>1, <1>2, TypeCorrect, DownInvariant, PTL DEF Spec

\* A supervisor killed between two passes leaves no process behind that the state
\* file does not name, for every number of services and whatever they do, unless a
\* write of the file or a start has failed.
THEOREM StraysAreKnown == Spec => StraysAreUnrecorded
<1>1. TypeOK /\ RecordInv /\ [Next]_vars => [stray' \subseteq stray \/ at # 0 \/ glitches > 0]_vars
  <2> SUFFICES ASSUME TypeOK, RecordInv, Next, at = 0, ~ (glitches > 0)
               PROVE  stray' \subseteq stray
    OBVIOUS
  <2>1. glitches = 0
    BY DEF TypeOK
  <2>2. CASE HardKill
    BY <2>1, <2>2 DEF HardKill, RecordInv
  <2>3. CASE \E s \in Service : OrphanEnds(s)
    BY <2>3 DEF OrphanEnds
  <2>4. CASE \E s \in Service : Visit(s)
    BY <2>4, VisitEffect
  <2> QED
    BY <2>2, <2>3, <2>4 DEF Next, Loop, Enter, Wake, WriteState, StopSeen, Off, ShutDown,
       SuperviseRun, SuperviseStop, Interrupt, Hang, Exit, Fault, Answer, left
<1> QED
  BY <1>1, TypeCorrect, RecordInvariant, PTL DEF Spec, StraysAreUnrecorded
-----------------------------------------------------------------------------
(* What the loop believes of a process: a healthy service has one, and until   *)
(* it stops, a service has one exactly if its state is "running".              *)

HealthInv ==
    \A s \in Service :
        /\ s \in healthy => phase \in {"loop", "stop"} /\ child[s] # "none"
        /\ phase # "stop" => (child[s] # "none" <=> rt[s].state = "running")

\* What a visit to s makes of its health and its state.
LEMMA VisitHealth ==
  ASSUME TypeOK, HealthInv, NEW s \in Service, Visit(s)
  PROVE  /\ s \in healthy' => child'[s] # "none"
         /\ child'[s] # "none" <=> rt'[s].state = "running"
         /\ healthy' \ {s} = healthy \ {s}
         /\ \A t \in Service \ {s} : child'[t] = child[t] /\ rt'[t] = rt[t]
<1>0. /\ child \in [Service -> {"none", "exited"} \cup Alive] /\ rt \in [Service -> Runtime]
      /\ phase = "loop" => (child[s] # "none" <=> rt[s].state = "running")
      /\ s \in healthy => child[s] # "none"
  BY DEF TypeOK, HealthInv
<1>1. CASE NoticeExit(s)
  <2>1. Scheduled(rt[s], "crashed").state = "crashed"
    BY <1>0 DEF Scheduled, Runtime
  <2> QED
    BY <1>0, <1>1, <2>1 DEF NoticeExit, Leave
<1>2. CASE LeaveAlone(s)
  BY <1>0, <1>2 DEF LeaveAlone, Leave, Visiting, Alive
<1>3. CASE ProbeAnswered(s)
  BY <1>0, <1>3 DEF ProbeAnswered, Leave, Visiting, Runtime
<1>4. CASE ProbeInGrace(s)
  BY <1>0, <1>4 DEF ProbeInGrace, Leave, Visiting, Runtime
<1>5. CASE ProbeFailed(s)
  <2>1. /\ Scheduled(Failed(rt[s]), "unhealthy").state = "unhealthy"
        /\ Failed(rt[s]).state = rt[s].state
    BY <1>0 DEF Scheduled, Failed, Runtime
  <2> QED
    BY <1>0, <1>5, <2>1 DEF ProbeFailed, Leave, Visiting
<1>6. CASE BackOff(s) \/ AwaitDependency(s)
  <2> DEFINE waiting == [rt[s] EXCEPT !.state = "waiting", !.waited = Waited(s)]
  <2>1. /\ phase = "loop" /\ child[s] = "none"
        /\ child' = [child EXCEPT ![s] = "none"] /\ healthy' = healthy
        /\ rt' = [rt EXCEPT ![s] = rt[s]] \/ rt' = [rt EXCEPT ![s] = waiting]
    BY <1>6 DEF BackOff, AwaitDependency, Visiting, Leave
  <2>2. waiting.state = "waiting"
    BY <1>0 DEF Runtime
  <2> HIDE DEF waiting
  <2>3. rt'[s].state \in {rt[s].state, "waiting"} /\ \A t \in Service \ {s} : rt'[t] = rt[t]
    BY <1>0, <2>1, <2>2
  <2> QED
    BY <1>0, <2>1, <2>3
<1>7. CASE StartUnavailable(s) \/ StartFails(s)
  <2>1. Entered(s) \in Runtime /\ Entered(s).state = rt[s].state
    BY EnteredType, <1>0 DEF Entered, Runtime
  <2>2. /\ [Entered(s) EXCEPT !.state = "unavailable", !.wait = BackoffMax].state = "unavailable"
        /\ Scheduled(Entered(s), "failed").state = "failed"
    BY <2>1 DEF Scheduled, Runtime
  <2> QED
    BY <1>0, <1>7, <2>2 DEF StartUnavailable, StartFails, Ready, Leave, Visiting
<1>8. CASE StartSucceeds(s) \/ StartRaises(s)
  <2>1. Started(rt[s]).state = "running" /\ Entered(s).state = rt[s].state
    BY <1>0 DEF Started, Entered, Runtime
  <2> QED
    BY <1>0, <1>8, <2>1 DEF StartSucceeds, StartRaises, Ready, Leave, Visiting
<1> QED
  BY <1>1, <1>2, <1>3, <1>4, <1>5, <1>6, <1>7, <1>8 DEF Visit

\* Every reachable state satisfies the invariant of what the loop believes.
LEMMA HealthInvariant == Spec => []HealthInv
<1>1. Init => HealthInv
  BY DEF Init, HealthInv, Fresh
<1>2. TypeOK /\ DownInv /\ HealthInv /\ [Next]_vars => HealthInv'
  <2> SUFFICES ASSUME TypeOK, DownInv, HealthInv, [Next]_vars PROVE HealthInv'
    OBVIOUS
  <2>1. ASSUME NEW s \in Service, Visit(s) PROVE HealthInv'
    BY <2>1, VisitHealth, VisitEffect DEF HealthInv
  <2>2. ASSUME NEW s \in Service, ShutDown(s) PROVE HealthInv'
    BY <2>2 DEF ShutDown, HealthInv, TypeOK
  <2>3. CASE Enter
    <3>1. \A s \in Service : child[s] = "none" /\ s \notin healthy
      BY <2>3 DEF Enter, DownInv, OffMeansDown, HealthInv
    <3> QED
      BY <2>3, <3>1 DEF Enter, HealthInv, memory
  <2>4. CASE Wake
    <3>1. \A s \in Service : Older(rt[s]).state = rt[s].state
      BY DEF Older, TypeOK, Runtime
    <3> QED
      BY <2>4, <3>1 DEF Wake, HealthInv
  <2>5. CASE WriteState \/ StopSeen \/ Interrupt \/ SuperviseStop
    BY <2>5 DEF WriteState, StopSeen, Interrupt, SuperviseStop, HealthInv, memory
  <2>6. CASE Off \/ HardKill
    <3>1. CASE Off
      <4>1. \A s \in Service : child[s] = "none"
        BY <3>1, SupervisorAssumption DEF Off, DownInv, StoppedAbove, Service
      <4> QED
        BY <3>1, <4>1 DEF Off, Forget, HealthInv, Fresh
    <3>2. CASE HardKill
      BY <3>2 DEF HardKill, Forget, HealthInv, Fresh
    <3> QED
      BY <2>6, <3>1, <3>2
  <2>7. CASE SuperviseRun
    BY <2>7 DEF SuperviseRun, HealthInv, memory
  <2>8. ASSUME NEW s \in Service, Hang(s) \/ Exit(s) PROVE HealthInv'
    BY <2>8 DEF Hang, Exit, Fault, Alive, TypeOK, HealthInv, memory
  <2>9. CASE \E s \in Service : OrphanEnds(s)
    BY <2>9 DEF OrphanEnds, HealthInv, memory
  <2>10. ASSUME NEW s \in Service, NEW h \in Host, Answer(s, h) PROVE HealthInv'
    BY <2>10 DEF Answer, TypeOK, HealthInv, memory
  <2>11. CASE UNCHANGED vars
    BY <2>11 DEF vars, HealthInv, memory
  <2> QED
    BY <2>1, <2>2, <2>3, <2>4, <2>5, <2>6, <2>7, <2>8, <2>9, <2>10, <2>11 DEF Next, Loop
<1> QED
  BY <1>1, <1>2, TypeCorrect, DownInvariant, PTL DEF Spec

\* No service is started before the one it depends on, for any number of services
\* and any dependencies, however children fail and whatever the loop believes.
THEOREM DependenciesStartFirst == Spec => StartsAfterDependency
<1>1. TypeOK /\ HealthInv /\ [Next]_vars =>
        [\A s \in Service :
            child[s] = "none" /\ child'[s] # "none" /\ DependsOn[s] # NoService
            => \/ child[DependsOn[s]] # "none"
               \/ rt[DependsOn[s]].state = "unavailable"
               \/ Waited(s) >= DepWait]_vars
  <2> SUFFICES ASSUME TypeOK, HealthInv, Next, NEW s \in Service, DependsOn[s] # NoService,
                      child[s] = "none", child'[s] # "none"
               PROVE  \/ child[DependsOn[s]] # "none"
                      \/ rt[DependsOn[s]].state = "unavailable"
                      \/ Waited(s) >= DepWait
    BY DEF vars
  <2>1. PICK u \in Service : Visit(u)
    <3>1. ~ (\E u \in Service : Hang(u) \/ Exit(u)) /\ ~ (\E u \in Service, h \in Host : Answer(u, h))
      BY DEF Hang, Exit, Fault, Answer, TypeOK, Alive
    <3>2. ~ \E u \in Service : ShutDown(u)
      BY DEF ShutDown, TypeOK
    <3> QED
      BY <3>1, <3>2 DEF Next, Loop, Enter, Wake, WriteState, StopSeen, Off, SuperviseRun,
                        SuperviseStop, Interrupt, HardKill, OrphanEnds
  <2>2. u = s
    BY <2>1, VisitHealth
  <2>3. StartSucceeds(s) \/ StartRaises(s)
    BY <2>1, <2>2 DEF Visit, NoticeExit, LeaveAlone, ProbeAnswered, ProbeInGrace, ProbeFailed,
       BackOff, AwaitDependency, StartUnavailable, StartFails, Leave, TypeOK, Alive
  <2>4. ~ Missing(s) \/ ~ (Waited(s) < DepWait)
    BY <2>3 DEF StartSucceeds, StartRaises, Ready, MustWait
  <2>5. Waited(s) \in 0..DepWait /\ DepWait \in Nat /\ DependsOn[s] \in Service
    BY EnteredType, SupervisorAssumption
  <2> QED
    BY <2>4, <2>5 DEF Missing, HealthInv
<1> QED
  BY <1>1, TypeCorrect, HealthInvariant, PTL DEF Spec, StartsAfterDependency
=============================================================================
