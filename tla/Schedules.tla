------------------------------ MODULE Schedules ------------------------------
(***************************************************************************)
(* The daily scale-down and scale-up of a deployment: apply_schedule() of  *)
(* skills/autoscale.py under the once-a-day claim of                       *)
(* integrations/daemon_db.py.  The daemon's schedule watcher runs it every *)
(* minute; the dashboard and `agent scale run` are processes of their own  *)
(* that run it when somebody asks.                                         *)
(***************************************************************************)
EXTENDS Integers, FiniteSets

CONSTANTS
    Process,   \* processes that run apply_schedule()
    Policies,  \* policies to look at: hours and replicas
    LastHour,  \* the hours of a day are 0..LastHour
    MaxDays,   \* bound
    MaxCrashes \* bound: deaths of a process during a call

Entry == {"up", "down"}

(* LastHour + 1 is the hour of an entry that the policy does not have.      *)
ASSUME ScheduleAssumption ==
    /\ IsFiniteSet(Process)
    /\ LastHour \in Nat /\ MaxDays \in Nat \ {0} /\ MaxCrashes \in Nat
    /\ Policies \subseteq
         [up : 0..(LastHour + 1), down : 0..(LastHour + 1), replicas : [Entry -> Nat]]

VARIABLES
    policy,    \* the policy of this behaviour
    day, hour, \* the time
    last,      \* last[k]: last_action in daemon_cooldowns
    run,       \* run[p]: the call p is in
    runs,      \* history: how often an entry of a day was begun under a claim
    ended,     \* history: how the last of those runs ended
    abandoned, \* history: keys of processes that died with the claim
    asked,     \* history: what was owed at the time of a call that got an answer
    crashes

scheduleVars ==
    <<policy, day, hour, last, run, runs, ended, abandoned, asked, crashes>>

(* A claim's key has the entry and the date.                               *)
Key   == Entry \X (1..MaxDays)
Time  == [day : 0..MaxDays, hour : 0..LastHour]
Never == [day |-> 0, hour |-> 0]

\* "read" is the claim's now_dt; history: "owed" is Owed at the call's `now`.
Resting == [at |-> "idle", key |-> <<"up", 1>>, owed |-> {}, read |-> Never]
ScheduleCall ==
    [at : {"idle", "claim", "insert", "scale"}, key : Key,
         owed : SUBSET Key, read : Time]

Outcome == {"done", "failed", "misread"}

ScheduleTypeOK ==
    /\ policy \in Policies
    /\ day \in 1..MaxDays /\ hour \in 0..LastHour
    /\ last \in [Key -> Time]
    /\ run \in [Process -> ScheduleCall]
    /\ runs \in [Key -> Nat] /\ ended \in [Key -> Outcome \cup {"none"}]
    /\ abandoned \in SUBSET Key /\ asked \in SUBSET Key
    /\ crashes \in 0..MaxCrashes

ScheduleInit ==
    /\ policy \in Policies
    /\ day = 1 /\ hour = 0
    /\ last = [k \in Key |-> Never]
    /\ run = [p \in Process |-> Resting]
    /\ runs = [k \in Key |-> 0] /\ ended = [k \in Key |-> "none"]
    /\ abandoned = {} /\ asked = {}
    /\ crashes = 0

(* Time passes whether or not anybody polls and also during a call: a      *)
(* machine asleep is several of these steps with no other between them.    *)
(* At the bound, the last day does not end.                                *)
HourPasses ==
    /\ \/ hour < LastHour /\ hour' = hour + 1 /\ day' = day
       \/ hour = LastHour /\ day < MaxDays /\ hour' = 0 /\ day' = day + 1
    /\ UNCHANGED <<policy, last, run, runs, ended, abandoned, asked, crashes>>

\* Mutant: the check before schedule_due(), equality with the scheduled time.
DueExactly(at) == hour = at

(* schedule_due(): an entry stays due from its hour to the end of the day. *)
Due(at) == hour >= at

(* What the policy, not the code, asks of the present hour.  With the      *)
(* scale-down first the scale-up is never reached (autoscale.py:96).       *)
Owed ==
    {k \in Entry \X {day} :
        \/ k[1] = "down" /\ policy.down <= hour
        \/ k[1] = "up" /\ policy.up <= hour /\ hour < policy.down}

AskClaim(p, e) ==
    /\ run' = [run EXCEPT ![p] =
                 [at |-> "claim", key |-> <<e, day>>, owed |-> Owed, read |-> Never]]
    /\ UNCHANGED asked

(* The branches of apply_schedule(): down first, up only otherwise.        *)
Wake(p) ==
    /\ run[p].at = "idle"
    /\ \/ Due(policy.down) /\ AskClaim(p, "down")
       \/ ~ Due(policy.down) /\ Due(policy.up) /\ AskClaim(p, "up")
       \/ /\ ~ Due(policy.down) /\ ~ Due(policy.up)
          /\ asked' = asked \cup Owed /\ UNCHANGED run
    /\ UNCHANGED <<policy, day, hour, last, runs, ended, abandoned, crashes>>

(* p's call gets an answer other than an exception of the database.        *)
Round(p) ==
    /\ run' = [run EXCEPT ![p] = Resting]
    /\ asked' = asked \cup run[p].owed

(* A claim holds for 24 hours.                                             *)
Held(k) ==
    /\ last[k] # Never
    /\ \/ last[k].day = day
       \/ last[k].day = day - 1 /\ hour < last[k].hour

Proceed(p) ==
    /\ run' = [run EXCEPT ![p].at = "insert", ![p].read = [day |-> day, hour |-> hour]]
    /\ UNCHANGED asked

\* Mutant: what the SELECT found is not looked at.
ClaimReadBlind(p) ==
    /\ run[p].at = "claim"
    /\ Proceed(p)
    /\ UNCHANGED <<policy, day, hour, last, runs, ended, abandoned, crashes>>

(* claim_once(): the SELECT, and the time now_dt ...                       *)
ClaimRead(p) ==
    /\ run[p].at = "claim"
    /\ IF Held(run[p].key) THEN Round(p) ELSE Proceed(p)
    /\ UNCHANGED <<policy, day, hour, last, runs, ended, abandoned, crashes>>

(* ... and the upsert, under a lock that other processes do not share.     *)
ClaimInsert(p) ==
    /\ run[p].at = "insert"
    /\ last' = [last EXCEPT ![run[p].key] = run[p].read]
    /\ run' = [run EXCEPT ![p].at = "scale", ![p].read = Never]
    /\ UNCHANGED <<policy, day, hour, runs, ended, abandoned, asked, crashes>>

(* An exception of the database counts as claimed: the call does nothing.  *)
ClaimFails(p) ==
    /\ run[p].at \in {"claim", "insert"}
    /\ run' = [run EXCEPT ![p] = Resting]
    /\ UNCHANGED <<policy, day, hour, last, runs, ended, abandoned, asked, crashes>>

(* How the winner's kubectl calls end: the replicas are as they should be, *)
(* or scaling them fails, or reading them does and counts as one replica,  *)
(* which the winner takes for a target of one.  Nothing repeats the run.   *)
Scale(p) ==
    /\ run[p].at = "scale"
    /\ LET k == run[p].key
       IN  /\ runs' = [runs EXCEPT ![k] = @ + 1]
           /\ \E o \in Outcome :
                /\ o = "misread" => policy.replicas[k[1]] = 1
                /\ ended' = [ended EXCEPT ![k] = o]
    /\ Round(p)
    /\ UNCHANGED <<policy, day, hour, last, abandoned, crashes>>

ProcessDies(p) ==
    /\ run[p].at # "idle" /\ crashes < MaxCrashes
    /\ crashes' = crashes + 1
    /\ abandoned' = IF run[p].at = "scale" THEN abandoned \cup {run[p].key} ELSE abandoned
    /\ run' = [run EXCEPT ![p] = Resting]
    /\ UNCHANGED <<policy, day, hour, last, runs, ended, asked>>

ScheduleNext ==
    \/ HourPasses
    \/ \E p \in Process :
        \/ Wake(p) \/ ClaimRead(p) \/ ClaimInsert(p) \/ ClaimFails(p)
        \/ Scale(p) \/ ProcessDies(p)

ScheduleSpec == ScheduleInit /\ [][ScheduleNext]_scheduleVars

-----------------------------------------------------------------------------
(* Properties.                                                             *)

(* On its day, an entry is begun at most once by each process: the claim's *)
(* lock orders the threads of one process and nothing orders two processes *)
(* (daemon_db.py:222).  Later, a call that began on that day and was held  *)
(* up until the claim's 24 hours are over adds one more for each process.  *)
WinnersBounded ==
    \A k \in Key :
        runs[k] <= IF k[2] = day THEN Cardinality(Process) ELSE 2 * Cardinality(Process)

\* The deployment was scaled, or kubectl failed, or the claimant died or is at it.
Settled(k) ==
    \/ ended[k] = "done"
    \/ ended[k] \in {"failed", "misread"}
    \/ k \in abandoned
    \/ \E p \in Process : run[p].at = "scale" /\ run[p].key = k

(* One call that gets an answer, however late in the day (autoscale.py:25) *)
(* and however many others were missed, leaves nothing undone that was due *)
(* at its time, but for a failure of kubectl or a death with the claim:    *)
(* another process's claim, one that expired or a day that ended in the    *)
(* middle never hides an entry that nobody carries out.                    *)
OneCallIsEnough == \A k \in asked : Settled(k)

=============================================================================
