------------------------------- MODULE Healing -------------------------------
(***************************************************************************)
(* The pods of one deployment, the healers that look after them and the    *)
(* incidents they open: skills/healer.py (_handle_crashloop and            *)
(* apply_crashloop_fix), skills/incident.py, skills/slo.py and their       *)
(* tables in daemon.db, incidents.db and slo.db.                           *)
(*                                                                         *)
(* The threads of the daemon (its pod watcher and its queue worker) share  *)
(* these tables with people who resolve incidents and approve fixes.       *)
(* Each call into a database is a step of its own.                         *)
(***************************************************************************)
EXTENDS Integers, FiniteSets

CONSTANTS
    Healer,       \* threads of the daemon that run _handle_crashloop()
    Watcher,      \* the one of them that polls the pods
    Human,        \* people at the dashboard, in Slack, at the command line
    MaxPods,      \* bound: names Kubernetes gives to pods
    MaxFixes,     \* _MAX_FIXES_BEFORE_ESCALATE
    Cooldown,     \* the cooldown of 30 minutes, in ticks
    MaxIncidents, \* bound: rows of the incidents table
    MaxDeaths     \* bound: deaths of the daemon

ASSUME HealAssumption ==
    /\ IsFiniteSet(Healer) /\ Watcher \in Healer /\ Healer \cap Human = {}
    /\ MaxPods \in Nat \ {0} /\ MaxFixes \in Nat \ {0} /\ Cooldown \in Nat
    /\ MaxIncidents \in Nat /\ MaxDeaths \in Nat

VARIABLES
    pod,        \* pod[p]: what Kubernetes knows of the pod named p
    polled,     \* polled[h]: the crashing pods h has read of and not yet handled
    fixes,      \* action_count of the pod's key in daemon_cooldowns
    age,        \* ticks since its last_action, at most Cooldown
    restarts,   \* history: rolling restarts made for the pod
    escalated,  \* history: pods a person was told of since they last crashed
    incident,   \* incident[i]: a row of incidents, its burn and its page
    proposals,  \* fixes waiting for an approval: a pod and an incident
    job,        \* job[a]: the call that a is in
    torn,       \* history: incidents with a call that failed or came across another
    deaths

healVars == <<pod, polled, fixes, age, restarts, escalated, incident,
              proposals, job, torn, deaths>>

Pod      == 1..MaxPods
Incident == 1..MaxIncidents
NoIncident == 0
Actor    == Healer \cup Human

Free == [at |-> "idle", pod |-> 1, count |-> 0, inc |-> NoIncident, ends |-> FALSE]

Stage == {"idle", "count", "look", "open", "burn", "note", "act", "verify",
          "applied", "resolve", "closePage", "endBurn"}

Row == [status : {"none", "open", "resolved"},
        burn   : {"none", "running", "noted", "ended"},
        paged  : BOOLEAN]

Call == [at : Stage, pod : Pod, count : Nat,
         inc : Incident \cup {NoIncident}, ends : BOOLEAN]

HealTypeOK ==
    /\ pod \in [Pod -> {"none", "ok", "crashing", "gone"}]
    /\ polled \in [Healer -> SUBSET Pod]
    /\ fixes \in [Pod -> Nat]
    /\ age \in [Pod -> 0..Cooldown]
    /\ restarts \in [Pod -> Nat]
    /\ escalated \in SUBSET Pod
    /\ incident \in [Incident -> Row]
    /\ proposals \in SUBSET (Pod \X (Incident \cup {NoIncident}))
    /\ job \in [Actor -> Call]
    /\ torn \in SUBSET Incident
    /\ deaths \in 0..MaxDeaths

HealInit ==
    /\ pod = [p \in Pod |-> IF p = 1 THEN "ok" ELSE "none"]
    /\ polled = [h \in Healer |-> {}]
    /\ fixes = [p \in Pod |-> 0]
    /\ age = [p \in Pod |-> Cooldown]
    /\ restarts = [p \in Pod |-> 0]
    /\ escalated = {}
    /\ incident = [i \in Incident |-> [status |-> "none", burn |-> "none", paged |-> FALSE]]
    /\ proposals = {}
    /\ job = [a \in Actor |-> Free]
    /\ torn = {}
    /\ deaths = 0

-----------------------------------------------------------------------------
(* Kubernetes.                                                             *)

Living == {p \in Pod : pod[p] \in {"ok", "crashing"}}
Crashing == {p \in Pod : pod[p] = "crashing"}

(* A container of a running pod starts to crash.                           *)
Crash(p) ==
    /\ pod[p] = "ok"
    /\ pod' = [pod EXCEPT ![p] = "crashing"]
    /\ escalated' = escalated \ {p}
    /\ UNCHANGED <<polled, fixes, age, restarts, incident, proposals, job, torn, deaths>>

(* What a rollout does to the pods: nothing (the command failed, or the    *)
(* owner is no deployment), or there is a pod with a new name.  When that  *)
(* one runs, all others go; when it crashes, they may go or the oldest     *)
(* stays for as long as the new one is not ready.                          *)
Rollout ==
    \/ pod' = pod
    \/ \E n \in Pod, state \in {"ok", "crashing"}, gone \in SUBSET Living :
        /\ pod[n] = "none" /\ \A q \in 1..(n - 1) : pod[q] # "none"
        /\ \/ gone = Living
           \/ /\ state = "crashing"
              /\ gone = {q \in Living : \E r \in Living : r < q}
        /\ pod' = [q \in Pod |-> IF q = n THEN state
                                 ELSE IF q \in gone THEN "gone" ELSE pod[q]]

HealTick ==
    /\ \E p \in Pod : age[p] < Cooldown
    /\ age' = [p \in Pod |-> IF age[p] < Cooldown THEN age[p] + 1 ELSE Cooldown]
    /\ UNCHANGED <<pod, polled, fixes, restarts, escalated, incident, proposals,
                   job, torn, deaths>>

-----------------------------------------------------------------------------
(* _handle_crashloop().                                                    *)

(* The watcher lists the pods; the queue worker takes an event that        *)
(* somebody enqueued for a crashing pod.                                   *)
Poll(h) ==
    /\ job[h].at = "idle" /\ polled[h] = {} /\ Crashing # {}
    /\ \/ h = Watcher /\ polled' = [polled EXCEPT ![h] = Crashing]
       \/ h # Watcher /\ \E p \in Crashing : polled' = [polled EXCEPT ![h] = {p}]
    /\ UNCHANGED <<pod, fixes, age, restarts, escalated, incident, proposals,
                   job, torn, deaths>>

\* Mutant: a pod that was ever healed counts as cooling down.
HandleOnce(h, p) ==
    /\ job[h].at = "idle" /\ p \in polled[h]
    /\ polled' = [polled EXCEPT ![h] = @ \ {p}]
    /\ job' = IF age[p] < Cooldown \/ fixes[p] > 0 THEN job
              ELSE [job EXCEPT ![h] = [Free EXCEPT !.at = "count", !.pod = p]]
    /\ UNCHANGED <<pod, fixes, age, restarts, escalated, incident, proposals, torn, deaths>>

Handle(h, p) ==
    /\ job[h].at = "idle" /\ p \in polled[h]
    /\ polled' = [polled EXCEPT ![h] = @ \ {p}]
    /\ \/ age[p] < Cooldown /\ job' = job
       \/ age[p] >= Cooldown /\ job' = [job EXCEPT ![h] = [Free EXCEPT !.at = "count", !.pod = p]]
    /\ UNCHANGED <<pod, fixes, age, restarts, escalated, incident, proposals,
                   torn, deaths>>

\* Mutant: the count is looked up under another key.
CountNothing(h) ==
    /\ job[h].at = "count"
    /\ job' = [job EXCEPT ![h].at = "look"]
    /\ UNCHANGED <<pod, polled, fixes, age, restarts, escalated, incident,
                   proposals, torn, deaths>>

\* Mutant: the fix that is about to be made is counted already.
CountAhead(h) ==
    /\ job[h].at = "count"
    /\ job' = [job EXCEPT ![h].at = "look", ![h].count = fixes[job[h].pod] + 1]
    /\ UNCHANGED <<pod, polled, fixes, age, restarts, escalated, incident,
                   proposals, torn, deaths>>

Count(h) ==
    /\ job[h].at = "count"
    /\ job' = [job EXCEPT ![h].at = "look", ![h].count = fixes[job[h].pod]]
    /\ UNCHANGED <<pod, polled, fixes, age, restarts, escalated, incident,
                   proposals, torn, deaths>>

Opened == {i \in Incident : incident[i].status = "open"}
Newest(i) == i \in Opened /\ \A j \in Opened : j <= i

\* Mutant: nobody looks for an open incident.
LookAway(h) ==
    /\ job[h].at = "look"
    /\ job' = [job EXCEPT ![h].at = "open"]
    /\ UNCHANGED <<pod, polled, fixes, age, restarts, escalated, incident,
                   proposals, torn, deaths>>

(* open_incident(): an open incident of the service is used again, or lost *)
(* to the healer when noting that in its timeline raises ...               *)
Look(h) ==
    /\ job[h].at = "look"
    /\ \/ \E i \in Incident, inc \in Incident \cup {NoIncident} :
            /\ Newest(i) /\ inc \in {i, NoIncident}
            /\ job' = [job EXCEPT ![h].at = "act", ![h].inc = inc]
       \/ Opened = {} /\ job' = [job EXCEPT ![h].at = "open"]
    /\ UNCHANGED <<pod, polled, fixes, age, restarts, escalated, incident,
                   proposals, torn, deaths>>

(* ... or a row is inserted.  An exception, before the row is there or     *)
(* after that, leaves the healer without one.                              *)
Open(h) ==
    /\ job[h].at = "open"
    /\ \/ \E i \in Incident :
            /\ incident[i].status = "none"
            /\ \A j \in 1..(i - 1) : incident[j].status # "none"
            /\ incident' = [incident EXCEPT ![i].status = "open"]
            /\ \/ job' = [job EXCEPT ![h].at = "burn", ![h].inc = i]
               \/ job' = [job EXCEPT ![h].at = "act"]
       \/ /\ job' = [job EXCEPT ![h].at = "act"]
          /\ UNCHANGED incident
    /\ UNCHANGED <<pod, polled, fixes, age, restarts, escalated, proposals,
                   torn, deaths>>

(* track_incident_burn(), after the Slack message has been posted; there   *)
(* may be no SLO for the service, or an exception.                         *)
Burn(h) ==
    /\ job[h].at = "burn"
    /\ \/ /\ incident' = [incident EXCEPT ![job[h].inc].burn = "running"]
          /\ job' = [job EXCEPT ![h].at = "note"]
       \/ /\ job' = [job EXCEPT ![h].at = "act"]
          /\ UNCHANGED incident
    /\ UNCHANGED <<pod, polled, fixes, age, restarts, escalated, proposals,
                   torn, deaths>>

\* Mutant: the burn's id is kept nowhere.
NoteNothing(h) ==
    /\ job[h].at = "note"
    /\ job' = [job EXCEPT ![h].at = "act"]
    /\ UNCHANGED <<pod, polled, fixes, age, restarts, escalated, incident,
                   proposals, torn, deaths>>

(* Its id goes into the timeline, the only place it is looked up in; an    *)
(* exception on the way there is logged.                                   *)
Note(h) ==
    /\ job[h].at = "note"
    /\ \/ /\ incident' = [incident EXCEPT ![job[h].inc].burn = "noted"]
          /\ UNCHANGED torn
       \/ /\ torn' = torn \cup {job[h].inc}
          /\ UNCHANGED incident
    /\ job' = [job EXCEPT ![h].at = "act"]
    /\ UNCHANGED <<pod, polled, fixes, age, restarts, escalated, proposals, deaths>>

(* Too many fixes: tell people, page them under the incident's id, and     *)
(* return without a cooldown.                                              *)
Escalate(h) ==
    /\ job[h].at = "act" /\ job[h].count >= MaxFixes
    /\ escalated' = escalated \cup {job[h].pod}
    /\ LET i == job[h].inc IN
       IF i = NoIncident THEN UNCHANGED <<incident, torn>>
       ELSE /\ incident' = [incident EXCEPT ![i].paged = TRUE]
            /\ torn' = IF incident[i].status = "resolved" THEN torn \cup {i} ELSE torn
    /\ job' = [job EXCEPT ![h] = Free]
    /\ UNCHANGED <<pod, polled, fixes, age, restarts, proposals, deaths>>

Restart(h) ==
    /\ job[h].at = "act" /\ job[h].count < MaxFixes
    /\ restarts' = [restarts EXCEPT ![job[h].pod] = @ + 1]
    /\ Rollout
    /\ job' = [job EXCEPT ![h].at = "verify", ![h].count = 0]
    /\ UNCHANGED <<polled, fixes, age, escalated, incident, proposals, torn, deaths>>

(* _verify_running() and set_cooldown().  The phase of a crash-looping pod *)
(* is Running most of the time and kubectl may fail, so either answer can  *)
(* come back whatever the pod does.  A fix may be proposed when it is no.  *)
Verify(h) ==
    /\ job[h].at = "verify"
    /\ LET p == job[h].pod
           i == job[h].inc
       IN  /\ fixes' = [fixes EXCEPT ![p] = @ + 1]
           /\ age' = [age EXCEPT ![p] = 0]
           /\ \/ /\ job' = [job EXCEPT ![h] = IF i = NoIncident THEN Free
                                              ELSE [Free EXCEPT !.at = "resolve", !.inc = i]]
                 /\ UNCHANGED proposals
              \/ /\ job' = [job EXCEPT ![h] = Free]
                 /\ proposals' \in {proposals, proposals \cup {<<p, i>>}}
    /\ UNCHANGED <<pod, polled, restarts, escalated, incident, torn, deaths>>

-----------------------------------------------------------------------------
(* resolve_incident(), the one path of healers and people.                 *)

Opening(a, i) == job[a].at \in {"burn", "note"} /\ job[a].inc = i
Resolving(a, i) == job[a].at \in {"resolve", "closePage", "endBurn"} /\ job[a].inc = i

(* The row is overwritten whatever its status; the timeline is read.       *)
Resolve(a) ==
    /\ job[a].at = "resolve"
    /\ LET i == job[a].inc IN
       /\ incident' = [incident EXCEPT ![i].status = "resolved"]
       /\ torn' = IF \E b \in Actor : Opening(b, i) THEN torn \cup {i} ELSE torn
       /\ job' = [job EXCEPT ![a].at = "closePage",
                             ![a].ends = incident[i].burn \in {"noted", "ended"}]
    /\ UNCHANGED <<pod, polled, fixes, age, restarts, escalated, proposals, deaths>>

(* The on-call service may not answer, which is logged, or the database    *)
(* may raise before it is called, which ends resolve_incident().           *)
ClosePage(a) ==
    /\ job[a].at = "closePage"
    /\ \/ /\ incident' = [incident EXCEPT ![job[a].inc].paged = FALSE]
          /\ job' = [job EXCEPT ![a].at = "endBurn"]
          /\ UNCHANGED torn
       \/ /\ torn' = torn \cup {job[a].inc}
          /\ job' \in {[job EXCEPT ![a].at = "endBurn"], [job EXCEPT ![a] = Free]}
          /\ UNCHANGED incident
    /\ UNCHANGED <<pod, polled, fixes, age, restarts, escalated, proposals, deaths>>

EndBurn(a) ==
    /\ job[a].at = "endBurn"
    /\ \/ /\ job[a].ends
          /\ incident' = [incident EXCEPT ![job[a].inc].burn = "ended"]
          /\ UNCHANGED torn
       \/ /\ torn' = IF job[a].ends THEN torn \cup {job[a].inc} ELSE torn
          /\ UNCHANGED incident
    /\ job' = [job EXCEPT ![a] = Free]
    /\ UNCHANGED <<pod, polled, fixes, age, restarts, escalated, proposals, deaths>>

(* The dashboard looks at the status before it resolves.                   *)
HumanResolves(u, i) ==
    /\ job[u].at = "idle" /\ incident[i].status = "open"
    /\ job' = [job EXCEPT ![u] = [Free EXCEPT !.at = "resolve", !.inc = i]]
    /\ UNCHANGED <<pod, polled, fixes, age, restarts, escalated, incident,
                   proposals, torn, deaths>>

(* An approved fix: apply_crashloop_fix() patches the deployment ...       *)
ApplyFix(u) ==
    /\ job[u].at = "idle"
    /\ \E fix \in proposals :
        /\ proposals' = proposals \ {fix}
        /\ job' = [job EXCEPT ![u] = [Free EXCEPT !.at = "applied",
                                                  !.pod = fix[1], !.inc = fix[2]]]
    /\ Rollout
    /\ UNCHANGED <<polled, fixes, age, restarts, escalated, incident, torn, deaths>>

(* ... and resolves the incident it was proposed for if the pod runs.      *)
VerifyFix(u) ==
    /\ job[u].at = "applied"
    /\ \/ job' = [job EXCEPT ![u] = Free]
       \/ /\ job[u].inc # NoIncident
          /\ job' = [job EXCEPT ![u] = [Free EXCEPT !.at = "resolve", !.inc = job[u].inc]]
    /\ UNCHANGED <<pod, polled, fixes, age, restarts, escalated, incident,
                   proposals, torn, deaths>>

-----------------------------------------------------------------------------
(* The daemon dies with all its threads and is started again.              *)
Die ==
    /\ deaths < MaxDeaths
    /\ deaths' = deaths + 1
    /\ torn' = torn \cup {i \in Incident :
                            \E h \in Healer : Opening(h, i) \/ Resolving(h, i)}
    /\ job' = [a \in Actor |-> IF a \in Healer THEN Free ELSE job[a]]
    /\ polled' = [h \in Healer |-> {}]
    /\ UNCHANGED <<pod, fixes, age, restarts, escalated, incident, proposals>>

HealerStep(h) ==
    \/ Poll(h) \/ \E p \in Pod : Handle(h, p)
    \/ Count(h) \/ Look(h) \/ Open(h) \/ Burn(h) \/ Note(h)
    \/ Escalate(h) \/ Restart(h) \/ Verify(h)
    \/ Resolve(h) \/ ClosePage(h) \/ EndBurn(h)

HumanStep(u) ==
    \/ \E i \in Incident : HumanResolves(u, i)
    \/ ApplyFix(u) \/ VerifyFix(u)
    \/ Resolve(u) \/ ClosePage(u) \/ EndBurn(u)

HealNext ==
    \/ \E p \in Pod : Crash(p)
    \/ HealTick
    \/ \E h \in Healer : HealerStep(h)
    \/ \E u \in Human : HumanStep(u)
    \/ Die

(* The watcher polls for as long as the daemon lives, and the supervisor   *)
(* restarts the daemon; its calls have timeouts.  People owe nothing.      *)
HealSpec ==
    HealInit /\ [][HealNext]_healVars
    /\ WF_healVars(HealTick) /\ WF_healVars(HealerStep(Watcher))

-----------------------------------------------------------------------------
(* Properties.                                                             *)

(* The three fixes of a pod can be exceeded only by the threads that had   *)
(* read the count before the others' fixes were counted, and by those a    *)
(* death of the daemon kept from counting theirs (healer.py:122, :192).    *)
RestartsBounded ==
    \A p \in Pod :
        restarts[p] <= MaxFixes + Cardinality(Healer) - 1 + deaths * Cardinality(Healer)

(* get_open_incident() and the insert are apart, so two openers can miss   *)
(* each other: but there is never more than one open incident per opener,  *)
(* and with a single healer there is one (incident.py:43).                 *)
OpenIncidentsBounded == Cardinality(Opened) <= Cardinality(Healer)

(* Nobody is told of a pod before that very pod had all its restarts,      *)
(* whatever deaths and other threads did to its count (healer.py:144).     *)
EscalationIsEarned == \A p \in escalated : restarts[p] >= MaxFixes

(* A resolved incident has its page closed and its burn ended once the     *)
(* resolving calls are over, unless one of them failed or was cut short by *)
(* a death, or it was resolved while its opener was still at it, or paged  *)
(* afterwards: nobody else takes a page or a burn from under it            *)
(* (incident.py:173: "close the on-call page, and end its SLO burn").      *)
ResolutionIsComplete ==
    \A i \in Incident \ torn :
        incident[i].status = "resolved" /\ (\A a \in Actor : ~ Resolving(a, i))
            => ~ incident[i].paged /\ incident[i].burn \notin {"running", "noted"}

(* A pod that crash-loops gets better, is replaced, or somebody is told of *)
(* it; a cooldown, a busy thread or a death only delays that.              *)
CrashingIsHandled ==
    \A p \in Pod : pod[p] = "crashing" ~> pod[p] # "crashing" \/ p \in escalated

=============================================================================
