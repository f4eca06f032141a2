------------------------------- MODULE MCParts -------------------------------
(***************************************************************************)
(* Instances of Healing, Chat, Backup and Schedules for TLC, in one run: a *)
(* behaviour is one of one component, of the kind that "part" names, and   *)
(* the variables of the others stay as they are.  The two kinds of Healing *)
(* and of Backup leave out what the other one looks at.                    *)
(***************************************************************************)
EXTENDS Healing, Chat, Backup, Schedules

CONSTANTS w, q, u, c1, c2, o1, o2, f1, f2, d, c

Healers   == {w, q}
Humans    == {u}
Clients   == {c1, c2}
Operators == {o1, o2}
Files     == {f1, f2}
Processes == {d, c}

\* Up before down, the overnight policy that never comes up, and one that has no up.
UpThenDown == [up |-> 0, down |-> 2, replicas |-> [up |-> 3, down |-> 1]]
DownThenUp == [up |-> 2, down |-> 1, replicas |-> [up |-> 3, down |-> 2]]
DownOnly   == [up |-> 3, down |-> 1, replicas |-> [up |-> 3, down |-> 1]]
EveryOrder == {UpThenDown, DownThenUp, DownOnly}

VARIABLE part

partsVars == <<part, healVars, chatVars, backupVars, scheduleVars>>

PartsInit ==
    /\ part \in {"threads", "people", "chat", "retention", "restore", "schedules"}
    /\ HealInit /\ ChatInit /\ BackupInit /\ ScheduleInit
    /\ part # "schedules" => policy = UpThenDown

(* The daemon's two threads and its death, on the one pod of a service     *)
(* that has no SLO; the on-call service answers, and so does the list of   *)
(* open incidents.                                                         *)
Threads ==
    /\ part = "threads"
    /\ \A p \in Pod \ {1} : pod'[p] = "none"
    /\ \A i \in Incident : incident'[i].burn = "none"
    /\ \A h \in Healer : job[h].at = "closePage" /\ job'[h] # job[h]
          => deaths' # deaths \/ torn' = torn
    /\ \A h \in Healer : job[h].at = "look" /\ job'[h].at = "act" => job'[h].inc # NoIncident
    /\ proposals' = {} /\ \A a \in Human : job'[a] = Free

(* Its watcher and a person, with one incident and rollouts; a fix is      *)
(* proposed for an incident.                                               *)
People ==
    /\ part = "people"
    /\ \A i \in Incident \ {1} : incident'[i].status = "none"
    /\ Cardinality(proposals') <= 1
    /\ \A fix \in proposals' : fix[2] # NoIncident
    /\ deaths' = 0 /\ polled'[q] = {}

Daemons == Threads \/ People
HealKinds == {"threads", "people"}

HealPart ==
    /\ part \in HealKinds /\ HealNext /\ Daemons
    /\ UNCHANGED <<part, chatVars, backupVars, scheduleVars>>

ChatPart ==
    /\ part = "chat" /\ ChatNext
    /\ UNCHANGED <<part, healVars, backupVars, scheduleVars>>

(* Many days with nothing restored, where two operators share the first    *)
(* three archives; or one day with few archives and versions.              *)
Retention ==
    /\ part = "retention"
    /\ version' <= 1 /\ \A o \in Operator : ~ op'[o].restore
    /\ op'[o2] = Ready \/ stamp' <= 3

Restoring ==
    /\ part = "restore"
    /\ today' = 0 /\ stamp' <= 3 /\ version' <= 2

BackupPart ==
    /\ part \in {"retention", "restore"} /\ BackupNext /\ (Retention \/ Restoring)
    /\ UNCHANGED <<part, healVars, chatVars, scheduleVars>>

(* Two entries on one day, or one over two days, when a person's calls are *)
(* of the first; deaths with the claim.                                    *)
SchedulePart ==
    /\ part = "schedules" /\ ScheduleNext
    /\ policy = DownOnly \/ day' = 1
    /\ run'[c].key[2] = 1
    /\ crashes' # crashes => \E p \in Processes : run[p].at = "scale" /\ run'[p] # run[p]
    /\ UNCHANGED <<part, healVars, chatVars, backupVars>>

PartsNext == HealPart \/ ChatPart \/ BackupPart \/ SchedulePart

PartsSpec ==
    /\ PartsInit /\ [][PartsNext]_partsVars
    /\ WF_healVars(part \in HealKinds /\ HealTick /\ Daemons)
    /\ WF_healVars(part \in HealKinds /\ HealerStep(Watcher) /\ Daemons)
=============================================================================
