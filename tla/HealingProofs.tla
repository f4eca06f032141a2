---------------------------- MODULE HealingProofs ----------------------------
(***************************************************************************)
(* Theorems about Healing, for any number of healers, people, pods and     *)
(* incidents, any threshold, cooldown and number of deaths.                *)
(***************************************************************************)
EXTENDS Healing, FiniteSetTheorems, TLAPS

\* The calls that an actor begins with are typed.
LEMMA FreeIsTyped ==
  /\ Free \in Call /\ Free.at = "idle" /\ Free.inc = NoIncident
  /\ \A p \in Pod : [Free EXCEPT !.at = "count", !.pod = p] \in Call
  /\ \A i \in Incident \cup {NoIncident} :
       /\ [Free EXCEPT !.at = "resolve", !.inc = i] \in Call
       /\ \A p \in Pod : [Free EXCEPT !.at = "applied", !.pod = p, !.inc = i] \in Call
<1>1. 1 \in Pod /\ NoIncident \in Incident \cup {NoIncident} /\ 0 \in Nat
  BY HealAssumption DEF Pod
<1> QED
  BY <1>1 DEF Free, Call, Stage

\* Changes of single fields.
LEMMA CallUpdate ==
  ASSUME NEW j \in Call
  PROVE  \A at \in Stage :
           /\ [j EXCEPT !.at = at] \in Call
           /\ \A n \in Nat : [j EXCEPT !.at = at, !.count = n] \in Call
           /\ \A i \in Incident \cup {NoIncident} : [j EXCEPT !.at = at, !.inc = i] \in Call
           /\ \A b \in BOOLEAN : [j EXCEPT !.at = at, !.ends = b] \in Call
BY DEF Call

\* A row stays a row when one of its fields is set.
LEMMA RowUpdate ==
  ASSUME NEW r \in Row
  PROVE  /\ \A x \in {"none", "open", "resolved"} : [r EXCEPT !.status = x] \in Row
         /\ \A x \in {"none", "running", "noted", "ended"} : [r EXCEPT !.burn = x] \in Row
         /\ \A x \in BOOLEAN : [r EXCEPT !.paged = x] \in Row
BY DEF Row

\* Pods keep their type in a rollout.
LEMMA RolloutIsTyped ==
  ASSUME HealTypeOK, Rollout PROVE pod' \in [Pod -> {"none", "ok", "crashing", "gone"}]
BY DEF Rollout, HealTypeOK

\* A call at a stage after the incident was looked up may have one; a call that
\* opens or resolves has one.
HasIncident ==
    \A a \in Actor :
        job[a].at \in {"burn", "note", "resolve", "closePage", "endBurn"} => job[a].inc \in Incident

\* Calls and incidents keep their types in every step of an actor.
LEMMA StepIsTyped ==
  ASSUME HealTypeOK, HasIncident, NEW a \in Actor,
         (a \in Healer /\ HealerStep(a)) \/ (a \in Human /\ HumanStep(a))
  PROVE  /\ job' \in [Actor -> Call] /\ incident' \in [Incident -> Row]
         /\ HasIncident'
<1> DEFINE Goal == /\ job' \in [Actor -> Call] /\ incident' \in [Incident -> Row]
                   /\ HasIncident'
           i == job[a].inc
           Opens == {"burn", "note", "resolve", "closePage", "endBurn"}
<1> SUFFICES Goal
  OBVIOUS
<1>0. job[a] \in Call /\ i \in Incident \cup {NoIncident} /\ job[a].pod \in Pod
  BY DEF HealTypeOK, Call
<1>a. ASSUME NEW j \in Call, job' = [job EXCEPT ![a] = j], j.at \in Opens => j.inc \in Incident,
             incident' \in [Incident -> Row]
      PROVE  Goal
  BY <1>a DEF HealTypeOK, HasIncident
<1>b. \A at : [job[a] EXCEPT !.at = at].inc = i /\ [job[a] EXCEPT !.at = at].at = at
  BY <1>0 DEF Call
<1>c. incident \in [Incident -> Row] /\ (UNCHANGED incident => incident' \in [Incident -> Row])
  BY DEF HealTypeOK
<1>d. i \in Incident => incident[i] \in Row
  BY <1>c
<1>e. UNCHANGED <<job, incident>> => Goal
  BY DEF HealTypeOK, HasIncident
<1> HIDE DEF Goal
<1>1. CASE Poll(a)
  BY <1>1, <1>e DEF Poll
<1>2. ASSUME NEW p \in Pod, Handle(a, p) PROVE Goal
  <2>1. [Free EXCEPT !.at = "count", !.pod = p].at = "count"
    BY DEF Free
  <2> QED
    BY <1>2, <1>a, <1>c, <1>e, <2>1, FreeIsTyped DEF Handle
<1>3. CASE Count(a)
  <2> DEFINE j == [job[a] EXCEPT !.at = "look", !.count = fixes[job[a].pod]]
  <2>1. j \in Call
    BY <1>0, CallUpdate DEF HealTypeOK, Stage
  <2>2. j.at = "look"
    BY <1>0 DEF Call
  <2>3. job' = [job EXCEPT ![a] = j]
    BY <1>3 DEF Count
  <2> HIDE DEF j
  <2> QED
    BY <1>3, <1>a, <1>c, <2>1, <2>2, <2>3 DEF Count
<1>4. CASE Look(a)
  <2>1. ASSUME NEW n \in Incident \cup {NoIncident},
               job' = [job EXCEPT ![a].at = "act", ![a].inc = n]
        PROVE  Goal
    <3> DEFINE j == [job[a] EXCEPT !.at = "act", !.inc = n]
    <3>1. j \in Call /\ j.at = "act"
      BY <1>0 DEF Call, Stage
    <3>2. job' = [job EXCEPT ![a] = j]
      BY <2>1
    <3> HIDE DEF j
    <3> QED
      BY <1>4, <1>a, <1>c, <3>1, <3>2 DEF Look
  <2>2. CASE job' = [job EXCEPT ![a].at = "open"]
    <3>1. [job[a] EXCEPT !.at = "open"] \in Call
      BY <1>0, CallUpdate DEF Stage
    <3> QED
      BY <1>4, <1>a, <1>b, <1>c, <2>2, <3>1 DEF Look
  <2> QED
    BY <1>4, <2>1, <2>2 DEF Look
<1>5. CASE Open(a)
  <2>1. ASSUME NEW n \in Incident, incident' = [incident EXCEPT ![n].status = "open"],
               job' = [job EXCEPT ![a].at = "burn", ![a].inc = n]
        PROVE  Goal
    <3> DEFINE j == [job[a] EXCEPT !.at = "burn", !.inc = n]
               r == [incident[n] EXCEPT !.status = "open"]
    <3>1. j \in Call /\ j.inc = n
      BY <1>0 DEF Call, Stage
    <3>2. r \in Row
      BY <1>c, RowUpdate
    <3>3. job' = [job EXCEPT ![a] = j] /\ incident' = [incident EXCEPT ![n] = r]
      BY <2>1
    <3> HIDE DEF j, r
    <3>4. incident' \in [Incident -> Row]
      BY <1>c, <3>2, <3>3
    <3> QED
      BY <1>a, <3>1, <3>3, <3>4
  <2>2. CASE job' = [job EXCEPT ![a].at = "act"]
    <3>1. [job[a] EXCEPT !.at = "act"] \in Call
      BY <1>0, CallUpdate DEF Stage
    <3>2. incident' \in [Incident -> Row]
      <4>1. \A n \in Incident : [incident[n] EXCEPT !.status = "open"] \in Row
        BY <1>c, RowUpdate
      <4> QED
        BY <1>5, <1>c, <4>1 DEF Open
    <3> QED
      BY <1>a, <1>b, <2>2, <3>1, <3>2
  <2> QED
    BY <1>5, <2>1, <2>2 DEF Open
<1>6. CASE Burn(a) \/ Note(a) \/ ClosePage(a)
  <2>1. i \in Incident
    BY <1>6 DEF Burn, Note, ClosePage, HasIncident
  <2>2. incident' \in [Incident -> Row]
    <3>1. /\ [incident[i] EXCEPT !.burn = "running"] \in Row
          /\ [incident[i] EXCEPT !.burn = "noted"] \in Row
          /\ [incident[i] EXCEPT !.paged = FALSE] \in Row
      BY <1>d, <2>1, RowUpdate
    <3>2. UNCHANGED incident \/ \E r \in Row : incident' = [incident EXCEPT ![i] = r]
      BY <1>6, <3>1 DEF Burn, Note, ClosePage
    <3> QED
      BY <1>c, <3>2
  <2>3. \/ job' = [job EXCEPT ![a] = Free]
        \/ \E at \in Stage : job' = [job EXCEPT ![a] = [job[a] EXCEPT !.at = at]]
    BY <1>6 DEF Burn, Note, ClosePage, Stage
  <2>4. ASSUME NEW at \in Stage, job' = [job EXCEPT ![a] = [job[a] EXCEPT !.at = at]] PROVE Goal
    <3>1. [job[a] EXCEPT !.at = at] \in Call
      BY <1>0, CallUpdate
    <3> QED
      BY <1>a, <1>b, <2>1, <2>2, <2>4, <3>1
  <2>5. CASE job' = [job EXCEPT ![a] = Free]
    BY <1>a, <2>2, <2>5, FreeIsTyped
  <2> QED
    BY <2>3, <2>4, <2>5
<1>7. CASE Escalate(a)
  <2>1. incident' \in [Incident -> Row]
    <3>1. CASE i \in Incident
      <4>1. [incident[i] EXCEPT !.paged = TRUE] \in Row
        BY <1>d, <3>1, RowUpdate
      <4> QED
        BY <1>7, <1>c, <3>1, <4>1 DEF Escalate
    <3> QED
      BY <1>7, <1>0, <1>c, <3>1 DEF Escalate
  <2> QED
    BY <1>7, <1>a, <2>1, FreeIsTyped DEF Escalate
<1>8. CASE Restart(a)
  <2> DEFINE j == [job[a] EXCEPT !.at = "verify", !.count = 0]
  <2>1. j \in Call /\ j.at = "verify"
    BY <1>0 DEF Call, Stage
  <2>2. job' = [job EXCEPT ![a] = j]
    BY <1>8 DEF Restart
  <2> HIDE DEF j
  <2> QED
    BY <1>8, <1>a, <1>c, <2>1, <2>2 DEF Restart
<1>9. CASE Verify(a) \/ EndBurn(a) \/ VerifyFix(a)
  <2>1. job' = [job EXCEPT ![a] = Free] \/
          (i \in Incident /\ job' = [job EXCEPT ![a] = [Free EXCEPT !.at = "resolve", !.inc = i]])
    BY <1>0, <1>9 DEF Verify, EndBurn, VerifyFix
  <2>2. [Free EXCEPT !.at = "resolve", !.inc = i] \in Call
          /\ [Free EXCEPT !.at = "resolve", !.inc = i].inc = i
    BY <1>0, FreeIsTyped DEF Free
  <2>3. incident' \in [Incident -> Row]
    <3>1. CASE EndBurn(a) /\ incident' = [incident EXCEPT ![i].burn = "ended"]
      <4>1. [incident[i] EXCEPT !.burn = "ended"] \in Row
        BY <1>d, <3>1, RowUpdate DEF EndBurn, HasIncident
      <4> QED
        BY <1>c, <3>1, <4>1
    <3> QED
      BY <1>9, <1>c, <3>1 DEF Verify, EndBurn, VerifyFix
  <2> QED
    BY <1>a, <2>1, <2>2, <2>3, FreeIsTyped
<1>10. CASE Resolve(a)
  <2>0. i \in Incident
    BY <1>10 DEF Resolve, HasIncident
  <2> DEFINE b == incident[i].burn \in {"noted", "ended"}
             j == [job[a] EXCEPT !.at = "closePage", !.ends = b]
  <2>1. b \in BOOLEAN
    OBVIOUS
  <2>2. j = [job[a] EXCEPT !.at = "closePage", !.ends = b]
    OBVIOUS
  <2>3. job' = [job EXCEPT ![a] = j]
    BY <1>10 DEF Resolve
  <2> HIDE DEF b
  <2>4. j \in Call
    BY <1>0, <2>1, CallUpdate DEF Stage
  <2>5. j.inc = i
    BY <1>0 DEF Call
  <2>6. [incident[i] EXCEPT !.status = "resolved"] \in Row
    BY <1>d, <2>0, RowUpdate
  <2>7. incident' \in [Incident -> Row]
    BY <1>10, <1>c, <2>6 DEF Resolve
  <2> HIDE DEF j
  <2> QED
    BY <1>a, <2>0, <2>3, <2>4, <2>5, <2>7
<1>11. ASSUME NEW n \in Incident, HumanResolves(a, n) PROVE Goal
  <2>1. [Free EXCEPT !.at = "resolve", !.inc = n].inc = n
    BY DEF Free
  <2> QED
    BY <1>11, <1>a, <1>c, <2>1, FreeIsTyped DEF HumanResolves
<1>12. CASE ApplyFix(a)
  <2>1. PICK fix \in proposals :
          job' = [job EXCEPT ![a] = [Free EXCEPT !.at = "applied", !.pod = fix[1], !.inc = fix[2]]]
    BY <1>12 DEF ApplyFix
  <2>2. fix[1] \in Pod /\ fix[2] \in Incident \cup {NoIncident}
    BY DEF HealTypeOK
  <2> DEFINE j == [Free EXCEPT !.at = "applied", !.pod = fix[1], !.inc = fix[2]]
  <2>3. j \in Call /\ j.at = "applied"
    BY <2>2, FreeIsTyped DEF Free
  <2> HIDE DEF j
  <2> QED
    BY <1>12, <1>a, <1>c, <2>1, <2>3 DEF ApplyFix, j
<1> QED
  BY <1>1, <1>2, <1>3, <1>4, <1>5, <1>6, <1>7, <1>8, <1>9, <1>10, <1>11, <1>12
  DEF HealerStep, HumanStep

\* So do the pods, the cooldowns and the histories.
LEMMA RestIsTyped ==
  ASSUME HealTypeOK, HasIncident, NEW a \in Actor,
         (a \in Healer /\ HealerStep(a)) \/ (a \in Human /\ HumanStep(a))
  PROVE  /\ pod' \in [Pod -> {"none", "ok", "crashing", "gone"}]
         /\ polled' \in [Healer -> SUBSET Pod] /\ fixes' \in [Pod -> Nat]
         /\ age' \in [Pod -> 0..Cooldown] /\ restarts' \in [Pod -> Nat]
         /\ escalated' \in SUBSET Pod
         /\ proposals' \in SUBSET (Pod \X (Incident \cup {NoIncident}))
         /\ torn' \in SUBSET Incident /\ deaths' \in 0..MaxDeaths
<1> USE HealAssumption
<1>0. job[a].pod \in Pod /\ job[a].inc \in Incident \cup {NoIncident}
  BY DEF HealTypeOK, Call
<1>1. pod' \in [Pod -> {"none", "ok", "crashing", "gone"}]
  <2>1. Rollout \/ UNCHANGED pod
    BY DEF HealerStep, HumanStep, Poll, Handle, Count, Look, Open, Burn, Note, Escalate, Restart,
           Verify, Resolve, ClosePage, EndBurn, HumanResolves, ApplyFix, VerifyFix
  <2> QED
    BY <2>1, RolloutIsTyped DEF HealTypeOK
<1>2. polled' \in [Healer -> SUBSET Pod]
  <2>1. CASE Poll(a)
    BY <2>1 DEF Poll, Crashing, HealTypeOK
  <2>2. ASSUME NEW p \in Pod, Handle(a, p) PROVE polled' \in [Healer -> SUBSET Pod]
    BY <2>2 DEF Handle, HealTypeOK
  <2>3. CASE UNCHANGED polled
    BY <2>3 DEF HealTypeOK
  <2> QED
    BY <2>1, <2>2, <2>3 DEF HealerStep, HumanStep, Count, Look, Open, Burn, Note, Escalate,
       Restart, Verify, Resolve, ClosePage, EndBurn, HumanResolves, ApplyFix, VerifyFix
<1>3. fixes' \in [Pod -> Nat] /\ age' \in [Pod -> 0..Cooldown]
  <2>1. CASE Verify(a)
    BY <1>0, <2>1 DEF Verify, HealTypeOK
  <2>2. CASE UNCHANGED <<fixes, age>>
    BY <2>2 DEF HealTypeOK
  <2> QED
    BY <2>1, <2>2 DEF HealerStep, HumanStep, Poll, Handle, Count, Look, Open, Burn, Note,
       Escalate, Restart, Resolve, ClosePage, EndBurn, HumanResolves, ApplyFix, VerifyFix
<1>4. restarts' \in [Pod -> Nat]
  <2>1. CASE Restart(a)
    BY <1>0, <2>1 DEF Restart, HealTypeOK
  <2>2. CASE UNCHANGED restarts
    BY <2>2 DEF HealTypeOK
  <2> QED
    BY <2>1, <2>2 DEF HealerStep, HumanStep, Poll, Handle, Count, Look, Open, Burn, Note,
       Escalate, Verify, Resolve, ClosePage, EndBurn, HumanResolves, ApplyFix, VerifyFix
<1>5. escalated' \in SUBSET Pod
  <2>1. escalated' = escalated \cup {job[a].pod} \/ UNCHANGED escalated
    BY DEF HealerStep, HumanStep, Poll, Handle, Count, Look, Open, Burn, Note, Escalate, Restart,
           Verify, Resolve, ClosePage, EndBurn, HumanResolves, ApplyFix, VerifyFix
  <2> QED
    BY <1>0, <2>1 DEF HealTypeOK
<1>6. proposals' \in SUBSET (Pod \X (Incident \cup {NoIncident}))
  <2>1. \/ proposals' \in {proposals, proposals \cup {<<job[a].pod, job[a].inc>>}}
        \/ \E fix : proposals' = proposals \ {fix}
    BY DEF HealerStep, HumanStep, Poll, Handle, Count, Look, Open, Burn, Note, Escalate, Restart,
           Verify, Resolve, ClosePage, EndBurn, HumanResolves, ApplyFix, VerifyFix
  <2> QED
    BY <1>0, <2>1 DEF HealTypeOK
<1>7. torn' \in SUBSET Incident
  <2>1. (torn' = torn \cup {job[a].inc} /\ job[a].inc \in Incident) \/ UNCHANGED torn
    <3>1. CASE Escalate(a)
      BY <1>0, <3>1 DEF Escalate
    <3>2. CASE Resolve(a)
      BY <3>2 DEF Resolve, HasIncident
    <3>3. CASE Note(a) \/ ClosePage(a) \/ EndBurn(a)
      BY <3>3 DEF Note, ClosePage, EndBurn, HasIncident
    <3> QED
      BY <3>1, <3>2, <3>3 DEF HealerStep, HumanStep, Poll, Handle, Count, Look, Open, Burn,
         Restart, Verify, HumanResolves, ApplyFix, VerifyFix
  <2> QED
    BY <2>1 DEF HealTypeOK
<1>8. deaths' \in 0..MaxDeaths
  BY DEF HealTypeOK, HealerStep, HumanStep, Poll, Handle, Count, Look, Open, Burn, Note, Escalate,
     Restart, Verify, Resolve, ClosePage, EndBurn, HumanResolves, ApplyFix, VerifyFix
<1> QED
  BY <1>1, <1>2, <1>3, <1>4, <1>5, <1>6, <1>7, <1>8

\* Every step keeps the types, and an incident for each call that needs one.
LEMMA TypeStep ==
  ASSUME HealTypeOK, HasIncident, [HealNext]_healVars
  PROVE  HealTypeOK' /\ HasIncident'
<1> USE HealAssumption
<1>1. ASSUME NEW p \in Pod, Crash(p) PROVE HealTypeOK' /\ HasIncident'
  BY <1>1 DEF Crash, HealTypeOK, HasIncident
<1>2. CASE HealTick
  <2>1. age' \in [Pod -> 0..Cooldown]
    BY <1>2 DEF HealTick, HealTypeOK
  <2> QED
    BY <1>2, <2>1 DEF HealTick, HealTypeOK, HasIncident
<1>3. ASSUME NEW a \in Actor,
             (a \in Healer /\ HealerStep(a)) \/ (a \in Human /\ HumanStep(a))
      PROVE  HealTypeOK' /\ HasIncident'
  <2>1. /\ job' \in [Actor -> Call] /\ incident' \in [Incident -> Row] /\ HasIncident'
    BY <1>3, StepIsTyped
  <2>2. /\ pod' \in [Pod -> {"none", "ok", "crashing", "gone"}]
        /\ polled' \in [Healer -> SUBSET Pod] /\ fixes' \in [Pod -> Nat]
        /\ age' \in [Pod -> 0..Cooldown] /\ restarts' \in [Pod -> Nat]
        /\ escalated' \in SUBSET Pod
        /\ proposals' \in SUBSET (Pod \X (Incident \cup {NoIncident}))
        /\ torn' \in SUBSET Incident /\ deaths' \in 0..MaxDeaths
    BY <1>3, RestIsTyped
  <2> QED
    BY <2>1, <2>2, Zenon DEF HealTypeOK
<1>4. CASE Die
  <2>1. /\ job' \in [Actor -> Call] /\ HasIncident'
    BY <1>4, FreeIsTyped DEF Die, HealTypeOK, HasIncident
  <2>2. polled' \in [Healer -> SUBSET Pod] /\ torn' \in SUBSET Incident
    BY <1>4 DEF Die, HealTypeOK
  <2>3. deaths' \in 0..MaxDeaths
    BY <1>4 DEF Die, HealTypeOK
  <2> QED
    BY <1>4, <2>1, <2>2, <2>3, Zenon DEF Die, HealTypeOK
<1>5. CASE UNCHANGED healVars
  BY <1>5 DEF healVars, HealTypeOK, HasIncident
<1> QED
  BY <1>1, <1>2, <1>3, <1>4, <1>5 DEF HealNext, Actor

\* The initial states are typed.
LEMMA TypeInit == HealInit => HealTypeOK /\ HasIncident
<1> SUFFICES ASSUME HealInit PROVE HealTypeOK /\ HasIncident
  OBVIOUS
<1>1. incident \in [Incident -> Row]
  BY DEF HealInit, Row
<1>2. job \in [Actor -> Call] /\ HasIncident
  BY FreeIsTyped DEF HealInit, HasIncident
<1>3. /\ fixes \in [Pod -> Nat] /\ age \in [Pod -> 0..Cooldown] /\ restarts \in [Pod -> Nat]
      /\ pod \in [Pod -> {"none", "ok", "crashing", "gone"}]
      /\ polled \in [Healer -> SUBSET Pod] /\ escalated \in SUBSET Pod
      /\ proposals \in SUBSET (Pod \X (Incident \cup {NoIncident}))
      /\ torn \in SUBSET Incident /\ deaths \in 0..MaxDeaths
  BY HealAssumption DEF HealInit
<1> QED
  BY <1>1, <1>2, <1>3, Zenon DEF HealTypeOK

\* Pods, cooldowns, incidents, calls and histories keep the types of HealTypeOK.
THEOREM HealTypeCorrect == HealSpec => []HealTypeOK
<1>1. HealInit => HealTypeOK /\ HasIncident
  BY TypeInit
<1>2. HealTypeOK /\ HasIncident /\ [HealNext]_healVars => HealTypeOK' /\ HasIncident'
  BY TypeStep
<1> QED
  BY <1>1, <1>2, PTL DEF HealSpec

-----------------------------------------------------------------------------
(* Restarts are counted.                                                   *)

\* A healer that has read the count and not yet acted on it.
Counted == {"look", "open", "burn", "note", "act"}

\* Healers whose restart of p is not counted yet, and those bound for it.
InVerify(p) == {h \in Healer : job[h].at = "verify" /\ job[h].pod = p}
Engaged(p) ==
    {h \in Healer : /\ job[h].pod = p
                    /\ \/ job[h].at = "verify"
                       \/ job[h].at \in Counted /\ job[h].count < MaxFixes}

\* A count that was read is not too high; a restart is counted, about to be
\* counted, or was cut by a death; and who can still restart read a low count.
ReadInv == \A h \in Healer : job[h].at \in Counted => job[h].count <= fixes[job[h].pod]
CountInv ==
    \A p \in Pod :
        /\ fixes[p] + Cardinality(InVerify(p)) <= restarts[p]
        /\ restarts[p] <= fixes[p] + Cardinality(InVerify(p)) + deaths * Cardinality(Healer)
        /\ fixes[p] + Cardinality(Engaged(p)) <= MaxFixes - 1 + Cardinality(Healer)

\* Sets of healers are finite and no larger than all of them.
LEMMA HealersAreFinite ==
  /\ IsFiniteSet(Healer) /\ Cardinality(Healer) \in Nat
  /\ \A S \in SUBSET Healer : /\ IsFiniteSet(S) /\ Cardinality(S) \in Nat
                              /\ Cardinality(S) <= Cardinality(Healer)
  /\ \A S \in SUBSET Healer : \A T \in SUBSET S : Cardinality(T) <= Cardinality(S)
  /\ \A p : InVerify(p) \in SUBSET Healer /\ Engaged(p) \in SUBSET Healer
BY HealAssumption, FS_Subset, FS_CardinalityType DEF InVerify, Engaged

\* Steps that neither restart nor count nor read a count.
Quiet(a, j) ==
    /\ job[a].at # "verify" /\ j.at # "verify"
    /\ j.at \in Counted => /\ job[a].at \in Counted
                           /\ j.pod = job[a].pod /\ j.count = job[a].count

\* A quiet step of one healer disturbs no account of restarts.
LEMMA QuietStep ==
  ASSUME HealTypeOK, ReadInv, CountInv, NEW a \in Actor, NEW j, Quiet(a, j),
         job' = [job EXCEPT ![a] = j], UNCHANGED <<fixes, restarts, deaths>>
  PROVE  ReadInv' /\ CountInv'
<1>1. job'[a] = j /\ \A h \in Actor : h # a => job'[h] = job[h]
  BY DEF HealTypeOK
<1>2. ReadInv'
  BY <1>1 DEF ReadInv, Quiet, Actor
<1>3. ASSUME NEW p \in Pod
      PROVE  InVerify(p)' = InVerify(p) /\ Engaged(p)' \in SUBSET Engaged(p)
  BY <1>1 DEF InVerify, Engaged, Quiet, Actor
<1>4. ASSUME NEW p \in Pod
      PROVE  /\ Cardinality(InVerify(p)') = Cardinality(InVerify(p))
             /\ Cardinality(Engaged(p)') <= Cardinality(Engaged(p))
             /\ Cardinality(Engaged(p)') \in Nat /\ Cardinality(Engaged(p)) \in Nat
  BY <1>3, HealersAreFinite
<1>5. \A p \in Pod : fixes'[p] = fixes[p] /\ fixes[p] \in Nat
  BY DEF HealTypeOK
<1>6. MaxFixes \in Nat /\ Cardinality(Healer) \in Nat
  BY HealAssumption, HealersAreFinite
<1>7. CountInv'
  <2> SUFFICES ASSUME NEW p \in Pod
               PROVE  /\ fixes'[p] + Cardinality(InVerify(p)') <= restarts'[p]
                      /\ restarts'[p] <= fixes'[p] + Cardinality(InVerify(p)')
                                           + deaths' * Cardinality(Healer)
                      /\ fixes'[p] + Cardinality(Engaged(p)') <= MaxFixes - 1 + Cardinality(Healer)
    BY DEF CountInv
  <2> QED
    BY <1>4, <1>5, <1>6 DEF CountInv
<1> QED
  BY <1>2, <1>7

\* What the arithmetic of a step rests on.
LEMMA Numbers ==
  ASSUME HealTypeOK
  PROVE  /\ MaxFixes \in Nat /\ MaxFixes >= 1 /\ Cardinality(Healer) \in Nat
         /\ deaths \in Nat /\ deaths * Cardinality(Healer) \in Nat
         /\ (deaths + 1) * Cardinality(Healer) = deaths * Cardinality(Healer) + Cardinality(Healer)
         /\ \A p \in Pod : /\ fixes[p] \in Nat /\ restarts[p] \in Nat
                           /\ Cardinality(InVerify(p)) \in Nat /\ Cardinality(Engaged(p)) \in Nat
                           /\ Cardinality(InVerify(p)) <= Cardinality(Healer)
                           /\ Cardinality(Engaged(p)) <= Cardinality(Healer)
<1>1. MaxFixes \in Nat /\ MaxFixes >= 1 /\ deaths \in Nat
  BY HealAssumption DEF HealTypeOK
<1>2. Cardinality(Healer) \in Nat
  BY HealersAreFinite
<1>3. \A m, n \in Nat : m * n \in Nat /\ (m + 1) * n = m * n + n
  OBVIOUS
<1>4. \A p \in Pod : fixes[p] \in Nat /\ restarts[p] \in Nat
  BY DEF HealTypeOK
<1> QED
  BY <1>1, <1>2, <1>3, <1>4, HealersAreFinite

\* Reading a count keeps the counting invariants: it is read as it is.
LEMMA ReadStep ==
  ASSUME HealTypeOK, ReadInv, CountInv, NEW h \in Healer, Count(h)
  PROVE  ReadInv' /\ CountInv'
<1> DEFINE j == [job[h] EXCEPT !.at = "look", !.count = fixes[job[h].pod]]
<1>0. job[h] \in Call /\ job[h].pod \in Pod
  BY DEF HealTypeOK, Actor, Call
<1>1. j.at = "look" /\ j.count = fixes[job[h].pod] /\ j.pod = job[h].pod
  BY <1>0 DEF Call
<1>2. job'[h] = j /\ \A a \in Healer : a # h => job'[a] = job[a]
  BY DEF Count, HealTypeOK, Actor
<1>3. UNCHANGED <<fixes, restarts, deaths>> /\ job[h].at = "count"
  BY DEF Count
<1> HIDE DEF j
<1>4. ReadInv'
  BY <1>0, <1>1, <1>2, <1>3 DEF ReadInv, HealTypeOK
<1>5. ASSUME NEW p \in Pod
      PROVE  /\ InVerify(p)' = InVerify(p)
             /\ fixes[p] >= MaxFixes => Engaged(p)' \in SUBSET Engaged(p)
             /\ Engaged(p)' \in SUBSET Healer
  <2>1. InVerify(p)' = InVerify(p)
    BY <1>1, <1>2, <1>3 DEF InVerify
  <2>2. ASSUME fixes[p] >= MaxFixes, NEW a \in Engaged(p)' PROVE a \in Engaged(p)
    <3>1. CASE a = h
      <4>1. job'[h].pod = p /\ job'[h].count < MaxFixes
        BY <1>1, <1>2, <2>2, <3>1 DEF Engaged, Counted
      <4> QED
        BY <1>1, <1>2, <2>2, <4>1, Numbers
    <3>2. CASE a # h
      BY <1>2, <2>2, <3>2 DEF Engaged
    <3> QED
      BY <3>1, <3>2
  <2>3. Engaged(p)' \in SUBSET Healer
    BY DEF Engaged
  <2> QED
    BY <2>1, <2>2, <2>3
<1>6. CountInv'
  <2> SUFFICES ASSUME NEW p \in Pod
               PROVE  /\ fixes'[p] + Cardinality(InVerify(p)') <= restarts'[p]
                      /\ restarts'[p] <= fixes'[p] + Cardinality(InVerify(p)')
                                           + deaths' * Cardinality(Healer)
                      /\ fixes'[p] + Cardinality(Engaged(p)') <= MaxFixes - 1 + Cardinality(Healer)
    BY DEF CountInv
  <2>1. Cardinality(Engaged(p)') \in Nat /\ Cardinality(Engaged(p)') <= Cardinality(Healer)
    BY <1>5, HealersAreFinite
  <2>2. fixes[p] >= MaxFixes => Cardinality(Engaged(p)') <= Cardinality(Engaged(p))
    BY <1>5, HealersAreFinite
  <2>3. fixes[p] + Cardinality(Engaged(p)') <= MaxFixes - 1 + Cardinality(Healer)
    BY <2>1, <2>2, Numbers DEF CountInv
  <2> QED
    BY <1>3, <1>5, <2>3 DEF CountInv
<1> QED
  BY <1>4, <1>6

\* A restart of p keeps them: the healer moves from those still to restart to
\* those still to count.
LEMMA RestartStep ==
  ASSUME HealTypeOK, ReadInv, CountInv, NEW h \in Healer, Restart(h),
         NEW p \in Pod, p = job[h].pod
  PROVE  ReadInv' /\ CountInv'
<1> DEFINE j == [job[h] EXCEPT !.at = "verify", !.count = 0]
<1>0. job[h] \in Call /\ p \in Pod
  BY DEF HealTypeOK, Actor, Call
<1>1. j.at = "verify" /\ j.pod = p
  BY <1>0 DEF Call
<1>2. job'[h] = j /\ \A a \in Healer : a # h => job'[a] = job[a]
  BY DEF Restart, HealTypeOK, Actor
<1>3. UNCHANGED <<fixes, deaths>> /\ job[h].at = "act" /\ job[h].count < MaxFixes
  BY DEF Restart
<1>4. restarts'[p] = restarts[p] + 1 /\ \A q \in Pod : q # p => restarts'[q] = restarts[q]
  BY <1>0 DEF Restart, HealTypeOK
<1> HIDE DEF j
<1>5. ReadInv'
  BY <1>1, <1>2, <1>3 DEF ReadInv, Counted
<1>6. /\ InVerify(p)' = InVerify(p) \cup {h} /\ h \notin InVerify(p)
      /\ \A q \in Pod : q # p => InVerify(q)' = InVerify(q)
  BY <1>0, <1>1, <1>2, <1>3 DEF InVerify
<1>7. \A q \in Pod : Engaged(q)' = Engaged(q)
  BY <1>1, <1>2, <1>3 DEF Engaged, Counted
<1>8. Cardinality(InVerify(p)') = Cardinality(InVerify(p)) + 1
  BY <1>6, HealersAreFinite, FS_AddElement
<1>9. CountInv'
  <2> SUFFICES ASSUME NEW q \in Pod
               PROVE  /\ fixes'[q] + Cardinality(InVerify(q)') <= restarts'[q]
                      /\ restarts'[q] <= fixes'[q] + Cardinality(InVerify(q)')
                                           + deaths' * Cardinality(Healer)
                      /\ fixes'[q] + Cardinality(Engaged(q)') <= MaxFixes - 1 + Cardinality(Healer)
    BY DEF CountInv
  <2>1. CASE q = p
    <3>1. fixes[p] + (Cardinality(InVerify(p)) + 1) <= restarts[p] + 1
      BY <1>0, Numbers DEF CountInv
    <3>2. restarts[p] + 1 <= fixes[p] + (Cardinality(InVerify(p)) + 1)
                               + deaths * Cardinality(Healer)
      BY <1>0, Numbers DEF CountInv
    <3> QED
      BY <1>0, <1>3, <1>4, <1>7, <1>8, <2>1, <3>1, <3>2 DEF CountInv
  <2>2. CASE q # p
    BY <1>3, <1>4, <1>6, <1>7, <2>2 DEF CountInv
  <2> QED
    BY <2>1, <2>2
<1> QED
  BY <1>5, <1>9

\* Counting a restart of p keeps them: the count takes the healer's place.
LEMMA VerifyStep ==
  ASSUME HealTypeOK, ReadInv, CountInv, NEW h \in Healer, Verify(h),
         NEW p \in Pod, p = job[h].pod
  PROVE  ReadInv' /\ CountInv'
<1>0. p \in Pod /\ job[h].at = "verify"
  BY DEF HealTypeOK, Actor, Call, Verify
<1>1. job'[h].at \in {"idle", "resolve"} /\ \A a \in Healer : a # h => job'[a] = job[a]
  <2>1. PICK j : job' = [job EXCEPT ![h] = j] /\ j.at \in {"idle", "resolve"}
    <3>1. Free.at = "idle" /\ \A i : [Free EXCEPT !.at = "resolve", !.inc = i].at = "resolve"
      BY DEF Free
    <3>2. job' = [job EXCEPT ![h] = Free] \/
            job' = [job EXCEPT ![h] = [Free EXCEPT !.at = "resolve", !.inc = job[h].inc]]
      BY DEF Verify
    <3> QED
      BY <3>1, <3>2
  <2> QED
    BY <2>1 DEF HealTypeOK, Actor
<1>2. UNCHANGED <<restarts, deaths>>
  BY DEF Verify
<1>3. fixes'[p] = fixes[p] + 1 /\ \A q \in Pod : q # p => fixes'[q] = fixes[q]
  BY <1>0 DEF Verify, HealTypeOK
<1>4. ReadInv'
  <2> SUFFICES ASSUME NEW a \in Healer, job'[a].at \in Counted
               PROVE  job'[a].count <= fixes'[job'[a].pod]
    BY DEF ReadInv
  <2>1. a # h /\ job'[a] = job[a]
    BY <1>1 DEF Counted
  <2>2. job[a].count <= fixes[job[a].pod] /\ job[a].pod \in Pod /\ job[a].count \in Nat
    BY <2>1 DEF ReadInv, HealTypeOK, Actor, Call
  <2> QED
    BY <1>0, <1>3, <2>1, <2>2, Numbers
<1>5. /\ InVerify(p)' = InVerify(p) \ {h} /\ h \in InVerify(p)
      /\ Engaged(p)' = Engaged(p) \ {h} /\ h \in Engaged(p)
      /\ \A q \in Pod : q # p => InVerify(q)' = InVerify(q) /\ Engaged(q)' = Engaged(q)
  <2>1. job'[h].at # "verify" /\ job'[h].at \notin Counted
    BY <1>1 DEF Counted
  <2>2. InVerify(p)' = InVerify(p) \ {h} /\ h \in InVerify(p)
    BY <1>0, <1>1, <2>1 DEF InVerify
  <2>3. Engaged(p)' = Engaged(p) \ {h} /\ h \in Engaged(p)
    BY <1>0, <1>1, <2>1 DEF Engaged
  <2>4. ASSUME NEW q \in Pod, q # p
        PROVE  InVerify(q)' = InVerify(q) /\ Engaged(q)' = Engaged(q)
    BY <1>0, <1>1, <2>1, <2>4 DEF InVerify, Engaged
  <2> QED
    BY <2>2, <2>3, <2>4
<1>6. /\ Cardinality(InVerify(p)') = Cardinality(InVerify(p)) - 1
      /\ Cardinality(Engaged(p)') = Cardinality(Engaged(p)) - 1
  <2>1. IsFiniteSet(InVerify(p)) /\ IsFiniteSet(Engaged(p))
    BY HealersAreFinite
  <2>2. /\ Cardinality(InVerify(p) \ {h}) = Cardinality(InVerify(p)) - 1
        /\ Cardinality(Engaged(p) \ {h}) = Cardinality(Engaged(p)) - 1
    BY <1>5, <2>1, FS_RemoveElement
  <2> QED
    BY <1>5, <2>2
<1>7. CountInv'
  <2> SUFFICES ASSUME NEW q \in Pod
               PROVE  /\ fixes'[q] + Cardinality(InVerify(q)') <= restarts'[q]
                      /\ restarts'[q] <= fixes'[q] + Cardinality(InVerify(q)')
                                           + deaths' * Cardinality(Healer)
                      /\ fixes'[q] + Cardinality(Engaged(q)') <= MaxFixes - 1 + Cardinality(Healer)
    BY DEF CountInv
  <2>1. CASE q = p
    <3>1. (fixes[p] + 1) + (Cardinality(InVerify(p)) - 1) <= restarts[p]
      BY <1>0, Numbers DEF CountInv
    <3>2. restarts[p] <= (fixes[p] + 1) + (Cardinality(InVerify(p)) - 1)
                           + deaths * Cardinality(Healer)
      BY <1>0, Numbers DEF CountInv
    <3>3. (fixes[p] + 1) + (Cardinality(Engaged(p)) - 1) <= MaxFixes - 1 + Cardinality(Healer)
      BY <1>0, Numbers DEF CountInv
    <3> QED
      BY <1>0, <1>2, <1>3, <1>6, <2>1, <3>1, <3>2, <3>3
  <2>2. CASE q # p
    BY <1>2, <1>3, <1>5, <2>2 DEF CountInv
  <2> QED
    BY <2>1, <2>2
<1> QED
  BY <1>4, <1>7

\* A death keeps them: its number makes up for the restarts it left uncounted.
LEMMA DieStep ==
  ASSUME HealTypeOK, ReadInv, CountInv, Die
  PROVE  ReadInv' /\ CountInv'
<1>1. /\ \A h \in Healer : job'[h].at = "idle"
      /\ UNCHANGED <<fixes, restarts>> /\ deaths' = deaths + 1
  BY DEF Die, Actor, Free
<1>2. ReadInv'
  BY <1>1 DEF ReadInv, Counted
<1>3. \A p \in Pod : InVerify(p)' = {} /\ Engaged(p)' = {}
  BY <1>1 DEF InVerify, Engaged, Counted
<1>4. \A p \in Pod : Cardinality(InVerify(p)') = 0 /\ Cardinality(Engaged(p)') = 0
  BY <1>3, FS_EmptySet
<1>5. CountInv'
  <2> SUFFICES ASSUME NEW q \in Pod
               PROVE  /\ fixes'[q] + Cardinality(InVerify(q)') <= restarts'[q]
                      /\ restarts'[q] <= fixes'[q] + Cardinality(InVerify(q)')
                                           + deaths' * Cardinality(Healer)
                      /\ fixes'[q] + Cardinality(Engaged(q)') <= MaxFixes - 1 + Cardinality(Healer)
    BY DEF CountInv
  <2>1. deaths' * Cardinality(Healer) = deaths * Cardinality(Healer) + Cardinality(Healer)
    BY <1>1, Numbers
  <2> QED
    BY <1>1, <1>4, <2>1, Numbers DEF CountInv
<1> QED
  BY <1>2, <1>5

\* Every other step of an actor is quiet.
LEMMA ActorCounts ==
  ASSUME HealTypeOK, ReadInv, CountInv, NEW a \in Actor,
         (a \in Healer /\ HealerStep(a)) \/ (a \in Human /\ HumanStep(a))
  PROVE  ReadInv' /\ CountInv'
<1> DEFINE Goal == ReadInv' /\ CountInv'
<1> SUFFICES Goal
  OBVIOUS
<1>0. job[a] \in Call
  BY DEF HealTypeOK
<1>a. ASSUME NEW j, Quiet(a, j), job' = [job EXCEPT ![a] = j], UNCHANGED <<fixes, restarts, deaths>>
      PROVE  Goal
  BY <1>a, QuietStep
<1>b. ASSUME UNCHANGED <<job, fixes, restarts, deaths>> PROVE Goal
  BY <1>b DEF ReadInv, CountInv, InVerify, Engaged
<1>c. \A at, i : /\ [job[a] EXCEPT !.at = at].at = at
                 /\ [job[a] EXCEPT !.at = at].pod = job[a].pod
                 /\ [job[a] EXCEPT !.at = at].count = job[a].count
                 /\ [job[a] EXCEPT !.at = at, !.inc = i].at = at
                 /\ [job[a] EXCEPT !.at = at, !.inc = i].pod = job[a].pod
                 /\ [job[a] EXCEPT !.at = at, !.inc = i].count = job[a].count
  BY <1>0 DEF Call
<1>d. /\ Free.at = "idle" /\ \A p : [Free EXCEPT !.at = "count", !.pod = p].at = "count"
      /\ \A i : [Free EXCEPT !.at = "resolve", !.inc = i].at = "resolve"
      /\ \A p, i : [Free EXCEPT !.at = "applied", !.pod = p, !.inc = i].at = "applied"
  BY DEF Free
<1> HIDE DEF Goal
<1>1. CASE Poll(a)
  BY <1>1, <1>b DEF Poll
<1>2. ASSUME NEW p \in Pod, Handle(a, p) PROVE Goal
  BY <1>2, <1>a, <1>b, <1>d DEF Handle, Quiet, Counted
<1>3. CASE a \in Healer /\ (Count(a) \/ Restart(a) \/ Verify(a))
  BY <1>0, <1>3, ReadStep, RestartStep, VerifyStep DEF Goal, Call
<1>4. CASE Look(a)
  <2>1. Quiet(a, [job[a] EXCEPT !.at = "open"])
    BY <1>4, <1>c DEF Look, Quiet, Counted
  <2>2. \A i : Quiet(a, [job[a] EXCEPT !.at = "act", !.inc = i])
    BY <1>4, <1>c DEF Look, Quiet, Counted
  <2>3. ASSUME NEW i, job' = [job EXCEPT ![a].at = "act", ![a].inc = i]
        PROVE  job' = [job EXCEPT ![a] = [job[a] EXCEPT !.at = "act", !.inc = i]]
    BY <2>3
  <2> QED
    BY <1>4, <1>a, <2>1, <2>2, <2>3 DEF Look
<1>5. CASE Open(a)
  <2>1. Quiet(a, [job[a] EXCEPT !.at = "act"])
    BY <1>5, <1>c DEF Open, Quiet, Counted
  <2>2. \A i : Quiet(a, [job[a] EXCEPT !.at = "burn", !.inc = i])
    BY <1>5, <1>c DEF Open, Quiet, Counted
  <2>3. ASSUME NEW i, job' = [job EXCEPT ![a].at = "burn", ![a].inc = i]
        PROVE  job' = [job EXCEPT ![a] = [job[a] EXCEPT !.at = "burn", !.inc = i]]
    BY <2>3
  <2> QED
    BY <1>5, <1>a, <2>1, <2>2, <2>3 DEF Open
<1>6. CASE Burn(a)
  BY <1>6, <1>a, <1>c DEF Burn, Quiet, Counted
<1>7. CASE Note(a)
  BY <1>7, <1>a, <1>c DEF Note, Quiet, Counted
<1>8. CASE Escalate(a)
  BY <1>8, <1>a, <1>d DEF Escalate, Quiet, Counted
<1>9. CASE ClosePage(a)
  <2>1. Quiet(a, [job[a] EXCEPT !.at = "endBurn"]) /\ Quiet(a, Free)
    BY <1>9, <1>c, <1>d DEF ClosePage, Quiet, Counted
  <2>2. \/ job' = [job EXCEPT ![a] = [job[a] EXCEPT !.at = "endBurn"]]
        \/ job' = [job EXCEPT ![a] = Free]
    BY <1>9 DEF ClosePage
  <2> QED
    BY <1>9, <1>a, <2>1, <2>2 DEF ClosePage
<1>10. CASE EndBurn(a)
  BY <1>10, <1>a, <1>d DEF EndBurn, Quiet, Counted
<1>11. CASE Resolve(a)
  <2> DEFINE b == incident[job[a].inc].burn \in {"noted", "ended"}
             j == [job[a] EXCEPT !.at = "closePage", !.ends = b]
  <2>1. job' = [job EXCEPT ![a] = j]
    BY <1>11 DEF Resolve
  <2>2. j.at = "closePage"
    BY <1>0 DEF Call
  <2> HIDE DEF j
  <2> QED
    BY <1>11, <1>a, <2>1, <2>2 DEF Resolve, Quiet, Counted
<1>12. ASSUME NEW i \in Incident, HumanResolves(a, i) PROVE Goal
  BY <1>12, <1>a, <1>d DEF HumanResolves, Quiet, Counted
<1>13. CASE ApplyFix(a)
  BY <1>13, <1>a, <1>d DEF ApplyFix, Quiet, Counted
<1>14. CASE VerifyFix(a)
  BY <1>14, <1>a, <1>d DEF VerifyFix, Quiet, Counted
<1> QED
  BY <1>1, <1>2, <1>3, <1>4, <1>5, <1>6, <1>7, <1>8, <1>9, <1>10, <1>11, <1>12, <1>13, <1>14
  DEF HealerStep, HumanStep

\* Every step keeps the counting invariants.
LEMMA CountStep ==
  ASSUME HealTypeOK, ReadInv, CountInv, [HealNext]_healVars
  PROVE  ReadInv' /\ CountInv'
<1>1. CASE UNCHANGED <<job, fixes, restarts, deaths>>
  BY <1>1 DEF ReadInv, CountInv, InVerify, Engaged
<1>2. ASSUME NEW a \in Actor,
             (a \in Healer /\ HealerStep(a)) \/ (a \in Human /\ HumanStep(a))
      PROVE  ReadInv' /\ CountInv'
  BY <1>2, ActorCounts
<1> QED
  BY <1>1, <1>2, DieStep DEF HealNext, Crash, HealTick, healVars, Actor

\* No restart has been made in the initial states.
LEMMA CountInit == HealInit => ReadInv /\ CountInv
<1> SUFFICES ASSUME HealInit PROVE ReadInv /\ CountInv
  OBVIOUS
<1>1. \A a \in Actor : job[a].at = "idle"
  BY DEF HealInit, Free
<1>2. \A p \in Pod : InVerify(p) = {} /\ Engaged(p) = {}
  BY <1>1 DEF InVerify, Engaged, Counted, Actor
<1>3. \A p \in Pod : Cardinality(InVerify(p)) = 0 /\ Cardinality(Engaged(p)) = 0
  BY <1>2, FS_EmptySet
<1>4. \A p \in Pod : fixes[p] = 0 /\ restarts[p] = 0
  BY DEF HealInit
<1>5. CountInv
  BY <1>3, <1>4, Numbers, TypeInit DEF CountInv
<1> QED
  BY <1>1, <1>5 DEF ReadInv, Counted, Actor

\* A pod is restarted for its three fixes, and beyond only by threads that had
\* read the count before or could not count for a death.
THEOREM PodsAreNotRestartedForEver == HealSpec => []RestartsBounded
<1> DEFINE Inv == HealTypeOK /\ HasIncident /\ ReadInv /\ CountInv
<1>1. HealInit => Inv
  BY TypeInit, CountInit
<1>2. Inv /\ [HealNext]_healVars => Inv'
  BY TypeStep, CountStep
<1>3. Inv => RestartsBounded
  <2> SUFFICES ASSUME Inv, NEW p \in Pod
               PROVE  restarts[p] <= MaxFixes + Cardinality(Healer) - 1
                                       + deaths * Cardinality(Healer)
    BY DEF RestartsBounded
  <2>1. InVerify(p) \in SUBSET Engaged(p)
    BY DEF InVerify, Engaged
  <2>2. Cardinality(InVerify(p)) <= Cardinality(Engaged(p))
    BY <2>1, HealersAreFinite
  <2> QED
    BY <2>2, Numbers DEF CountInv
<1> QED
  BY <1>1, <1>2, <1>3, PTL DEF HealSpec

\* Nobody is told of a pod that has not had all its restarts.
THEOREM EscalationsAreEarned == HealSpec => []EscalationIsEarned
<1> DEFINE Inv == HealTypeOK /\ HasIncident /\ ReadInv /\ CountInv /\ EscalationIsEarned
<1>1. HealInit => Inv
  BY TypeInit, CountInit DEF HealInit, EscalationIsEarned
<1>2. Inv /\ [HealNext]_healVars => Inv'
  <2> SUFFICES ASSUME Inv, [HealNext]_healVars PROVE EscalationIsEarned'
    BY TypeStep, CountStep
  <2>1. ASSUME NEW h \in Healer, Escalate(h) PROVE EscalationIsEarned'
    <3>1. /\ job[h].pod \in Pod /\ job[h].count \in Nat
          /\ job[h].count <= fixes[job[h].pod] /\ job[h].count >= MaxFixes
      BY <2>1 DEF Escalate, ReadInv, Counted, HealTypeOK, Actor, Call
    <3>2. restarts[job[h].pod] >= MaxFixes
      BY <3>1, Numbers DEF CountInv
    <3> QED
      BY <2>1, <3>2 DEF Escalate, EscalationIsEarned
  <2>2. ASSUME NEW h \in Healer, Restart(h) PROVE EscalationIsEarned'
    <3>1. \A p \in Pod : restarts'[p] >= restarts[p]
      BY <2>2, Numbers DEF Restart, HealTypeOK
    <3>2. \A p \in Pod : restarts'[p] \in Nat /\ restarts[p] \in Nat /\ MaxFixes \in Nat
      BY TypeStep, Numbers DEF HealTypeOK
    <3> QED
      BY <2>2, <3>1, <3>2 DEF Restart, EscalationIsEarned, HealTypeOK
  <2>3. CASE UNCHANGED restarts /\ escalated' \subseteq escalated
    BY <2>3 DEF EscalationIsEarned
  <2> QED
    BY <2>1, <2>2, <2>3 DEF HealNext, healVars, Crash, HealTick, Die, HealerStep, HumanStep,
       Poll, Handle, Count, Look, Open, Burn, Note, Verify, Resolve, ClosePage, EndBurn,
       HumanResolves, ApplyFix, VerifyFix
<1>3. Inv => EscalationIsEarned
  OBVIOUS
<1> QED
  BY <1>1, <1>2, <1>3, PTL DEF HealSpec

-----------------------------------------------------------------------------
(* Open incidents are bounded.                                             *)

\* Healers that found no open incident and have not inserted theirs yet.
Openers == {h \in Healer : job[h].at = "open"}
OpenInv == Cardinality(Opened) + Cardinality(Openers) <= Cardinality(Healer)

\* The open incidents, and the healers about to open one, are finitely many.
LEMMA OpenSetsAreFinite ==
  /\ IsFiniteSet(Opened) /\ Cardinality(Opened) \in Nat
  /\ \A S \in SUBSET Opened : Cardinality(S) <= Cardinality(Opened) /\ Cardinality(S) \in Nat
  /\ IsFiniteSet(Openers) /\ Cardinality(Openers) \in Nat
  /\ \A S \in SUBSET Openers : Cardinality(S) <= Cardinality(Openers) /\ Cardinality(S) \in Nat
  /\ Cardinality(Openers) <= Cardinality(Healer) /\ Cardinality(Healer) \in Nat
<1>1. IsFiniteSet(Incident)
  BY HealAssumption, FS_Interval DEF Incident
<1>2. Opened \in SUBSET Incident /\ Openers \in SUBSET Healer
  BY DEF Opened, Openers
<1> QED
  BY <1>1, <1>2, HealAssumption, FS_Subset, FS_CardinalityType

\* Steps that open nothing and do not get ready to.
LEMMA OpenKept ==
  ASSUME OpenInv, Opened' \in SUBSET Opened, Openers' \in SUBSET Openers
  PROVE  OpenInv'
BY OpenSetsAreFinite DEF OpenInv

\* A healer becomes an opener only when no incident is open.
LEMMA LookStep ==
  ASSUME HealTypeOK, OpenInv, NEW h \in Healer, Look(h)
  PROVE  OpenInv'
<1>0. job[h] \in Call /\ job[h].at = "look"
  BY DEF HealTypeOK, Actor, Look
<1>1. Opened' = Opened
  BY DEF Look, Opened
<1>2. CASE Opened = {} /\ job' = [job EXCEPT ![h].at = "open"]
  <2>1. Openers' = Openers \cup {h} /\ Openers' \in SUBSET Healer
    BY <1>0, <1>2 DEF Openers, HealTypeOK, Actor, Call
  <2>2. Cardinality(Openers') <= Cardinality(Healer)
    BY <2>1, HealersAreFinite
  <2>3. Cardinality(Opened') = 0
    BY <1>1, <1>2, FS_EmptySet
  <2>4. Cardinality(Openers') \in Nat
    BY <2>1, HealersAreFinite
  <2> QED
    BY <2>2, <2>3, <2>4, OpenSetsAreFinite DEF OpenInv
<1>3. ASSUME NEW i \in Incident \cup {NoIncident},
             job' = [job EXCEPT ![h].at = "act", ![h].inc = i]
      PROVE  OpenInv'
  <2>1. Openers' \in SUBSET Openers
    BY <1>0, <1>3 DEF Openers, HealTypeOK, Actor, Call
  <2> QED
    BY <1>1, <2>1, OpenKept
<1> QED
  BY <1>2, <1>3 DEF Look

\* An opener becomes an open incident, so their sum does not grow.
LEMMA OpenStep ==
  ASSUME HealTypeOK, OpenInv, NEW h \in Healer, Open(h)
  PROVE  OpenInv'
<1>0. job[h] \in Call /\ job[h].at = "open" /\ h \in Openers
  BY DEF HealTypeOK, Actor, Open, Openers
<1>1. ASSUME NEW i \in Incident, incident[i].status = "none",
             incident' = [incident EXCEPT ![i].status = "open"],
             \/ job' = [job EXCEPT ![h].at = "burn", ![h].inc = i]
             \/ job' = [job EXCEPT ![h].at = "act"]
      PROVE  OpenInv'
  <2>1. Opened' = Opened \cup {i} /\ i \notin Opened
    BY <1>1 DEF Opened, HealTypeOK, Row
  <2>2. Openers' = Openers \ {h}
    BY <1>0, <1>1 DEF Openers, HealTypeOK, Actor, Call
  <2>3. Cardinality(Opened') = Cardinality(Opened) + 1
    BY <2>1, OpenSetsAreFinite, FS_AddElement
  <2>4. Cardinality(Openers') = Cardinality(Openers) - 1
    BY <1>0, <2>2, OpenSetsAreFinite, FS_RemoveElement
  <2> QED
    BY <2>3, <2>4, OpenSetsAreFinite DEF OpenInv
<1>2. CASE job' = [job EXCEPT ![h].at = "act"] /\ UNCHANGED incident
  <2>1. Openers' \in SUBSET Openers /\ Opened' = Opened
    BY <1>0, <1>2 DEF Openers, Opened, HealTypeOK, Actor, Call
  <2> QED
    BY <2>1, OpenKept
<1> QED
  BY <1>1, <1>2 DEF Open

\* Every step of a healer or a person keeps the bound of openers and incidents.
LEMMA ActorOpens ==
  ASSUME HealTypeOK, OpenInv, NEW a \in Actor,
         (a \in Healer /\ HealerStep(a)) \/ (a \in Human /\ HumanStep(a))
  PROVE  OpenInv'
<1> DEFINE Goal == OpenInv'
<1> SUFFICES Goal
  OBVIOUS
<1>0. job[a] \in Call
  BY DEF HealTypeOK
<1>a. ASSUME NEW j, job' = [job EXCEPT ![a] = j], j.at # "open", Opened' \in SUBSET Opened
      PROVE  Goal
  <2>1. Openers' \in SUBSET Openers
    BY <1>a DEF Openers, HealTypeOK
  <2> QED
    BY <1>a, <2>1, OpenKept
<1>b. UNCHANGED incident => Opened' \in SUBSET Opened
  BY DEF Opened
<1>c. \A at : [job[a] EXCEPT !.at = at].at = at
  BY <1>0 DEF Call
<1>d. /\ Free.at = "idle" /\ \A p : [Free EXCEPT !.at = "count", !.pod = p].at = "count"
      /\ \A i : [Free EXCEPT !.at = "resolve", !.inc = i].at = "resolve"
      /\ \A p, i : [Free EXCEPT !.at = "applied", !.pod = p, !.inc = i].at = "applied"
  BY DEF Free
<1>e. \A i, x : /\ incident' = [incident EXCEPT ![i].burn = x] => Opened' \in SUBSET Opened
                /\ incident' = [incident EXCEPT ![i].paged = x] => Opened' \in SUBSET Opened
  BY DEF Opened, HealTypeOK, Row
<1> HIDE DEF Goal
<1>1. CASE Poll(a)
  BY <1>1, OpenKept DEF Poll, Goal, Opened, Openers
<1>2. ASSUME NEW p \in Pod, Handle(a, p) PROVE Goal
  <2>1. CASE UNCHANGED job
    BY <1>2, <2>1, OpenKept DEF Handle, Goal, Opened, Openers
  <2>2. Opened' \in SUBSET Opened
    BY <1>2, <1>b DEF Handle
  <2>3. CASE job' = [job EXCEPT ![a] = [Free EXCEPT !.at = "count", !.pod = p]]
    BY <1>a, <1>d, <2>2, <2>3
  <2> QED
    BY <1>2, <2>1, <2>3 DEF Handle
<1>3. CASE a \in Healer /\ (Look(a) \/ Open(a))
  BY <1>3, LookStep, OpenStep DEF Goal
<1>4. CASE Count(a)
  <2> DEFINE j == [job[a] EXCEPT !.at = "look", !.count = fixes[job[a].pod]]
  <2>1. job' = [job EXCEPT ![a] = j] /\ j.at = "look"
    BY <1>0, <1>4 DEF Count, Call
  <2>2. Opened' \in SUBSET Opened
    BY <1>4, <1>b DEF Count
  <2> HIDE DEF j
  <2> QED
    BY <1>a, <2>1, <2>2
<1>5. CASE Burn(a) \/ Note(a)
  <2>1. Opened' \in SUBSET Opened
    BY <1>5, <1>b, <1>e DEF Burn, Note
  <2>2. \E at \in {"note", "act"} : job' = [job EXCEPT ![a] = [job[a] EXCEPT !.at = at]]
    BY <1>5 DEF Burn, Note
  <2> QED
    BY <1>a, <1>c, <2>1, <2>2
<1>6. CASE Escalate(a)
  <2>1. Opened' \in SUBSET Opened
    BY <1>6, <1>b, <1>e DEF Escalate
  <2>2. job' = [job EXCEPT ![a] = Free]
    BY <1>6 DEF Escalate
  <2> QED
    BY <1>a, <1>d, <2>1, <2>2
<1>7. CASE Restart(a)
  <2> DEFINE j == [job[a] EXCEPT !.at = "verify", !.count = 0]
  <2>1. job' = [job EXCEPT ![a] = j] /\ j.at = "verify"
    BY <1>0, <1>7 DEF Restart, Call
  <2>2. Opened' \in SUBSET Opened
    BY <1>7, <1>b DEF Restart
  <2> HIDE DEF j
  <2> QED
    BY <1>a, <2>1, <2>2
<1>8. CASE Verify(a)
  <2>1. Opened' \in SUBSET Opened
    BY <1>8, <1>b DEF Verify
  <2>2. job' = [job EXCEPT ![a] = Free] \/
          job' = [job EXCEPT ![a] = [Free EXCEPT !.at = "resolve", !.inc = job[a].inc]]
    BY <1>8 DEF Verify
  <2>3. CASE job' = [job EXCEPT ![a] = Free]
    BY <1>a, <1>d, <2>1, <2>3
  <2>4. CASE job' = [job EXCEPT ![a] = [Free EXCEPT !.at = "resolve", !.inc = job[a].inc]]
    BY <1>a, <1>d, <2>1, <2>4
  <2> QED
    BY <2>2, <2>3, <2>4
<1>9. CASE ClosePage(a) \/ EndBurn(a)
  <2>1. Opened' \in SUBSET Opened
    BY <1>9, <1>b, <1>e DEF ClosePage, EndBurn
  <2>2. job' = [job EXCEPT ![a] = Free] \/
          job' = [job EXCEPT ![a] = [job[a] EXCEPT !.at = "endBurn"]]
    BY <1>9 DEF ClosePage, EndBurn
  <2>3. CASE job' = [job EXCEPT ![a] = Free]
    BY <1>a, <1>d, <2>1, <2>3
  <2>4. CASE job' = [job EXCEPT ![a] = [job[a] EXCEPT !.at = "endBurn"]]
    <3> DEFINE j == [job[a] EXCEPT !.at = "endBurn"]
    <3>1. j.at # "open"
      BY <1>c
    <3>2. job' = [job EXCEPT ![a] = j]
      BY <2>4
    <3> HIDE DEF j
    <3> QED
      BY <1>a, <2>1, <3>1, <3>2
  <2> QED
    BY <2>2, <2>3, <2>4
<1>10. CASE Resolve(a)
  <2> DEFINE b == incident[job[a].inc].burn \in {"noted", "ended"}
             j == [job[a] EXCEPT !.at = "closePage", !.ends = b]
  <2>1. job' = [job EXCEPT ![a] = j]
    BY <1>10 DEF Resolve
  <2>2. j.at = "closePage"
    BY <1>0 DEF Call
  <2>3. Opened' \in SUBSET Opened
    BY <1>10 DEF Resolve, Opened, HealTypeOK, Row
  <2> HIDE DEF j
  <2> QED
    BY <1>a, <2>1, <2>2, <2>3
<1>11. ASSUME NEW i \in Incident, HumanResolves(a, i) PROVE Goal
  BY <1>11, <1>a, <1>b, <1>d DEF HumanResolves
<1>12. CASE ApplyFix(a) \/ VerifyFix(a)
  <2>1. Opened' \in SUBSET Opened
    BY <1>12, <1>b DEF ApplyFix, VerifyFix
  <2>2. \/ job' = [job EXCEPT ![a] = Free]
        \/ job' = [job EXCEPT ![a] = [Free EXCEPT !.at = "resolve", !.inc = job[a].inc]]
        \/ \E p, i : job' = [job EXCEPT ![a] = [Free EXCEPT !.at = "applied", !.pod = p,
                                                            !.inc = i]]
    BY <1>12 DEF ApplyFix, VerifyFix
  <2>3. CASE job' = [job EXCEPT ![a] = Free]
    BY <1>a, <1>d, <2>1, <2>3
  <2>4. CASE job' = [job EXCEPT ![a] = [Free EXCEPT !.at = "resolve", !.inc = job[a].inc]]
    BY <1>a, <1>d, <2>1, <2>4
  <2>5. ASSUME NEW p, NEW i,
               job' = [job EXCEPT ![a] = [Free EXCEPT !.at = "applied", !.pod = p, !.inc = i]]
        PROVE  Goal
    <3> DEFINE j == [Free EXCEPT !.at = "applied", !.pod = p, !.inc = i]
    <3>1. j.at # "open"
      BY <1>d
    <3>2. job' = [job EXCEPT ![a] = j]
      BY <2>5
    <3> HIDE DEF j
    <3> QED
      BY <1>a, <2>1, <3>1, <3>2
  <2> QED
    BY <2>2, <2>3, <2>4, <2>5
<1> QED
  BY <1>1, <1>2, <1>3, <1>4, <1>5, <1>6, <1>7, <1>8, <1>9, <1>10, <1>11, <1>12
  DEF HealerStep, HumanStep

\* There are never more open incidents of a service than healers.
THEOREM IncidentsAreBounded == HealSpec => []OpenIncidentsBounded
<1> DEFINE Inv == HealTypeOK /\ HasIncident /\ OpenInv
<1>1. HealInit => Inv
  <2> SUFFICES ASSUME HealInit PROVE OpenInv
    BY TypeInit
  <2>1. Opened = {} /\ Openers = {}
    BY DEF HealInit, Opened, Openers, Free, Actor
  <2> QED
    BY <2>1, FS_EmptySet, OpenSetsAreFinite DEF OpenInv
<1>2. Inv /\ [HealNext]_healVars => Inv'
  <2> SUFFICES ASSUME Inv, [HealNext]_healVars PROVE OpenInv'
    BY TypeStep
  <2>1. CASE UNCHANGED <<job, incident>>
    BY <2>1 DEF OpenInv, Opened, Openers
  <2>2. CASE Die
    <3>1. Openers' \in SUBSET Openers /\ Opened' \in SUBSET Opened
      BY <2>2 DEF Die, Openers, Opened, Actor, Free
    <3> QED
      BY <3>1, OpenKept
  <2>3. ASSUME NEW a \in Actor,
               (a \in Healer /\ HealerStep(a)) \/ (a \in Human /\ HumanStep(a))
        PROVE  OpenInv'
    BY <2>3, ActorOpens
  <2> QED
    BY <2>1, <2>2, <2>3 DEF HealNext, Crash, HealTick, healVars, Actor
<1>3. Inv => OpenIncidentsBounded
  BY OpenSetsAreFinite DEF OpenInv, OpenIncidentsBounded
<1> QED
  BY <1>1, <1>2, <1>3, PTL DEF HealSpec

-----------------------------------------------------------------------------
(* Resolutions are complete.                                               *)

Fresh(i) == incident[i].status = "none"

\* A row that was not inserted yet is empty, and nobody knows of it.
FreshInv ==
    /\ \A i \in Incident : Fresh(i) => incident[i].burn = "none" /\ ~ incident[i].paged
    /\ \A a \in Actor : job[a].inc \in Incident => ~ Fresh(job[a].inc)
    /\ \A x \in proposals : x[2] \in Incident => ~ Fresh(x[2])

\* A burn that is not noted has its opener; a resolved incident has no opener,
\* and somebody who will close what is open of it.
Tidy(i) ==
    /\ incident[i].burn = "running" => \E a \in Actor : job[a].at = "note" /\ job[a].inc = i
    /\ incident[i].status = "resolved" =>
        /\ \A a \in Actor : ~ Opening(a, i)
        /\ incident[i].paged => \E a \in Actor : job[a].at = "closePage" /\ job[a].inc = i
        /\ incident[i].burn = "noted" => \E a \in Actor :
            job[a].at \in {"closePage", "endBurn"} /\ job[a].inc = i /\ job[a].ends

TidyInv == \A i \in Incident \ torn : Tidy(i)

\* Steps that neither touch a row nor begin or end an opening or a resolution.
LEMMA AsideStep ==
  ASSUME HealTypeOK, FreshInv, TidyInv, NEW a \in Actor, NEW j,
         job' = [job EXCEPT ![a] = j], UNCHANGED <<incident, torn>>,
         job[a].at \notin {"note", "closePage", "endBurn"},
         j.at \notin {"burn", "note"},
         j.inc \in Incident => ~ Fresh(j.inc),
         \A x \in proposals' : x \in proposals \/ (x[2] \in Incident => ~ Fresh(x[2]))
  PROVE  FreshInv' /\ TidyInv'
<1>1. job'[a] = j /\ \A b \in Actor : b # a => job'[b] = job[b]
  BY DEF HealTypeOK
<1>2. FreshInv'
  BY <1>1 DEF FreshInv, Fresh
<1>3. ASSUME NEW i \in Incident \ torn PROVE Tidy(i)'
  <2>1. Tidy(i)
    BY DEF TidyInv
  <2>2. \A b \in Actor : job[b].at \in {"note", "closePage", "endBurn"} => job'[b] = job[b]
    BY <1>1
  <2>3. \A b \in Actor : Opening(b, i)' => Opening(b, i)
    BY <1>1 DEF Opening
  <2>4. incident'[i].burn = "running" => \E b \in Actor : job'[b].at = "note" /\ job'[b].inc = i
    BY <2>1, <2>2 DEF Tidy
  <2>5. incident'[i].status = "resolved" /\ incident'[i].paged =>
          \E b \in Actor : job'[b].at = "closePage" /\ job'[b].inc = i
    BY <2>1, <2>2 DEF Tidy
  <2>6. incident'[i].status = "resolved" /\ incident'[i].burn = "noted" =>
          \E b \in Actor : job'[b].at \in {"closePage", "endBurn"} /\ job'[b].inc = i /\ job'[b].ends
    BY <2>1, <2>2 DEF Tidy
  <2>7. incident'[i].status = "resolved" => \A b \in Actor : ~ Opening(b, i)'
    BY <2>1, <2>3 DEF Tidy
  <2> QED
    BY <2>4, <2>5, <2>6, <2>7 DEF Tidy
<1> QED
  BY <1>2, <1>3 DEF TidyInv

\* A row other than n, when an actor's call moves on with n.
LEMMA OtherRow ==
  ASSUME HealTypeOK, TidyInv, NEW a \in Actor, NEW j, NEW n, NEW r,
         job' = [job EXCEPT ![a] = j], incident' = [incident EXCEPT ![n] = r],
         job[a].inc = n \/ job[a].at \notin {"note", "closePage", "endBurn"},
         j.inc = n \/ j.at \notin {"burn", "note"},
         NEW i \in Incident \ torn, i # n
  PROVE  Tidy(i)'
<1>1. job'[a] = j /\ \A b \in Actor : b # a => job'[b] = job[b]
  BY DEF HealTypeOK
<1>2. incident'[i] = incident[i]
  BY DEF HealTypeOK
<1>3. Tidy(i)
  BY DEF TidyInv
<1>4. \A b \in Actor : job[b].at \in {"note", "closePage", "endBurn"} /\ job[b].inc = i
                         => job'[b] = job[b]
  BY <1>1
<1>5. \A b \in Actor : Opening(b, i)' => Opening(b, i)
  BY <1>1 DEF Opening
<1>6. incident'[i].burn = "running" => \E b \in Actor : job'[b].at = "note" /\ job'[b].inc = i
  BY <1>2, <1>3, <1>4 DEF Tidy
<1>7. incident'[i].status = "resolved" /\ incident'[i].paged =>
        \E b \in Actor : job'[b].at = "closePage" /\ job'[b].inc = i
  BY <1>2, <1>3, <1>4 DEF Tidy
<1>8. incident'[i].status = "resolved" /\ incident'[i].burn = "noted" =>
        \E b \in Actor : job'[b].at \in {"closePage", "endBurn"} /\ job'[b].inc = i /\ job'[b].ends
  BY <1>2, <1>3, <1>4 DEF Tidy
<1>9. incident'[i].status = "resolved" => \A b \in Actor : ~ Opening(b, i)'
  BY <1>2, <1>3, <1>5 DEF Tidy
<1> QED
  BY <1>6, <1>7, <1>8, <1>9 DEF Tidy

\* The row itself: once it is inserted it stays, and the rest is one obligation.
LEMMA OwnRow ==
  ASSUME HealTypeOK, HasIncident, FreshInv, TidyInv, NEW a \in Actor, NEW j,
         NEW n \in Incident, NEW r,
         job' = [job EXCEPT ![a] = j], incident' = [incident EXCEPT ![n] = r],
         job[a].inc = n \/ job[a].at \notin {"note", "closePage", "endBurn"},
         \/ j.inc = n
         \/ j.at \notin {"burn", "note"} /\ (j.inc = NoIncident \/ ~ Fresh(j.inc)),
         r.status # "none", proposals' \subseteq proposals, torn \subseteq torn',
         n \notin torn' => Tidy(n)'
  PROVE  FreshInv' /\ TidyInv'
<1>1. job'[a] = j /\ \A b \in Actor : b # a => job'[b] = job[b]
  BY DEF HealTypeOK
<1>2. incident'[n] = r /\ \A i \in Incident : i # n => incident'[i] = incident[i]
  BY DEF HealTypeOK
<1>3. \A i \in Incident : ~ Fresh(i) => ~ Fresh(i)'
  BY <1>2 DEF Fresh
<1>4. NoIncident \notin Incident /\ ~ Fresh(n)'
  BY <1>2 DEF NoIncident, Incident, Fresh
<1>5. \A i \in Incident : Fresh(i)' => incident'[i].burn = "none" /\ ~ incident'[i].paged
  BY <1>2 DEF FreshInv, Fresh
<1>6. ASSUME NEW b \in Actor, job'[b].inc \in Incident
      PROVE  incident'[job'[b].inc].status # "none"
  <2>1. CASE b = a
    BY <1>1, <1>2, <1>4, <1>6, <2>1 DEF Fresh
  <2>2. CASE b # a
    BY <1>1, <1>2, <1>6, <2>2 DEF FreshInv, Fresh
  <2> QED
    BY <2>1, <2>2
<1>7. \A x \in proposals' : x[2] \in Incident => incident'[x[2]].status # "none"
  BY <1>2 DEF FreshInv, Fresh
<1>8. \A i \in Incident \ torn' : Tidy(i)'
  BY OtherRow
<1>9. FreshInv'
  BY <1>5, <1>6, <1>7 DEF FreshInv, Fresh
<1> QED
  BY <1>8, <1>9 DEF TidyInv

\* Every step of a healer or a person keeps fresh rows empty and others tidy.
LEMMA TidyActor ==
  ASSUME HealTypeOK, HasIncident, FreshInv, TidyInv, NEW a \in Actor,
         (a \in Healer /\ HealerStep(a)) \/ (a \in Human /\ HumanStep(a))
  PROVE  FreshInv' /\ TidyInv'
<1> DEFINE Goal == FreshInv' /\ TidyInv'
           Ends == {"note", "closePage", "endBurn"}
<1> SUFFICES Goal
  OBVIOUS
<1>0. job[a] \in Call
  BY DEF HealTypeOK
<1>a. ASSUME NEW j, job' = [job EXCEPT ![a] = j], UNCHANGED <<incident, torn>>,
             job[a].at \notin Ends, j.at \notin {"burn", "note"},
             j.inc \in Incident => ~ Fresh(j.inc), proposals' \subseteq proposals
      PROVE  Goal
  BY <1>a, AsideStep
<1>b. UNCHANGED <<job, incident, torn, proposals>> => Goal
  BY DEF FreshInv, TidyInv, Tidy, Fresh, Opening
<1>c. \A at : /\ [job[a] EXCEPT !.at = at].at = at
              /\ [job[a] EXCEPT !.at = at].inc = job[a].inc
              /\ [job[a] EXCEPT !.at = at].ends = job[a].ends
  BY <1>0 DEF Call
<1>d. /\ Free.at = "idle" /\ Free.inc = NoIncident
      /\ \A p : /\ [Free EXCEPT !.at = "count", !.pod = p].at = "count"
                /\ [Free EXCEPT !.at = "count", !.pod = p].inc = NoIncident
      /\ \A i : /\ [Free EXCEPT !.at = "resolve", !.inc = i].at = "resolve"
                /\ [Free EXCEPT !.at = "resolve", !.inc = i].inc = i
      /\ \A p, i : /\ [Free EXCEPT !.at = "applied", !.pod = p, !.inc = i].at = "applied"
                   /\ [Free EXCEPT !.at = "applied", !.pod = p, !.inc = i].inc = i
  BY DEF Free
<1>e. NoIncident \notin Incident
  BY DEF NoIncident, Incident
<1>f. job[a].inc \in Incident => ~ Fresh(job[a].inc) /\ incident[job[a].inc] \in Row
  BY DEF FreshInv, HealTypeOK
<1> HIDE DEF Goal
<1>1. CASE Poll(a)
  BY <1>1, <1>b DEF Poll
<1>2. ASSUME NEW p \in Pod, Handle(a, p) PROVE Goal
  <2>1. CASE UNCHANGED job
    BY <1>2, <1>b, <2>1 DEF Handle
  <2>2. CASE job' = [job EXCEPT ![a] = [Free EXCEPT !.at = "count", !.pod = p]]
    <3> DEFINE j == [Free EXCEPT !.at = "count", !.pod = p]
    <3>1. job' = [job EXCEPT ![a] = j] /\ j.at = "count" /\ j.inc \notin Incident
      BY <1>d, <1>e, <2>2
    <3> HIDE DEF j
    <3> QED
      BY <1>2, <1>a, <3>1 DEF Handle
  <2> QED
    BY <1>2, <2>1, <2>2 DEF Handle
<1>3. CASE Count(a)
  <2> DEFINE j == [job[a] EXCEPT !.at = "look", !.count = fixes[job[a].pod]]
  <2>1. job' = [job EXCEPT ![a] = j] /\ j.at = "look" /\ j.inc = job[a].inc
    BY <1>0, <1>3 DEF Count, Call
  <2> HIDE DEF j
  <2> QED
    BY <1>3, <1>a, <1>f, <2>1 DEF Count
<1>4. CASE Look(a)
  <2>1. ASSUME NEW i \in Incident, Newest(i), NEW n \in {i, NoIncident},
               job' = [job EXCEPT ![a].at = "act", ![a].inc = n]
        PROVE  Goal
    <3> DEFINE j == [job[a] EXCEPT !.at = "act", !.inc = n]
    <3>1. job' = [job EXCEPT ![a] = j] /\ j.at = "act" /\ j.inc = n
      BY <1>0, <2>1 DEF Call
    <3>2. n \in Incident => ~ Fresh(n)
      BY <1>e, <2>1 DEF Newest, Opened, Fresh
    <3> HIDE DEF j
    <3> QED
      BY <1>4, <1>a, <3>1, <3>2 DEF Look
  <2>2. CASE job' = [job EXCEPT ![a].at = "open"]
    BY <1>4, <1>a, <1>c, <1>f, <2>2 DEF Look
  <2> QED
    BY <1>4, <2>1, <2>2 DEF Look
<1>5. CASE Open(a)
  <2>1. ASSUME NEW n \in Incident, incident[n].status = "none",
               incident' = [incident EXCEPT ![n].status = "open"],
               job' = [job EXCEPT ![a].at = "burn", ![a].inc = n]
        PROVE  Goal
    <3> DEFINE j == [job[a] EXCEPT !.at = "burn", !.inc = n]
               r == [incident[n] EXCEPT !.status = "open"]
    <3>1. /\ job' = [job EXCEPT ![a] = j] /\ j.inc = n
          /\ incident' = [incident EXCEPT ![n] = r] /\ r.status = "open" /\ r.burn = "none"
      BY <1>0, <2>1 DEF Call, HealTypeOK, Row, FreshInv, Fresh
    <3>2. incident'[n] = r
      BY <3>1 DEF HealTypeOK
    <3> HIDE DEF j, r
    <3>3. Tidy(n)'
      BY <3>1, <3>2 DEF Tidy
    <3>4. UNCHANGED <<torn, proposals>> /\ job[a].at = "open"
      BY <1>5 DEF Open
    <3> QED
      BY <3>1, <3>3, <3>4, OwnRow DEF Goal
  <2>2. CASE job' = [job EXCEPT ![a].at = "act"] /\ UNCHANGED incident
    BY <1>5, <1>a, <1>c, <1>f, <2>2 DEF Open
  <2>3. ASSUME NEW n \in Incident, incident[n].status = "none",
               incident' = [incident EXCEPT ![n].status = "open"],
               job' = [job EXCEPT ![a].at = "act"]
        PROVE  Goal
    <3> DEFINE j == [job[a] EXCEPT !.at = "act"]
               r == [incident[n] EXCEPT !.status = "open"]
    <3>1. /\ job' = [job EXCEPT ![a] = j] /\ j.at = "act" /\ j.inc = job[a].inc
          /\ incident' = [incident EXCEPT ![n] = r] /\ r.status = "open" /\ r.burn = "none"
      BY <1>0, <2>3 DEF Call, HealTypeOK, Row, FreshInv, Fresh
    <3>2. incident'[n] = r
      BY <3>1 DEF HealTypeOK
    <3>3. j.inc = NoIncident \/ ~ Fresh(j.inc)
      BY <1>0, <1>f, <3>1 DEF Call
    <3> HIDE DEF j, r
    <3>4. Tidy(n)'
      BY <3>1, <3>2 DEF Tidy
    <3>5. UNCHANGED <<torn, proposals>> /\ job[a].at = "open"
      BY <1>5 DEF Open
    <3> QED
      BY <3>1, <3>3, <3>4, <3>5, OwnRow DEF Goal
  <2> QED
    BY <1>5, <2>1, <2>2, <2>3 DEF Open
<1>6. CASE Restart(a)
  <2> DEFINE j == [job[a] EXCEPT !.at = "verify", !.count = 0]
  <2>1. job' = [job EXCEPT ![a] = j] /\ j.at = "verify" /\ j.inc = job[a].inc
    BY <1>0, <1>6 DEF Restart, Call
  <2> HIDE DEF j
  <2> QED
    BY <1>6, <1>a, <1>f, <2>1 DEF Restart
<1>7. CASE Verify(a)
  <2>1. PICK j : /\ job' = [job EXCEPT ![a] = j] /\ j.at \in {"idle", "resolve"}
                 /\ j.inc \in {NoIncident, job[a].inc}
    <3>1. CASE job' = [job EXCEPT ![a] = Free]
      BY <1>d, <3>1
    <3>2. CASE job' = [job EXCEPT ![a] = [Free EXCEPT !.at = "resolve", !.inc = job[a].inc]]
      <4> DEFINE j == [Free EXCEPT !.at = "resolve", !.inc = job[a].inc]
      <4>1. job' = [job EXCEPT ![a] = j] /\ j.at = "resolve" /\ j.inc = job[a].inc
        BY <1>d, <3>2
      <4> HIDE DEF j
      <4> QED
        BY <4>1
    <3> QED
      BY <1>7, <3>1, <3>2 DEF Verify
  <2>2. \A x \in proposals' : x \in proposals \/ x[2] = job[a].inc
    BY <1>7 DEF Verify
  <2>3. job[a].at = "verify" /\ UNCHANGED <<incident, torn>>
    BY <1>7 DEF Verify
  <2> QED
    BY <1>e, <1>f, <2>1, <2>2, <2>3, AsideStep DEF Goal
<1>8. ASSUME NEW n \in Incident, HumanResolves(a, n) PROVE Goal
  <2>1. ~ Fresh(n)
    BY <1>8 DEF HumanResolves, Fresh
  <2> DEFINE j == [Free EXCEPT !.at = "resolve", !.inc = n]
  <2>2. job' = [job EXCEPT ![a] = j] /\ j.at = "resolve" /\ j.inc = n
    BY <1>8, <1>d DEF HumanResolves
  <2> HIDE DEF j
  <2> QED
    BY <1>8, <1>a, <2>1, <2>2 DEF HumanResolves
<1>9. CASE ApplyFix(a)
  <2>1. PICK fix \in proposals :
          /\ proposals' = proposals \ {fix}
          /\ job' = [job EXCEPT ![a] = [Free EXCEPT !.at = "applied", !.pod = fix[1],
                                                    !.inc = fix[2]]]
    BY <1>9 DEF ApplyFix
  <2> DEFINE j == [Free EXCEPT !.at = "applied", !.pod = fix[1], !.inc = fix[2]]
  <2>2. j.at = "applied" /\ j.inc = fix[2]
    BY <1>d
  <2>3. fix[2] \in Incident => ~ Fresh(fix[2])
    BY DEF FreshInv
  <2>4. job' = [job EXCEPT ![a] = j]
    BY <2>1
  <2> HIDE DEF j
  <2> QED
    BY <1>9, <1>a, <2>1, <2>2, <2>3, <2>4 DEF ApplyFix
<1>10. CASE VerifyFix(a)
  <2>1. CASE job' = [job EXCEPT ![a] = Free]
    BY <1>10, <1>a, <1>d, <1>e, <2>1 DEF VerifyFix
  <2>2. CASE job' = [job EXCEPT ![a] = [Free EXCEPT !.at = "resolve", !.inc = job[a].inc]]
    BY <1>10, <1>a, <1>d, <1>f, <2>2 DEF VerifyFix
  <2> QED
    BY <1>10, <2>1, <2>2 DEF VerifyFix
<1>11. CASE Escalate(a) /\ job[a].inc = NoIncident
  BY <1>11, <1>a, <1>d, <1>e DEF Escalate
\* The steps that write the row of the call.
<1>g. ASSUME NEW n \in Incident, n = job[a].inc, NEW j, NEW r,
             job' = [job EXCEPT ![a] = j], incident' = [incident EXCEPT ![n] = r],
             j.inc = n \/ j = Free, r.status # "none",
             UNCHANGED proposals, torn \subseteq torn', n \notin torn' => Tidy(n)'
      PROVE  Goal
  <2>1. j.inc = n \/ (j.inc = NoIncident /\ j.at \notin {"burn", "note"})
    BY <1>d, <1>g
  <2>2. proposals' \subseteq proposals
    BY <1>g
  <2> QED
    BY <1>g, <2>1, <2>2, OwnRow DEF Goal
<1>h. ASSUME NEW n \in Incident, n = job[a].inc
      PROVE  /\ n \notin torn => Tidy(n)
             /\ incident[n] \in Row /\ incident[n].status # "none"
             /\ \A r : incident' = [incident EXCEPT ![n] = r] => incident'[n] = r
             /\ \A j : job' = [job EXCEPT ![a] = j] =>
                         job'[a] = j /\ \A b \in Actor : b # a => job'[b] = job[b]
  BY <1>f, <1>h DEF TidyInv, Fresh, HealTypeOK
\* A call that fails leaves the row alone and is remembered.
<1>i. ASSUME NEW n \in Incident, n = job[a].inc, NEW j, job' = [job EXCEPT ![a] = j],
             j.inc = n \/ j = Free, UNCHANGED <<incident, proposals>>, torn' = torn \cup {n}
      PROVE  Goal
  <2>1. incident' = [incident EXCEPT ![n] = incident[n]]
    BY <1>i DEF HealTypeOK
  <2>2. incident[n].status # "none" /\ n \in torn' /\ torn \subseteq torn'
    BY <1>h, <1>i
  <2> QED
    BY <1>g, <1>i, <2>1, <2>2
<1>12. ASSUME NEW n \in Incident, n = job[a].inc, Escalate(a) PROVE Goal
  <2> DEFINE r == [incident[n] EXCEPT !.paged = TRUE]
  <2>1. /\ job' = [job EXCEPT ![a] = Free] /\ incident' = [incident EXCEPT ![n] = r]
        /\ job[a].at = "act" /\ UNCHANGED proposals
        /\ torn' = IF incident[n].status = "resolved" THEN torn \cup {n} ELSE torn
    BY <1>12, <1>e DEF Escalate
  <2>2. r.status = incident[n].status /\ r.burn = incident[n].burn
    BY <1>h, <1>12 DEF Row
  <2> HIDE DEF r
  <2>3. ASSUME n \notin torn' PROVE Tidy(n)'
    <3>1. incident[n].status # "resolved" /\ Tidy(n)
      BY <1>h, <1>12, <2>1, <2>3
    <3>2. incident'[n] = r /\ \A b \in Actor : job[b].at = "note" => job'[b] = job[b]
      BY <1>h, <1>12, <2>1
    <3> QED
      BY <2>2, <3>1, <3>2 DEF Tidy
  <2>4. r.status # "none" /\ torn \subseteq torn'
    BY <1>h, <1>12, <2>1, <2>2
  <2> QED
    BY <1>12, <1>g, <2>1, <2>3, <2>4
<1>13. ASSUME NEW n \in Incident, n = job[a].inc, Burn(a) PROVE Goal
  <2> DEFINE r == [incident[n] EXCEPT !.burn = "running"]
             j == [job[a] EXCEPT !.at = "note"]
             k == [job[a] EXCEPT !.at = "act"]
  <2>1. job[a].at = "burn" /\ UNCHANGED <<proposals, torn>>
    BY <1>13 DEF Burn
  <2>2. \/ job' = [job EXCEPT ![a] = j] /\ incident' = [incident EXCEPT ![n] = r]
        \/ job' = [job EXCEPT ![a] = k] /\ UNCHANGED incident
    BY <1>13 DEF Burn
  <2>3. r.status = incident[n].status /\ j.at = "note" /\ j.inc = n
    BY <1>c, <1>h, <1>13 DEF Row
  <2>4. k.at = "act" /\ k.inc = n
    BY <1>c, <1>13
  <2> HIDE DEF r, j, k
  <2>5. CASE job' = [job EXCEPT ![a] = j] /\ incident' = [incident EXCEPT ![n] = r]
    <3>1. ASSUME n \notin torn' PROVE Tidy(n)'
      <4>1. incident[n].status # "resolved"
        BY <1>h, <1>13, <2>1, <3>1 DEF Tidy, Opening
      <4>2. incident'[n] = r /\ job'[a] = j
        BY <1>h, <1>13, <2>5
      <4> QED
        BY <2>3, <4>1, <4>2 DEF Tidy
    <3> QED
      BY <1>13, <1>g, <1>h, <2>1, <2>3, <2>5, <3>1
  <2>6. CASE job' = [job EXCEPT ![a] = k] /\ UNCHANGED incident
    BY <1>13, <1>a, <1>f, <2>1, <2>4, <2>6
  <2> QED
    BY <2>2, <2>5, <2>6
<1>14. ASSUME NEW n \in Incident, n = job[a].inc, Note(a) PROVE Goal
  <2> DEFINE r == [incident[n] EXCEPT !.burn = "noted"]
             j == [job[a] EXCEPT !.at = "act"]
  <2>1. job' = [job EXCEPT ![a] = j] /\ job[a].at = "note" /\ UNCHANGED proposals
    BY <1>14 DEF Note
  <2>2. \/ incident' = [incident EXCEPT ![n] = r] /\ UNCHANGED torn
        \/ torn' = torn \cup {n} /\ UNCHANGED incident
    BY <1>14 DEF Note
  <2>3. r.status = incident[n].status /\ r.burn = "noted" /\ j.inc = n
    BY <1>c, <1>h, <1>14 DEF Row
  <2> HIDE DEF r, j
  <2>4. CASE incident' = [incident EXCEPT ![n] = r] /\ UNCHANGED torn
    <3>1. ASSUME n \notin torn' PROVE Tidy(n)'
      <4>1. incident[n].status # "resolved"
        BY <1>h, <1>14, <2>1, <2>4, <3>1 DEF Tidy, Opening
      <4>2. incident'[n] = r
        BY <1>h, <1>14, <2>4
      <4> QED
        BY <2>3, <4>1, <4>2 DEF Tidy
    <3> QED
      BY <1>14, <1>g, <1>h, <2>1, <2>3, <2>4, <3>1
  <2>5. CASE torn' = torn \cup {n} /\ UNCHANGED incident
    BY <1>14, <1>i, <2>1, <2>3, <2>5
  <2> QED
    BY <2>2, <2>4, <2>5
<1>15. ASSUME NEW n \in Incident, n = job[a].inc, Resolve(a) PROVE Goal
  <2> DEFINE r == [incident[n] EXCEPT !.status = "resolved"]
             e == incident[n].burn \in {"noted", "ended"}
             j == [job[a] EXCEPT !.at = "closePage", !.ends = e]
  <2>1. /\ job' = [job EXCEPT ![a] = j] /\ incident' = [incident EXCEPT ![n] = r]
        /\ job[a].at = "resolve" /\ UNCHANGED proposals
        /\ torn' = IF \E b \in Actor : Opening(b, n) THEN torn \cup {n} ELSE torn
    BY <1>15 DEF Resolve
  <2>2. /\ r.status = "resolved" /\ r.burn = incident[n].burn
        /\ j.at = "closePage" /\ j.inc = n /\ j.ends = e
    BY <1>0, <1>h, <1>15 DEF Row, Call
  <2> HIDE DEF r, j
  <2>3. ASSUME n \notin torn' PROVE Tidy(n)'
    <3>1. Tidy(n) /\ \A b \in Actor : ~ Opening(b, n)
      BY <1>h, <1>15, <2>1, <2>3
    <3>2. incident[n].burn # "running"
      BY <3>1 DEF Tidy, Opening
    <3>3. incident'[n] = r /\ job'[a] = j /\ \A b \in Actor : b # a => job'[b] = job[b]
      BY <1>h, <1>15, <2>1
    <3>4. \A b \in Actor : ~ Opening(b, n)'
      BY <2>2, <3>1, <3>3 DEF Opening
    <3>5. incident'[n].burn = "noted" => job'[a].ends
      BY <2>2, <3>3
    <3> QED
      BY <2>2, <3>2, <3>3, <3>4, <3>5 DEF Tidy
  <2>4. torn \subseteq torn'
    BY <2>1
  <2> QED
    BY <1>15, <1>g, <2>1, <2>2, <2>3, <2>4
<1>16. ASSUME NEW n \in Incident, n = job[a].inc, ClosePage(a) PROVE Goal
  <2> DEFINE r == [incident[n] EXCEPT !.paged = FALSE]
             j == [job[a] EXCEPT !.at = "endBurn"]
  <2>1. job[a].at = "closePage" /\ UNCHANGED proposals
    BY <1>16 DEF ClosePage
  <2>2. \/ /\ job' = [job EXCEPT ![a] = j] /\ incident' = [incident EXCEPT ![n] = r]
           /\ UNCHANGED torn
        \/ /\ job' = [job EXCEPT ![a] = j] \/ job' = [job EXCEPT ![a] = Free]
           /\ torn' = torn \cup {n} /\ UNCHANGED incident
    BY <1>16 DEF ClosePage
  <2>3. /\ r.status = incident[n].status /\ r.burn = incident[n].burn /\ ~ r.paged
        /\ j.at = "endBurn" /\ j.inc = n /\ j.ends = job[a].ends
    BY <1>c, <1>h, <1>16 DEF Row
  <2> HIDE DEF r, j
  <2>4. CASE /\ job' = [job EXCEPT ![a] = j] /\ incident' = [incident EXCEPT ![n] = r]
             /\ UNCHANGED torn
    <3>1. ASSUME n \notin torn' PROVE Tidy(n)'
      <4>1. Tidy(n)
        BY <1>h, <1>16, <2>4, <3>1
      <4>2. incident'[n] = r /\ job'[a] = j /\ \A b \in Actor : b # a => job'[b] = job[b]
        BY <1>h, <1>16, <2>4
      <4>3. incident'[n].burn = "running" => \E b \in Actor : job'[b].at = "note" /\ job'[b].inc = n
        BY <2>1, <2>3, <4>1, <4>2 DEF Tidy
      <4>4. incident'[n].status = "resolved" => \A b \in Actor : ~ Opening(b, n)'
        BY <2>3, <4>1, <4>2 DEF Tidy, Opening
      <4>5. incident'[n].status = "resolved" /\ incident'[n].burn = "noted" =>
              \E b \in Actor : /\ job'[b].at \in {"closePage", "endBurn"}
                               /\ job'[b].inc = n /\ job'[b].ends
        BY <2>3, <4>1, <4>2 DEF Tidy
      <4> QED
        BY <2>3, <4>2, <4>3, <4>4, <4>5 DEF Tidy
    <3> QED
      BY <1>16, <1>g, <1>h, <2>1, <2>3, <2>4, <3>1
  <2>5. CASE /\ job' = [job EXCEPT ![a] = j] \/ job' = [job EXCEPT ![a] = Free]
             /\ torn' = torn \cup {n} /\ UNCHANGED incident
    BY <1>16, <1>i, <2>1, <2>3, <2>5
  <2> QED
    BY <2>2, <2>4, <2>5
<1>17. ASSUME NEW n \in Incident, n = job[a].inc, EndBurn(a) PROVE Goal
  <2> DEFINE r == IF job[a].ends THEN [incident[n] EXCEPT !.burn = "ended"] ELSE incident[n]
  <2>1. job' = [job EXCEPT ![a] = Free] /\ job[a].at = "endBurn" /\ UNCHANGED proposals
    BY <1>17 DEF EndBurn
  <2>2. \/ incident' = [incident EXCEPT ![n] = r] /\ UNCHANGED torn
        \/ torn' = torn \cup {n} /\ UNCHANGED incident
    BY <1>17 DEF EndBurn, HealTypeOK
  <2>3. /\ r.status = incident[n].status /\ r.paged = incident[n].paged
        /\ r.burn = IF job[a].ends THEN "ended" ELSE incident[n].burn
    BY <1>h, <1>17 DEF Row
  <2> HIDE DEF r
  <2>4. CASE incident' = [incident EXCEPT ![n] = r] /\ UNCHANGED torn
    <3>1. ASSUME n \notin torn' PROVE Tidy(n)'
      <4>1. Tidy(n)
        BY <1>h, <1>17, <2>4, <3>1
      <4>2. incident'[n] = r /\ job'[a] = Free /\ \A b \in Actor : b # a => job'[b] = job[b]
        BY <1>h, <1>17, <2>1, <2>4
      <4>3. incident'[n].burn = "running" => \E b \in Actor : job'[b].at = "note" /\ job'[b].inc = n
        BY <2>1, <2>3, <4>1, <4>2 DEF Tidy
      <4>4. incident'[n].status = "resolved" => \A b \in Actor : ~ Opening(b, n)'
        BY <1>d, <2>3, <4>1, <4>2 DEF Tidy, Opening
      <4>5. incident'[n].status = "resolved" /\ incident'[n].paged =>
              \E b \in Actor : job'[b].at = "closePage" /\ job'[b].inc = n
        BY <2>1, <2>3, <4>1, <4>2 DEF Tidy
      <4>6. incident'[n].status = "resolved" /\ incident'[n].burn = "noted" =>
              \E b \in Actor : /\ job'[b].at \in {"closePage", "endBurn"}
                               /\ job'[b].inc = n /\ job'[b].ends
        BY <2>3, <4>1, <4>2 DEF Tidy
      <4> QED
        BY <4>3, <4>4, <4>5, <4>6 DEF Tidy
    <3> QED
      BY <1>17, <1>g, <1>h, <2>1, <2>3, <2>4, <3>1
  <2>5. CASE torn' = torn \cup {n} /\ UNCHANGED incident
    BY <1>17, <1>i, <2>1, <2>5
  <2> QED
    BY <2>2, <2>4, <2>5
<1>18. job[a].at \in {"burn", "note", "resolve", "closePage", "endBurn"} => job[a].inc \in Incident
  BY DEF HasIncident
<1>19. job[a].inc \in Incident \/ job[a].inc = NoIncident
  BY <1>0 DEF Call
<1>20. CASE Escalate(a)
  BY <1>11, <1>12, <1>19, <1>20
<1>21. CASE Burn(a) \/ Note(a) \/ Resolve(a) \/ ClosePage(a) \/ EndBurn(a)
  <2>1. job[a].inc \in Incident
    BY <1>18, <1>21 DEF Burn, Note, Resolve, ClosePage, EndBurn
  <2> QED
    BY <1>13, <1>14, <1>15, <1>16, <1>17, <1>21, <2>1
<1> QED
  BY <1>1, <1>2, <1>3, <1>4, <1>5, <1>6, <1>7, <1>8, <1>9, <1>10, <1>20, <1>21
  DEF HealerStep, HumanStep

\* Every step keeps fresh rows empty and others tidy.
LEMMA TidyStep ==
  ASSUME HealTypeOK, HasIncident, FreshInv, TidyInv, [HealNext]_healVars
  PROVE  FreshInv' /\ TidyInv'
<1>1. CASE UNCHANGED <<job, incident, torn, proposals>>
  BY <1>1 DEF FreshInv, TidyInv, Tidy, Fresh, Opening
<1>2. CASE Die
  <2>1. /\ \A a \in Actor : job'[a] = IF a \in Healer THEN Free ELSE job[a]
        /\ UNCHANGED <<incident, proposals>>
        /\ torn' = torn \cup {i \in Incident :
                                \E h \in Healer : Opening(h, i) \/ Resolving(h, i)}
    BY <1>2 DEF Die
  <2>2. Free.at = "idle" /\ Free.inc \notin Incident
    BY DEF Free, NoIncident, Incident
  <2>3. FreshInv'
    BY <2>1, <2>2 DEF FreshInv, Fresh
  <2>4. ASSUME NEW i \in Incident \ torn' PROVE Tidy(i)'
    <3>1. Tidy(i) /\ \A h \in Healer : ~ Opening(h, i) /\ ~ Resolving(h, i)
      BY <2>1, <2>4 DEF TidyInv
    <3>2. \A a \in Actor : Opening(a, i) \/ Resolving(a, i) => job'[a] = job[a]
      BY <2>1, <3>1
    <3>3. incident'[i].burn = "running" => \E b \in Actor : job'[b].at = "note" /\ job'[b].inc = i
      BY <2>1, <3>1, <3>2 DEF Tidy, Opening
    <3>4. incident'[i].status = "resolved" => \A b \in Actor : ~ Opening(b, i)'
      BY <2>1, <2>2, <3>1 DEF Tidy, Opening
    <3>5. incident'[i].status = "resolved" /\ incident'[i].paged =>
            \E b \in Actor : job'[b].at = "closePage" /\ job'[b].inc = i
      BY <2>1, <3>1, <3>2 DEF Tidy, Resolving
    <3>6. incident'[i].status = "resolved" /\ incident'[i].burn = "noted" =>
            \E b \in Actor : /\ job'[b].at \in {"closePage", "endBurn"}
                             /\ job'[b].inc = i /\ job'[b].ends
      BY <2>1, <3>1, <3>2 DEF Tidy, Resolving
    <3> QED
      BY <3>3, <3>4, <3>5, <3>6 DEF Tidy
  <2> QED
    BY <2>3, <2>4 DEF TidyInv
<1>3. ASSUME NEW a \in Actor,
             (a \in Healer /\ HealerStep(a)) \/ (a \in Human /\ HumanStep(a))
      PROVE  FreshInv' /\ TidyInv'
  BY <1>3, TidyActor
<1> QED
  BY <1>1, <1>2, <1>3 DEF HealNext, Crash, HealTick, healVars, Actor

\* A resolved incident has its page closed and its burn ended, unless it is torn.
THEOREM ResolutionsAreComplete == HealSpec => []ResolutionIsComplete
<1> DEFINE Inv == HealTypeOK /\ HasIncident /\ FreshInv /\ TidyInv
<1>1. HealInit => Inv
  <2> SUFFICES ASSUME HealInit PROVE FreshInv /\ TidyInv
    BY TypeInit
  <2>1. \A i \in Incident : incident[i] = [status |-> "none", burn |-> "none", paged |-> FALSE]
    BY DEF HealInit
  <2>2. \A a \in Actor : job[a].inc \notin Incident
    BY DEF HealInit, Free, NoIncident, Incident
  <2> QED
    BY <2>1, <2>2 DEF HealInit, FreshInv, TidyInv, Tidy, Fresh
<1>2. Inv /\ [HealNext]_healVars => Inv'
  BY TypeStep, TidyStep
<1>3. Inv => ResolutionIsComplete
  BY DEF TidyInv, Tidy, ResolutionIsComplete, Resolving, Opening
<1> QED
  BY <1>1, <1>2, <1>3, PTL DEF HealSpec

=============================================================================
