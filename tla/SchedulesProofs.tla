--------------------------- MODULE SchedulesProofs ---------------------------
(***************************************************************************)
(* Theorems about Schedules, for every set of processes, every policy and  *)
(* any number of hours, days and deaths.                                   *)
(***************************************************************************)
EXTENDS Schedules, FiniteSetTheorems, TLAPS

\* A key is an entry and a day.
LEMMA KeyOf ==
  /\ \A e \in Entry, n \in 1..MaxDays : <<e, n>> \in Key
  /\ \A k \in Key : k[1] \in Entry /\ k[2] \in 1..MaxDays
  /\ "up" \in Entry /\ "down" \in Entry
  /\ 1 \in 1..MaxDays /\ <<"up", 1>> \in Key
BY ScheduleAssumption DEF Key, Entry

\* The times that the code stores, and the calls that begin or end, are typed.
LEMMA Typed ==
  ASSUME ScheduleTypeOK
  PROVE  /\ Never \in Time /\ [day |-> day, hour |-> hour] \in Time
         /\ Resting \in ScheduleCall /\ Owed \in SUBSET Key
         /\ \A e \in Entry : [at |-> "claim", key |-> <<e, day>>,
                              owed |-> Owed, read |-> Never] \in ScheduleCall
<1>1. Never \in Time /\ [day |-> day, hour |-> hour] \in Time
  BY ScheduleAssumption DEF ScheduleTypeOK, Never, Time
<1>2. Owed \in SUBSET Key
  BY DEF Owed, Key, ScheduleTypeOK
<1>3. \A e \in Entry : <<e, day>> \in Key
  BY KeyOf DEF ScheduleTypeOK
<1> HIDE DEF Time
<1> QED
  BY <1>1, <1>2, <1>3, KeyOf DEF ScheduleCall, Resting

\* Time, policy, claims and the processes' progress keep the types of ScheduleTypeOK.
LEMMA TypeStep ==
  ASSUME ScheduleTypeOK, [ScheduleNext]_scheduleVars
  PROVE  ScheduleTypeOK'
<1> DEFINE RunOK == run' \in [Process -> ScheduleCall]
           AskedOK == asked' \in SUBSET Key
<1>1. CASE HourPasses
  <2>1. day' \in 1..MaxDays /\ hour' \in 0..LastHour
    BY <1>1, ScheduleAssumption DEF HourPasses, ScheduleTypeOK
  <2> QED
    BY <1>1, <2>1, Zenon DEF HourPasses, ScheduleTypeOK
<1>2. ASSUME NEW p \in Process, Wake(p) PROVE ScheduleTypeOK'
  <2>1. RunOK
    <3>1. \/ run' = run
          \/ \E e \in Entry : run' = [run EXCEPT ![p] =
               [at |-> "claim", key |-> <<e, day>>, owed |-> Owed, read |-> Never]]
      BY <1>2 DEF Wake, AskClaim, Entry
    <3> HIDE DEF Owed, Never
    <3> QED
      BY <3>1, Typed DEF ScheduleTypeOK
  <2>2. AskedOK
    <3>1. asked' = asked \cup Owed \/ asked' = asked
      BY <1>2, Zenon DEF Wake, AskClaim
    <3> QED
      BY <3>1, Typed DEF ScheduleTypeOK
  <2> QED
    BY <1>2, <2>1, <2>2, Zenon DEF Wake, ScheduleTypeOK
<1>3. ASSUME NEW p \in Process, Round(p) PROVE RunOK /\ AskedOK
  <2>1. run[p].owed \in SUBSET Key
    BY DEF ScheduleTypeOK, ScheduleCall
  <2> QED
    BY <1>3, <2>1, Typed DEF Round, ScheduleTypeOK
<1>4. ASSUME NEW p \in Process, ClaimRead(p) PROVE ScheduleTypeOK'
  <2>1. CASE Round(p)
    BY <1>3, <1>4, <2>1, Zenon DEF ClaimRead, ScheduleTypeOK
  <2>2. CASE Proceed(p)
    <3> DEFINE now == [day |-> day, hour |-> hour]
    <3>1. now \in Time /\ run' = [run EXCEPT ![p].at = "insert", ![p].read = now]
      BY <2>2, Typed DEF Proceed
    <3> HIDE DEF now, Time
    <3>2. RunOK
      BY <3>1 DEF ScheduleTypeOK, ScheduleCall
    <3> QED
      BY <1>4, <2>2, <3>2, Zenon DEF ClaimRead, Proceed, ScheduleTypeOK
  <2> QED
    BY <1>4, <2>1, <2>2 DEF ClaimRead
<1>5. ASSUME NEW p \in Process, ClaimInsert(p) PROVE ScheduleTypeOK'
  <2>1. RunOK /\ last' \in [Key -> Time]
    <3> HIDE DEF Time, Key, Never
    <3> QED
      BY <1>5, Typed DEF ClaimInsert, ScheduleTypeOK, ScheduleCall
  <2> QED
    BY <1>5, <2>1, Zenon DEF ClaimInsert, ScheduleTypeOK
<1>6. ASSUME NEW p \in Process, Scale(p) PROVE ScheduleTypeOK'
  <2>1. runs' \in [Key -> Nat] /\ ended' \in [Key -> Outcome \cup {"none"}]
    <3>1. run[p].key \in Key
      BY DEF ScheduleTypeOK, ScheduleCall
    <3>2. /\ runs' = [runs EXCEPT ![run[p].key] = runs[run[p].key] + 1]
          /\ \E o \in Outcome : ended' = [ended EXCEPT ![run[p].key] = o]
      BY <1>6, Zenon DEF Scale
    <3> HIDE DEF Key, Outcome
    <3> QED
      BY <3>1, <3>2 DEF ScheduleTypeOK
  <2>2. RunOK /\ AskedOK
    BY <1>3, <1>6 DEF Scale
  <2> QED
    BY <1>6, <2>1, <2>2, Zenon DEF Scale, ScheduleTypeOK
<1>7. ASSUME NEW p \in Process, ProcessDies(p) PROVE ScheduleTypeOK'
  <2>1. RunOK
    BY <1>7, Typed DEF ProcessDies, ScheduleTypeOK
  <2>2. abandoned' \in SUBSET Key /\ crashes' \in 0..MaxCrashes
    BY <1>7, ScheduleAssumption DEF ProcessDies, ScheduleTypeOK, ScheduleCall
  <2> QED
    BY <1>7, <2>1, <2>2, Zenon DEF ProcessDies, ScheduleTypeOK
<1>8. ASSUME NEW p \in Process, ClaimFails(p) PROVE ScheduleTypeOK'
  <2>1. RunOK
    BY <1>8, Typed DEF ClaimFails, ScheduleTypeOK
  <2> QED
    BY <1>8, <2>1, Zenon DEF ClaimFails, ScheduleTypeOK
<1>9. CASE UNCHANGED scheduleVars
  BY <1>9, Zenon DEF scheduleVars, ScheduleTypeOK
<1> QED
  BY <1>1, <1>2, <1>4, <1>5, <1>6, <1>7, <1>8, <1>9 DEF ScheduleNext

\* In every reachable state the variables have their types.
THEOREM ScheduleTypeCorrect == ScheduleSpec => []ScheduleTypeOK
<1>1. ScheduleInit => ScheduleTypeOK
  <2> SUFFICES ASSUME ScheduleInit PROVE ScheduleTypeOK
    OBVIOUS
  <2>1. day \in 1..MaxDays /\ hour \in 0..LastHour /\ crashes \in 0..MaxCrashes
    BY ScheduleAssumption DEF ScheduleInit
  <2>2. Never \in Time /\ Resting \in ScheduleCall
    BY ScheduleAssumption, KeyOf DEF Never, Time, Resting, ScheduleCall
  <2>3. /\ run \in [Process -> ScheduleCall] /\ last \in [Key -> Time]
        /\ runs \in [Key -> Nat] /\ ended \in [Key -> Outcome \cup {"none"}]
    <3> HIDE DEF Time, Never, Resting
    <3> QED
      BY <2>2 DEF ScheduleInit
  <2> QED
    BY <2>1, <2>3, Zenon DEF ScheduleInit, ScheduleTypeOK
<1>2. ScheduleTypeOK /\ [ScheduleNext]_scheduleVars => ScheduleTypeOK'
  BY TypeStep
<1> QED
  BY <1>1, <1>2, PTL DEF ScheduleSpec

-----------------------------------------------------------------------------
(* One run for each process on the day, and one more after the claim.      *)

\* Processes that found the key free and have not ended, and those asking too.
Winning(k) == {p \in Process : run[p].at \in {"insert", "scale"} /\ run[p].key = k}
Engaged(k) == {p \in Process : run[p].at # "idle" /\ run[p].key = k}

\* Nobody is ahead of time: claims are for this day or past ones and are written
\* with a time of that day or later.
TimeInv ==
    /\ \A p \in Process : run[p].key[2] <= day
    /\ \A p \in Process : run[p].at = "insert" => run[p].read.day \in (run[p].key[2])..day
    /\ \A k \in Key : last[k] # Never => last[k].day \in (k[2])..day

\* A key that nobody claimed was not begun.
Unclaimed(k) ==
    last[k] = Never => /\ runs[k] = 0
                       /\ \A p \in Process : ~ (run[p].at = "scale" /\ run[p].key = k)

\* What was begun and what is still to come, on the key's day and after it.
Won(k) ==
    /\ Unclaimed(k)
    /\ k[2] >= day => runs[k] + Cardinality(Winning(k)) <= Cardinality(Process)
    /\ k[2] < day => runs[k] + Cardinality(Engaged(k)) <= 2 * Cardinality(Process)

WinInv == TimeInv /\ \A k \in Key : Won(k)

\* A subset of the processes is no larger than all of them.
LEMMA SubsetBound ==
  ASSUME NEW S, S \subseteq Process
  PROVE  /\ IsFiniteSet(S) /\ Cardinality(S) \in Nat
         /\ Cardinality(S) <= Cardinality(Process) /\ Cardinality(Process) \in Nat
         /\ \A T \in SUBSET S : Cardinality(T) <= Cardinality(S)
         /\ \A p \in S : Cardinality(S \ {p}) = Cardinality(S) - 1
BY ScheduleAssumption, FS_Subset, FS_CardinalityType, FS_RemoveElement

\* The sums do not grow when nothing is begun, the day stays and nobody joins.
LEMMA WonKept ==
  ASSUME ScheduleTypeOK, WinInv, NEW k \in Key, UNCHANGED <<day, runs>>,
         Winning(k)' \subseteq Winning(k), Engaged(k)' \subseteq Engaged(k), Unclaimed(k)'
  PROVE  Won(k)'
<1>1. /\ Cardinality(Winning(k)') \in Nat /\ Cardinality(Winning(k)) \in Nat
      /\ Cardinality(Winning(k)') <= Cardinality(Winning(k))
  <2>1. Winning(k) \subseteq Process /\ Winning(k)' \subseteq Process
    BY DEF Winning
  <2> QED
    BY <2>1, SubsetBound
<1>2. /\ Cardinality(Engaged(k)') \in Nat /\ Cardinality(Engaged(k)) \in Nat
      /\ Cardinality(Engaged(k)') <= Cardinality(Engaged(k))
  <2>1. Engaged(k) \subseteq Process /\ Engaged(k)' \subseteq Process
    BY DEF Engaged
  <2> QED
    BY <2>1, SubsetBound
<1>3. runs[k] \in Nat /\ Cardinality(Process) \in Nat
  BY SubsetBound DEF ScheduleTypeOK
<1> QED
  BY <1>1, <1>2, <1>3 DEF WinInv, Won

\* Each step keeps the times in order.
LEMMA TimeStep ==
  ASSUME ScheduleTypeOK, TimeInv, [ScheduleNext]_scheduleVars
  PROVE  TimeInv'
<1>0. /\ day \in 1..MaxDays /\ \A p \in Process : run[p] \in ScheduleCall
      /\ \A k \in Key : last[k] \in Time /\ k[2] \in 1..MaxDays
  BY KeyOf DEF ScheduleTypeOK
<1>1. CASE HourPasses
  <2>1. day' \in Nat /\ day <= day' /\ UNCHANGED <<last, run>>
    BY <1>0, <1>1 DEF HourPasses
  <2>2. \A p \in Process : run[p].key[2] \in Nat /\ run[p].read.day \in Nat
    BY <1>0, KeyOf DEF ScheduleCall, Time
  <2>3. \A k \in Key : k[2] \in Nat /\ last[k].day \in Nat
    BY <1>0 DEF Time
  <2> QED
    BY <1>0, <2>1, <2>2, <2>3 DEF TimeInv
<1>2. ASSUME NEW p \in Process, Wake(p) PROVE TimeInv'
  <2>1. /\ UNCHANGED <<day, last>>
        /\ \A q \in Process : run'[q] = run[q] \/ (run'[q].key[2] = day /\ run'[q].at = "claim")
    BY <1>2 DEF Wake, AskClaim, ScheduleTypeOK
  <2> QED
    BY <1>0, <2>1 DEF TimeInv
<1>3. ASSUME NEW p \in Process, run' = [run EXCEPT ![p] = Resting], UNCHANGED <<day, last>>
      PROVE  TimeInv'
  <2>1. \A q \in Process : run'[q] = run[q] \/ (run'[q].key[2] = 1 /\ run'[q].at = "idle")
    BY <1>3 DEF Resting, ScheduleTypeOK
  <2> QED
    BY <1>0, <1>3, <2>1 DEF TimeInv
<1>4. ASSUME NEW p \in Process, ClaimRead(p), Proceed(p) PROVE TimeInv'
  <2>1. /\ UNCHANGED <<day, last>> /\ run'[p].key = run[p].key /\ run'[p].read.day = day
        /\ \A q \in Process : q # p => run'[q] = run[q]
    BY <1>0, <1>4 DEF ClaimRead, Proceed, ScheduleTypeOK, ScheduleCall
  <2>2. run[p].key[2] \in Nat
    BY <1>0, KeyOf DEF ScheduleCall
  <2>3. \A q \in Process : run'[q].key[2] <= day
    BY <2>1 DEF TimeInv
  <2>4. \A q \in Process : run'[q].at = "insert" => run'[q].read.day \in (run'[q].key[2])..day
    BY <1>0, <2>1, <2>2 DEF TimeInv
  <2> QED
    BY <2>1, <2>3, <2>4 DEF TimeInv
<1>5. ASSUME NEW p \in Process, ClaimInsert(p) PROVE TimeInv'
  <2>1. /\ UNCHANGED day /\ run'[p].key = run[p].key /\ run'[p].at = "scale"
        /\ \A q \in Process : q # p => run'[q] = run[q]
    BY <1>0, <1>5 DEF ClaimInsert, ScheduleTypeOK, ScheduleCall
  <2>2. /\ \A k \in Key : k # run[p].key => last'[k] = last[k]
        /\ run[p].key \in Key /\ last'[run[p].key] = run[p].read
    BY <1>0, <1>5 DEF ClaimInsert, ScheduleTypeOK, ScheduleCall
  <2>3. run[p].read.day \in (run[p].key[2])..day
    BY <1>5 DEF ClaimInsert, TimeInv
  <2>4. \A k \in Key : last'[k] # Never => last'[k].day \in (k[2])..day
    BY <2>2, <2>3 DEF TimeInv
  <2> QED
    BY <2>1, <2>4 DEF TimeInv
<1>6. ASSUME NEW p \in Process, ClaimRead(p) PROVE TimeInv'
  BY <1>3, <1>4, <1>6 DEF ClaimRead, Round
<1>7. ASSUME NEW p \in Process, Scale(p) \/ ProcessDies(p) \/ ClaimFails(p) PROVE TimeInv'
  BY <1>3, <1>7 DEF Scale, Round, ProcessDies, ClaimFails
<1>8. CASE UNCHANGED scheduleVars
  BY <1>8 DEF scheduleVars, TimeInv
<1> QED
  BY <1>1, <1>2, <1>5, <1>6, <1>7, <1>8 DEF ScheduleNext

\* Each step keeps WinInv.
LEMMA WinStep ==
  ASSUME ScheduleTypeOK, WinInv, [ScheduleNext]_scheduleVars
  PROVE  WinInv'
<1> SUFFICES ASSUME NEW k \in Key PROVE Won(k)'
  BY TimeStep DEF WinInv, Key
<1> DEFINE N == Cardinality(Process)
<1>0. /\ day \in 1..MaxDays /\ \A p \in Process : run[p] \in ScheduleCall
      /\ k[2] \in 1..MaxDays /\ runs[k] \in Nat /\ Won(k)
  BY KeyOf DEF ScheduleTypeOK, WinInv
<1>b. /\ N \in Nat /\ Winning(k) \subseteq Process /\ Engaged(k) \subseteq Process
      /\ Winning(k)' \subseteq Process /\ Engaged(k)' \subseteq Process
      /\ Cardinality(Winning(k)) \in Nat /\ Cardinality(Engaged(k)) \in Nat
      /\ Cardinality(Winning(k)') \in Nat /\ Cardinality(Engaged(k)') \in Nat
      /\ Cardinality(Winning(k)') <= N /\ Cardinality(Engaged(k)') <= N
  <2>1. /\ Winning(k) \subseteq Process /\ Engaged(k) \subseteq Process
        /\ Winning(k)' \subseteq Process /\ Engaged(k)' \subseteq Process
    BY DEF Winning, Engaged
  <2> QED
    BY <2>1, SubsetBound
<1>c. ASSUME NEW p \in Process, run' = [run EXCEPT ![p] = Resting], UNCHANGED <<day, last, runs>>
      PROVE  Won(k)'
  <2>1. Winning(k)' \subseteq Winning(k) /\ Engaged(k)' \subseteq Engaged(k)
    BY <1>c DEF Winning, Engaged, Resting, ScheduleTypeOK
  <2>2. Unclaimed(k)'
    BY <1>0, <1>c DEF Won, Unclaimed, Resting, ScheduleTypeOK
  <2> QED
    BY <1>c, <2>1, <2>2, WonKept
<1> HIDE DEF N
<1>1. CASE HourPasses
  <2>1. /\ UNCHANGED <<last, run, runs>> /\ day' \in Nat /\ day <= day' /\ day' <= day + 1
    BY <1>0, <1>1 DEF HourPasses
  <2>2. Winning(k)' = Winning(k) /\ Engaged(k)' = Engaged(k) /\ Unclaimed(k)'
    BY <1>0, <2>1 DEF Winning, Engaged, Won, Unclaimed
  <2>3. CASE k[2] >= day'
    BY <1>0, <1>b, <2>1, <2>2, <2>3 DEF Won
  <2>4. CASE k[2] < day' /\ k[2] >= day
    <3>1. runs[k] <= N /\ Cardinality(Engaged(k)') <= N
      BY <1>0, <1>b, <2>4 DEF Won, N
    <3> QED
      BY <1>0, <1>b, <2>1, <2>2, <2>4, <3>1 DEF Won, N
  <2>5. CASE k[2] < day
    BY <1>0, <1>b, <2>1, <2>2, <2>5 DEF Won
  <2> QED
    BY <1>0, <2>1, <2>3, <2>4, <2>5
<1>2. ASSUME NEW p \in Process, Wake(p) PROVE Won(k)'
  <2>1. /\ UNCHANGED <<day, last, runs>>
        /\ \A q \in Process : run'[q] = run[q] \/ (run'[q].key[2] = day /\ run'[q].at = "claim")
    BY <1>2 DEF Wake, AskClaim, ScheduleTypeOK
  <2>2. Winning(k)' \subseteq Winning(k) /\ (k[2] < day => Engaged(k)' \subseteq Engaged(k))
    BY <1>0, <2>1 DEF Winning, Engaged
  <2>3. Unclaimed(k)'
    BY <1>0, <2>1 DEF Won, Unclaimed
  <2>4. CASE k[2] < day
    BY <2>1, <2>2, <2>3, <2>4, WonKept
  <2>5. CASE k[2] >= day
    <3>1. Cardinality(Winning(k)') <= Cardinality(Winning(k))
      BY <1>b, <2>2, SubsetBound
    <3> QED
      BY <1>0, <1>b, <2>1, <2>3, <2>5, <3>1 DEF Won, N
  <2> QED
    BY <1>0, <2>4, <2>5
<1>3. ASSUME NEW p \in Process, ClaimRead(p) PROVE Won(k)'
  <2>1. CASE Round(p)
    BY <1>3, <1>c, <2>1 DEF ClaimRead, Round
  <2>2. CASE Proceed(p) /\ ~ Held(run[p].key)
    <3>1. /\ UNCHANGED <<day, last, runs>> /\ run'[p].key = run[p].key /\ run'[p].at = "insert"
          /\ run[p].at = "claim" /\ \A q \in Process : q # p => run'[q] = run[q]
      BY <1>0, <1>3, <2>2 DEF ClaimRead, Proceed, ScheduleTypeOK, ScheduleCall
    <3>2. Unclaimed(k)' /\ Engaged(k)' = Engaged(k)
      BY <1>0, <3>1 DEF Won, Unclaimed, Engaged
    <3>3. CASE run[p].key = k /\ k[2] >= day
      <4>1. last[k] = Never
        <5>1. last[k] # Never => last[k].day \in (k[2])..day
          BY DEF WinInv, TimeInv
        <5>2. last[k] # Never => last[k].day = day
          BY <1>0, <3>3, <5>1
        <5> QED
          BY <2>2, <3>3, <5>2 DEF Held
      <4>2. runs[k] = 0
        BY <1>0, <4>1 DEF Won, Unclaimed
      <4> QED
        BY <1>0, <1>b, <3>1, <3>2, <3>3, <4>2 DEF Won, N
    <3>4. CASE run[p].key # k
      <4>1. Winning(k)' = Winning(k)
        BY <3>1, <3>4 DEF Winning
      <4> QED
        BY <3>1, <3>2, <4>1, WonKept
    <3>5. CASE k[2] < day
      BY <1>0, <1>b, <3>1, <3>2, <3>5 DEF Won
    <3> QED
      BY <1>0, <3>3, <3>4, <3>5
  <2> QED
    BY <1>3, <2>1, <2>2 DEF ClaimRead
<1>4. ASSUME NEW p \in Process, ClaimInsert(p) PROVE Won(k)'
  <2>1. /\ UNCHANGED <<day, runs>> /\ run'[p].key = run[p].key /\ run'[p].at = "scale"
        /\ run[p].at = "insert" /\ \A q \in Process : q # p => run'[q] = run[q]
    BY <1>0, <1>4 DEF ClaimInsert, ScheduleTypeOK, ScheduleCall
  <2>2. Winning(k)' = Winning(k) /\ Engaged(k)' = Engaged(k)
    BY <2>1 DEF Winning, Engaged
  <2>3. last'[k] = IF k = run[p].key THEN run[p].read ELSE last[k]
    BY <1>4 DEF ClaimInsert, ScheduleTypeOK
  <2>4. run[p].read # Never
    <3>1. run[p].read.day >= run[p].key[2] /\ run[p].key[2] \in 1..MaxDays
      BY <1>0, <2>1, KeyOf DEF WinInv, TimeInv, ScheduleCall
    <3> QED
      BY <3>1 DEF Never
  <2>5. Unclaimed(k)'
    BY <1>0, <2>1, <2>3, <2>4 DEF Won, Unclaimed
  <2> QED
    BY <2>1, <2>2, <2>5, WonKept
<1>5. ASSUME NEW p \in Process, Scale(p) PROVE Won(k)'
  <2>1. /\ UNCHANGED <<day, last>> /\ run' = [run EXCEPT ![p] = Resting] /\ run[p].at = "scale"
        /\ runs'[k] = IF k = run[p].key THEN runs[k] + 1 ELSE runs[k]
    BY <1>5 DEF Scale, Round, ScheduleTypeOK
  <2>2. CASE run[p].key = k
    <3>1. /\ Winning(k)' = Winning(k) \ {p} /\ p \in Winning(k)
          /\ Engaged(k)' = Engaged(k) \ {p} /\ p \in Engaged(k)
      BY <2>1, <2>2 DEF Winning, Engaged, Resting, ScheduleTypeOK
    <3>2. /\ Cardinality(Winning(k)') = Cardinality(Winning(k)) - 1
          /\ Cardinality(Engaged(k)') = Cardinality(Engaged(k)) - 1
      BY <1>b, <3>1, SubsetBound
    <3>3. last[k] # Never
      BY <1>0, <2>1, <2>2 DEF Won, Unclaimed
    <3> QED
      BY <1>0, <1>b, <2>1, <2>2, <3>2, <3>3 DEF Won, Unclaimed
  <2>3. CASE run[p].key # k
    <3>1. Winning(k)' = Winning(k) /\ Engaged(k)' = Engaged(k)
      BY <2>1, <2>3 DEF Winning, Engaged, Resting, ScheduleTypeOK
    <3>2. Unclaimed(k)'
      BY <1>0, <2>1, <2>3 DEF Won, Unclaimed, Resting, ScheduleTypeOK
    <3> QED
      BY <1>0, <1>b, <2>1, <2>3, <3>1, <3>2 DEF Won
  <2> QED
    BY <2>2, <2>3
<1>6. ASSUME NEW p \in Process, ProcessDies(p) \/ ClaimFails(p) PROVE Won(k)'
  BY <1>6, <1>c DEF ProcessDies, ClaimFails
<1>7. CASE UNCHANGED scheduleVars
  <2>1. /\ UNCHANGED <<day, runs>> /\ Unclaimed(k)'
        /\ Winning(k)' = Winning(k) /\ Engaged(k)' = Engaged(k)
    BY <1>0, <1>7 DEF scheduleVars, Winning, Engaged, Won, Unclaimed
  <2> QED
    BY <2>1, WonKept
<1> QED
  BY <1>1, <1>2, <1>3, <1>4, <1>5, <1>6, <1>7 DEF ScheduleNext

\* Each process begins an entry at most once on its day, and once more afterwards.
THEOREM WinnersAreBounded == ScheduleSpec => []WinnersBounded
<1>1. ScheduleInit => WinInv
  <2> SUFFICES ASSUME ScheduleInit PROVE TimeInv /\ \A k \in Key : Won(k)
    BY DEF WinInv
  <2>1. TimeInv
    BY DEF ScheduleInit, TimeInv, Resting
  <2>2. ASSUME NEW k \in Key PROVE Won(k)
    <3>1. Winning(k) = {} /\ Engaged(k) = {} /\ runs[k] = 0 /\ Unclaimed(k)
      BY <2>2 DEF ScheduleInit, Winning, Engaged, Resting, Unclaimed
    <3>2. Cardinality(Winning(k)) = 0 /\ Cardinality(Engaged(k)) = 0 /\ Cardinality(Process) \in Nat
      BY <3>1, FS_EmptySet, SubsetBound
    <3> QED
      BY <3>1, <3>2 DEF Won
  <2> QED
    BY <2>1, <2>2
<1>2. ScheduleTypeOK /\ WinInv /\ [ScheduleNext]_scheduleVars => WinInv'
  BY WinStep
<1>3. ScheduleTypeOK /\ WinInv => WinnersBounded
  <2> SUFFICES ASSUME ScheduleTypeOK, WinInv, NEW k \in Key
               PROVE  runs[k] <= IF k[2] = day THEN Cardinality(Process)
                                               ELSE 2 * Cardinality(Process)
    BY DEF WinnersBounded
  <2>1. Winning(k) \subseteq Process /\ Engaged(k) \subseteq Process
    BY DEF Winning, Engaged
  <2>2. /\ Cardinality(Winning(k)) \in Nat /\ Cardinality(Engaged(k)) \in Nat
        /\ Cardinality(Process) \in Nat /\ runs[k] \in Nat /\ k[2] \in Nat /\ day \in Nat
    BY <2>1, SubsetBound, KeyOf DEF ScheduleTypeOK
  <2> QED
    BY <2>2 DEF WinInv, Won
<1> QED
  BY <1>1, <1>2, <1>3, ScheduleTypeCorrect, PTL DEF ScheduleSpec

-----------------------------------------------------------------------------
(* One call that gets an answer is enough.                                 *)

\* A key with a claim is settled, whether or not the claim still holds; a call asks
\* for what is owed at its time; what was asked for is settled.
AskInv ==
    /\ \A k \in Key : last[k] # Never => Settled(k)
    /\ \A p \in Process : run[p].at # "idle" => run[p].owed = {run[p].key}
    /\ OneCallIsEnough

\* What is settled stays settled: a claimant's call ends with an outcome or a death.
LEMMA SettledStays ==
  ASSUME ScheduleTypeOK, [ScheduleNext]_scheduleVars, NEW k \in Key, Settled(k)
  PROVE  Settled(k)'
<1> USE DEF Settled
<1>0. \A p \in Process : run[p] \in ScheduleCall
  BY DEF ScheduleTypeOK
<1>1. CASE HourPasses
  BY <1>1 DEF HourPasses
<1>2. ASSUME NEW p \in Process, Wake(p) PROVE Settled(k)'
  BY <1>2 DEF Wake, AskClaim, ScheduleTypeOK
<1>3. ASSUME NEW p \in Process, ClaimRead(p) PROVE Settled(k)'
  BY <1>3 DEF ClaimRead, Round, Proceed, ScheduleTypeOK
<1>4. ASSUME NEW p \in Process, ClaimInsert(p) PROVE Settled(k)'
  BY <1>4 DEF ClaimInsert, ScheduleTypeOK
<1>5. ASSUME NEW p \in Process, Scale(p) PROVE Settled(k)'
  <2>1. /\ ended'[run[p].key] \in Outcome /\ UNCHANGED abandoned
        /\ \A x \in Key : x # run[p].key => ended'[x] = ended[x]
        /\ \A q \in Process : q # p => run'[q] = run[q]
    BY <1>0, <1>5 DEF Scale, Round, ScheduleTypeOK, ScheduleCall
  <2> QED
    BY <2>1 DEF Outcome
<1>6. ASSUME NEW p \in Process, ProcessDies(p) \/ ClaimFails(p) PROVE Settled(k)'
  BY <1>6 DEF ProcessDies, ClaimFails, ScheduleTypeOK
<1>7. CASE UNCHANGED scheduleVars
  BY <1>7 DEF scheduleVars
<1> QED
  BY <1>1, <1>2, <1>3, <1>4, <1>5, <1>6, <1>7 DEF ScheduleNext

\* What the branches of apply_schedule() ask for is what the policy owes.
LEMMA OwedIsAsked ==
  ASSUME ScheduleTypeOK
  PROVE  /\ Due(policy.down) => Owed = {<<"down", day>>}
         /\ ~ Due(policy.down) /\ Due(policy.up) => Owed = {<<"up", day>>}
         /\ ~ Due(policy.down) /\ ~ Due(policy.up) => Owed = {}
<1>1. policy.up \in Int /\ policy.down \in Int /\ hour \in Int
  BY ScheduleAssumption DEF ScheduleTypeOK
<1> QED
  BY <1>1 DEF Due, Owed, Entry

\* Every step keeps AskInv.
LEMMA AskStep ==
  ASSUME ScheduleTypeOK, AskInv, [ScheduleNext]_scheduleVars
  PROVE  AskInv'
<1> DEFINE Asks == \A p \in Process : run'[p].at # "idle" => run'[p].owed = {run'[p].key}
<1>0. \A p \in Process : run[p] \in ScheduleCall
  BY DEF ScheduleTypeOK
<1>a. \A k \in Key : Settled(k) => Settled(k)'
  BY SettledStays
<1>b. asked \in SUBSET Key
  BY DEF ScheduleTypeOK
<1>c. ASSUME UNCHANGED <<last, asked>>, Asks PROVE AskInv'
  BY <1>a, <1>b, <1>c DEF AskInv, OneCallIsEnough, Key
<1>d. ASSUME NEW p \in Process, run[p].at # "idle", Round(p), UNCHANGED last,
             NEW k \in Key, k = run[p].key, Settled(k)'
      PROVE  AskInv'
  <2>1. run[p].owed = {k} /\ asked' = asked \cup {k}
    BY <1>d DEF AskInv, Round
  <2>2. Asks
    BY <1>d DEF Round, Resting, AskInv, ScheduleTypeOK
  <2>3. \A x \in asked' : Settled(x)'
    BY <1>a, <1>b, <1>d, <2>1 DEF AskInv, OneCallIsEnough
  <2> QED
    BY <1>a, <1>d, <2>2, <2>3 DEF AskInv, OneCallIsEnough, Key
<1>1. CASE HourPasses
  BY <1>1, <1>c DEF HourPasses, AskInv
<1>2. ASSUME NEW p \in Process, Wake(p) PROVE AskInv'
  <2>1. CASE AskClaim(p, "down") /\ Due(policy.down)
    BY <1>2, <1>c, <2>1, OwedIsAsked DEF Wake, AskClaim, AskInv, ScheduleTypeOK
  <2>2. CASE AskClaim(p, "up") /\ ~ Due(policy.down) /\ Due(policy.up)
    BY <1>2, <1>c, <2>2, OwedIsAsked DEF Wake, AskClaim, AskInv, ScheduleTypeOK
  <2>3. CASE asked' = asked \cup Owed /\ ~ Due(policy.down) /\ ~ Due(policy.up) /\ UNCHANGED run
    BY <1>2, <1>c, <2>3, OwedIsAsked DEF Wake, AskInv
  <2> QED
    BY <1>2, <2>1, <2>2, <2>3 DEF Wake
<1>3. ASSUME NEW p \in Process, ClaimRead(p) PROVE AskInv'
  <2>1. CASE Held(run[p].key)
    <3>1. \A k \in Key : k = run[p].key => Settled(k)'
      BY <1>a, <2>1 DEF Held, AskInv
    <3> QED
      BY <1>0, <1>3, <1>d, <2>1, <3>1 DEF ClaimRead, ScheduleCall
  <2>2. CASE ~ Held(run[p].key)
    <3>1. /\ run[p].at = "claim" /\ run'[p].key = run[p].key /\ run'[p].owed = run[p].owed
          /\ \A q \in Process : q # p => run'[q] = run[q]
      BY <1>0, <1>3, <2>2 DEF ClaimRead, Proceed, ScheduleTypeOK, ScheduleCall
    <3> QED
      BY <1>3, <1>c, <2>2, <3>1 DEF ClaimRead, Proceed, AskInv
  <2> QED
    BY <2>1, <2>2
<1>4. ASSUME NEW p \in Process, ClaimInsert(p) PROVE AskInv'
  <2>1. /\ run[p].at = "insert" /\ run'[p].at = "scale" /\ UNCHANGED asked
        /\ run'[p].key = run[p].key /\ run'[p].owed = run[p].owed
        /\ \A q \in Process : q # p => run'[q] = run[q]
    BY <1>0, <1>4 DEF ClaimInsert, ScheduleTypeOK, ScheduleCall
  <2>2. \A k \in Key : k # run[p].key => last'[k] = last[k]
    BY <1>4 DEF ClaimInsert, ScheduleTypeOK
  <2>3. \A k \in Key : k = run[p].key => Settled(k)'
    BY <2>1 DEF Settled
  <2>4. \A k \in Key : last'[k] # Never => Settled(k)'
    BY <1>a, <2>2, <2>3 DEF AskInv
  <2>5. \A k \in asked' : Settled(k)'
    BY <1>a, <1>b, <2>1 DEF AskInv, OneCallIsEnough
  <2> QED
    BY <2>1, <2>4, <2>5 DEF AskInv, OneCallIsEnough, Key
<1>5. ASSUME NEW p \in Process, Scale(p) PROVE AskInv'
  <2>1. \A k \in Key : k = run[p].key => Settled(k)'
    <3>1. \A k \in Key : k = run[p].key => Settled(k)
      BY <1>5 DEF Scale, Settled
    <3> QED
      BY <1>a, <3>1
  <2> QED
    BY <1>0, <1>5, <1>d, <2>1 DEF Scale, ScheduleCall
<1>6. ASSUME NEW p \in Process, ProcessDies(p) \/ ClaimFails(p) PROVE AskInv'
  BY <1>6, <1>c DEF ProcessDies, ClaimFails, Resting, AskInv, ScheduleTypeOK
<1>7. CASE UNCHANGED scheduleVars
  BY <1>7, <1>c DEF scheduleVars, AskInv
<1> QED
  BY <1>1, <1>2, <1>3, <1>4, <1>5, <1>6, <1>7 DEF ScheduleNext

\* One call that gets an answer, at any time of the day from which an entry is owed,
\* leaves it settled, for every pattern of other calls, missed ones and deaths.
THEOREM OneCallSuffices == ScheduleSpec => []OneCallIsEnough
<1>1. ScheduleInit => AskInv
  BY DEF ScheduleInit, AskInv, OneCallIsEnough, Resting
<1>2. ScheduleTypeOK /\ AskInv /\ [ScheduleNext]_scheduleVars => AskInv'
  BY AskStep
<1>3. AskInv => OneCallIsEnough
  BY DEF AskInv
<1> QED
  BY <1>1, <1>2, <1>3, ScheduleTypeCorrect, PTL DEF ScheduleSpec

=============================================================================
