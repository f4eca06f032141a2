----------------------------- MODULE DeploysProofs -----------------------------
(***************************************************************************)
(* Theorems about Deploys, for every number of deploys, images and crashes. *)
(* Most of the safety of the pipeline rests on one operator acting at a      *)
(* time: the table is read, acted on for minutes and then written            *)
(* unconditionally.  What holds for any number of operators comes first.     *)
(***************************************************************************)
EXTENDS Deploys, FiniteSetTheorems, TLAPS

\* One thread carries out all clicks.
SoleOperator == \A o, p \in Operator : o = p

\* What set_image() leads to, without the Boolean result.
LEMMA ApplyEffect ==
  ASSUME NEW o \in Operator, Apply(o)
  PROVE  /\ pc[o] = "apply"
         /\ sets' = [sets EXCEPT ![on[o]] = @ + 1]
         /\ \/ Goto(o, "watch") /\ SetImage(image[on[o]])
            \/ Goto(o, "fail") /\ (SetImage(image[on[o]]) \/ UNCHANGED cluster)
         /\ UNCHANGED <<table, on, crashes>>
BY Zenon DEF Apply, AfterSet

\* The columns, the operators' progress and the cluster keep the types of TypeOK.
THEOREM TypeCorrect == Spec => []TypeOK
<1>1. Init => TypeOK
  <2> SUFFICES ASSUME Init PROVE TypeOK
    OBVIOUS
  <2> QED
    BY DeploysAssumption DEF Init, TypeOK, Watching
<1>2. TypeOK /\ [Next]_vars => TypeOK'
  <2> SUFFICES ASSUME TypeOK, [Next]_vars PROVE TypeOK'
    OBVIOUS
  <2> USE DeploysAssumption DEF TypeOK, Watching, table, cluster, Goto, Release, Write
  <2>1. ASSUME NEW d \in Deploy, NEW img \in Image, Arrive(d, img) PROVE TypeOK'
    BY <2>1 DEF Arrive
  <2>2. ASSUME NEW o \in Operator, NEW d \in Deploy,
               NEW choice \in {"gate", "reject"}, Click(o, d, choice)
        PROVE  TypeOK'
    BY <2>2 DEF Click
  <2>3. ASSUME NEW o \in Operator, Reject(o) PROVE TypeOK'
    BY <2>3 DEF Reject
  <2>4. ASSUME NEW o \in Operator, Gate(o) PROVE TypeOK'
    BY <2>4 DEF Gate
  <2>5. ASSUME NEW o \in Operator, Approve(o) PROVE TypeOK'
    BY <2>5 DEF Approve
  <2>6. ASSUME NEW o \in Operator, Apply(o) PROVE TypeOK'
    <3>1. /\ pc[o] = "apply"
          /\ sets' = [sets EXCEPT ![on[o]] = @ + 1]
          /\ Goto(o, "watch") \/ Goto(o, "fail")
          /\ SetImage(image[on[o]]) \/ UNCHANGED cluster
          /\ UNCHANGED <<table, on, crashes>>
      BY <2>6, ApplyEffect
    <3>2. live' \in Image /\ prev' \in Image \cup {NoImage} /\ rollout' \in {"done", "progressing"}
      BY <3>1 DEF SetImage
    <3> QED
      BY <3>1, <3>2
  <2>7. ASSUME NEW o \in Operator, Watch(o) PROVE TypeOK'
    BY <2>7 DEF Watch
  <2>8. ASSUME NEW o \in Operator, RollBack(o) PROVE TypeOK'
    BY <2>8 DEF RollBack, Undo, AfterUndo
  <2>9. ASSUME NEW o \in Operator, End(o) PROVE TypeOK'
    BY <2>9 DEF End
  <2>10. ASSUME NEW o \in Operator, Die(o) PROVE TypeOK'
    BY <2>10 DEF Die
  <2>11. CASE RolloutEnds
    BY <2>11 DEF RolloutEnds
  <2>12. CASE UNCHANGED vars
    BY <2>12 DEF vars
  <2> QED
    BY <2>1, <2>2, <2>3, <2>4, <2>5, <2>6, <2>7, <2>8, <2>9, <2>10, <2>11, <2>12
    DEF Next, Carry
<1> QED
  BY <1>1, <1>2, PTL DEF Spec

-----------------------------------------------------------------------------
(* Any number of operators.                                                  *)

\* A row is only worked on after it arrived, only applied after it was decided, and
\* what has reached the cluster is decided.
RowInv ==
    /\ \A o \in Operator : pc[o] # "idle" => status[on[o]] # "absent"
    /\ \A o \in Operator : pc[o] \in {"apply"} \cup Watching => status[on[o]] # "pending"
    /\ \A d \in Deploy : status[d] \in {"absent", "pending"} => sets[d] = 0

\* What a step does to one row: it never returns to "pending", its image is fixed
\* once it has arrived, and its count grows only when a decided row is applied.
LEMMA RowStep ==
  ASSUME TypeOK, RowInv, [Next]_vars, NEW d \in Deploy
  PROVE  /\ status[d] # "absent" => status'[d] # "absent" /\ image'[d] = image[d]
         /\ status[d] \notin {"absent", "pending"} => status'[d] \notin {"absent", "pending"}
         /\ \/ sets'[d] = sets[d]
            \/ /\ sets'[d] = sets[d] + 1
               /\ status[d] \notin {"absent", "pending"}
               /\ \E o \in Operator : Apply(o) /\ on[o] = d
<1> USE DEF TypeOK, Watching, table, cluster, Goto, Release, Write
<1>1. ASSUME NEW e \in Deploy, NEW img \in Image, Arrive(e, img)
      PROVE  /\ UNCHANGED sets
             /\ e = d => status[d] = "absent"
             /\ e # d => status'[d] = status[d] /\ image'[d] = image[d]
             /\ e = d => status'[d] = "pending"
  BY <1>1 DEF Arrive
<1>2. ASSUME NEW o \in Operator, Reject(o) \/ Approve(o) \/ End(o)
      PROVE  /\ UNCHANGED <<image, sets>>
             /\ on[o] = d => status'[d] \notin {"absent", "pending"}
             /\ on[o] # d => status'[d] = status[d]
  BY <1>2 DEF Reject, Approve, End
<1>3. ASSUME NEW o \in Operator, Apply(o)
      PROVE  /\ UNCHANGED table
             /\ on[o] # d => sets'[d] = sets[d]
             /\ on[o] = d => sets'[d] = sets[d] + 1 /\ status[d] \notin {"absent", "pending"}
  BY <1>3, ApplyEffect DEF RowInv
<1>4. \/ \E e \in Deploy, img \in Image : Arrive(e, img)
      \/ \E o \in Operator : Reject(o) \/ Approve(o) \/ End(o)
      \/ \E o \in Operator : Apply(o)
      \/ UNCHANGED <<status, image, sets>>
  BY DEF Next, Carry, Click, Gate, Watch, RollBack, Die, RolloutEnds, vars
<1>5. CASE \E e \in Deploy, img \in Image : Arrive(e, img)
  BY <1>1, <1>5
<1>6. CASE \E o \in Operator : Reject(o) \/ Approve(o) \/ End(o)
  BY <1>2, <1>6
<1>7. CASE \E o \in Operator : Apply(o)
  BY <1>3, <1>7
<1>8. CASE UNCHANGED <<status, image, sets>>
  BY <1>8
<1> QED
  BY <1>4, <1>5, <1>6, <1>7, <1>8

\* What a step does to one operator: it stays on its row, or takes a row that waits.
LEMMA OperatorStep ==
  ASSUME TypeOK, [Next]_vars, NEW o \in Operator, pc'[o] # "idle"
  PROVE  \/ /\ on'[o] = on[o] /\ pc[o] # "idle"
            /\ pc'[o] \in {"gate", "approve", "apply"} => pc[o] \in {"gate", "approve", "apply"}
            /\ pc'[o] \in Watching => pc[o] \in {"apply"} \cup Watching
            /\ pc'[o] = "apply" => pc[o] = "apply" \/ status'[on[o]] = "approved"
         \/ /\ pc[o] = "idle" /\ pc'[o] \in {"gate", "reject"}
            /\ on'[o] \in Deploy /\ status[on'[o]] = "pending"
            /\ UNCHANGED <<status, sets>>
<1> DEFINE Goal ==
         \/ /\ on'[o] = on[o] /\ pc[o] # "idle"
            /\ pc'[o] \in {"gate", "approve", "apply"} => pc[o] \in {"gate", "approve", "apply"}
            /\ pc'[o] \in Watching => pc[o] \in {"apply"} \cup Watching
            /\ pc'[o] = "apply" => pc[o] = "apply" \/ status'[on[o]] = "approved"
         \/ /\ pc[o] = "idle" /\ pc'[o] \in {"gate", "reject"}
            /\ on'[o] \in Deploy /\ status[on'[o]] = "pending"
            /\ UNCHANGED <<status, sets>>
<1> SUFFICES Goal
  OBVIOUS
<1>1. CASE pc'[o] = pc[o] /\ on'[o] = on[o]
  BY <1>1
<1>2. ASSUME NEW p \in Operator, p # o, Carry(p) \/ Die(p)
      PROVE  pc'[o] = pc[o] /\ on'[o] = on[o]
  BY <1>2 DEF TypeOK, Carry, Reject, Gate, Approve, Apply, Watch, RollBack, End, Die, Goto,
     Release
<1>3. ASSUME NEW d \in Deploy, NEW c \in {"gate", "reject"}, Click(o, d, c) PROVE Goal
  BY <1>3 DEF Click, Clickable, Goto, table, TypeOK
<1>4. ASSUME NEW d \in Deploy, NEW c \in {"gate", "reject"}, NEW p \in Operator, p # o,
             Click(p, d, c)
      PROVE  pc'[o] = pc[o] /\ on'[o] = on[o]
  BY <1>4 DEF Click, Goto, TypeOK
<1>5. CASE Apply(o)
  <2>1. pc[o] = "apply" /\ on' = on /\ pc'[o] \in {"watch", "fail"}
    BY <1>5, ApplyEffect DEF Goto, TypeOK
  <2> QED
    BY <2>1
<1>6. CASE Gate(o)
  BY <1>6 DEF Gate, Goto, Watching, TypeOK
<1>7. CASE Approve(o)
  BY <1>7 DEF Approve, Goto, Write, Watching, TypeOK
<1>8. CASE Watch(o)
  BY <1>8 DEF Watch, Goto, Watching, TypeOK
<1>9. CASE RollBack(o)
  BY <1>9 DEF RollBack, Goto, AfterUndo, Watching, TypeOK
<1>10. CASE Reject(o) \/ End(o) \/ Die(o)
  BY <1>10 DEF Reject, End, Die, Release, Goto, TypeOK
<1>11. CASE UNCHANGED <<pc, on>>
  BY <1>1, <1>11
<1> QED
  BY <1>1, <1>2, <1>3, <1>4, <1>5, <1>6, <1>7, <1>8, <1>9, <1>10, <1>11
  DEF Next, Carry, Arrive, RolloutEnds, vars

\* Every step keeps the rows' invariant.
LEMMA RowInvStep ==
  ASSUME TypeOK, RowInv, [Next]_vars
  PROVE  RowInv'
<1>1. ASSUME NEW o \in Operator, pc'[o] # "idle"
      PROVE  status'[on'[o]] # "absent"
  BY <1>1, OperatorStep, RowStep DEF RowInv, TypeOK
<1>2. ASSUME NEW o \in Operator, pc'[o] \in {"apply"} \cup Watching
      PROVE  status'[on'[o]] # "pending"
  <2>1. /\ on'[o] = on[o] /\ on[o] \in Deploy /\ pc[o] # "idle"
        /\ pc[o] \in {"apply"} \cup Watching \/ status'[on[o]] = "approved"
    BY <1>2, OperatorStep DEF Watching, TypeOK
  <2>2. status[on[o]] # "absent"
    BY <2>1 DEF RowInv
  <2> QED
    BY <2>1, <2>2, RowStep DEF RowInv
<1>3. ASSUME NEW d \in Deploy, status'[d] \in {"absent", "pending"}
      PROVE  sets'[d] = 0
  BY <1>3, RowStep DEF RowInv
<1> QED
  BY <1>1, <1>2, <1>3 DEF RowInv

\* Every reachable state satisfies the rows' invariant.
LEMMA RowInvariant == Spec => []RowInv
<1>1. Init => RowInv
  BY DEF Init, RowInv, Watching
<1>2. TypeOK /\ RowInv /\ [Next]_vars => RowInv'
  BY RowInvStep
<1> QED
  BY <1>1, <1>2, TypeCorrect, PTL DEF Spec

\* A decided image stays decided: rows are not taken back and their images are fixed.
LEMMA DecidedStays ==
  ASSUME TypeOK, RowInv, [Next]_vars, NEW img, Decided(img)
  PROVE  Decided(img)'
<1>1. CASE img = Base
  BY <1>1 DEF Decided
<1>2. CASE \E d \in Deploy :
             image[d] = img /\ sets[d] > 0 /\ status[d] \notin {"absent", "pending"}
  <2> PICK d \in Deploy :
             image[d] = img /\ sets[d] > 0 /\ status[d] \notin {"absent", "pending"}
    BY <1>2
  <2>1. image'[d] = img /\ status'[d] \notin {"absent", "pending"}
    BY RowStep
  <2>2. sets[d] \in Nat /\ (sets'[d] = sets[d] \/ sets'[d] = sets[d] + 1)
    BY RowStep DEF TypeOK
  <2> QED
    BY <2>1, <2>2 DEF Decided
<1> QED
  BY <1>1, <1>2 DEF Decided

\* What is live is what was live or what was before it, or the image of the row that
\* is applied; what is before it is one of the former.
LEMMA ClusterStep ==
  ASSUME TypeOK, [Next]_vars
  PROVE  /\ \/ live' \in {live, prev} /\ live' # NoImage
            \/ \E o \in Operator : Apply(o) /\ live' = image[on[o]]
         /\ prev' \in {live, prev}
<1> USE DEF TypeOK, table, cluster
<1>0. live # NoImage
  BY DeploysAssumption
<1>1. CASE \E o \in Operator : Apply(o)
  <2> PICK o \in Operator : Apply(o)
    BY <1>1
  <2>1. SetImage(image[on[o]]) \/ UNCHANGED cluster
    BY ApplyEffect
  <2> QED
    BY <1>0, <2>1 DEF SetImage
<1>2. CASE \E o \in Operator : RollBack(o)
  BY <1>0, <1>2 DEF RollBack, Undo
<1>3. CASE UNCHANGED <<live, prev>>
  BY <1>0, <1>3
<1> QED
  BY <1>1, <1>2, <1>3 DEF Next, Carry, Arrive, Click, Reject, Gate, Approve, Watch, End,
     Die, RolloutEnds, vars

\* Whatever is clicked, fails, is rolled back or dies, and however many operators act,
\* only decided images are live or a rollback away.
THEOREM OnlyDecidedIsLive == Spec => []LiveIsDecided
<1>1. Init => LiveIsDecided
  BY DEF Init, LiveIsDecided, Decided
<1>2. TypeOK /\ RowInv /\ LiveIsDecided /\ [Next]_vars => LiveIsDecided'
  <2> SUFFICES ASSUME TypeOK, RowInv, LiveIsDecided, [Next]_vars
               PROVE  LiveIsDecided'
    OBVIOUS
  <2>1. ASSUME NEW img, img \in {live, prev}, img # NoImage
        PROVE  Decided(img)'
    BY <2>1, DecidedStays DEF LiveIsDecided
  <2>2. ASSUME NEW o \in Operator, Apply(o)
        PROVE  \A img : img = image[on[o]] => Decided(img)'
    <3> PICK d \in Deploy : d = on[o]
      BY <2>2 DEF Apply, TypeOK
    <3>1. sets' = [sets EXCEPT ![d] = @ + 1] /\ UNCHANGED <<status, image>>
      BY <2>2, ApplyEffect DEF table
    <3>2. status[d] \notin {"absent", "pending"}
      BY <2>2 DEF Apply, RowInv
    <3>3. sets'[d] > 0
      BY <3>1 DEF TypeOK
    <3>4. ASSUME NEW img, img = image[d] PROVE Decided(img)'
      BY <3>1, <3>2, <3>3, <3>4 DEF Decided
    <3> QED
      BY <3>4
  <2>3. ASSUME NEW img, img = live' PROVE Decided(img)'
    BY <2>1, <2>2, <2>3, ClusterStep
  <2>4. ASSUME NEW img, img = prev', img # NoImage PROVE Decided(img)'
    BY <2>1, <2>4, ClusterStep
  <2>5. Decided(live)' /\ (prev' # NoImage => Decided(prev)')
    BY <2>3, <2>4 DEF Decided
  <2> QED
    BY <2>5 DEF LiveIsDecided
<1> QED
  BY <1>1, <1>2, RowInvariant, TypeCorrect, PTL DEF Spec

\* A part of a finite set is finite and no larger.
LEMMA PartIsSmaller ==
  ASSUME NEW T, IsFiniteSet(T), NEW S, S \subseteq T
  PROVE  /\ IsFiniteSet(S)
         /\ Cardinality(S) \in Nat /\ Cardinality(T) \in Nat
         /\ Cardinality(S) <= Cardinality(T)
BY FS_Subset, FS_CardinalityType

\* The operators that have read the row d as pending and may still apply it.
Approving(d) == {o \in Operator : pc[o] \in {"gate", "approve", "apply"} /\ on[o] = d}

\* The times a deploy was applied and the operators that may still apply it are
\* together no more than the operators: a row that was applied takes no more clicks.
ApplyInv == \A d \in Deploy : sets[d] + Cardinality(Approving(d)) <= Cardinality(Operator)

\* What a step does to both.
LEMMA ApprovingStep ==
  ASSUME TypeOK, RowInv, [Next]_vars, NEW d \in Deploy
  PROVE  \/ sets'[d] = sets[d] /\ Approving(d)' \subseteq Approving(d)
         \/ sets'[d] = 0
         \/ /\ sets'[d] = sets[d] + 1
            /\ \E o \in Approving(d) : Approving(d)' \subseteq Approving(d) \ {o}
<1>1. CASE sets'[d] = sets[d]
  <2>1. CASE Approving(d)' \subseteq Approving(d)
    BY <1>1, <2>1
  <2>2. CASE \E o \in Approving(d)' : o \notin Approving(d)
    <3> PICK o \in Operator : /\ pc'[o] \in {"gate", "approve", "apply"} /\ on'[o] = d
                              /\ o \notin Approving(d)
      BY <2>2 DEF Approving
    <3>1. status[d] = "pending"
      BY OperatorStep DEF Approving
    <3> QED
      BY <1>1, <3>1 DEF RowInv
  <2> QED
    BY <2>1, <2>2
<1>2. CASE sets'[d] # sets[d]
  <2> PICK o \in Operator : Apply(o) /\ on[o] = d
    BY <1>2, RowStep
  <2>1. sets'[d] = sets[d] + 1
    BY <1>2, RowStep
  <2>2. o \in Approving(d)
    BY DEF Apply, Approving
  <2>3. UNCHANGED on /\ pc'[o] \in {"watch", "fail"} /\ \A p \in Operator : p # o => pc'[p] = pc[p]
    BY ApplyEffect DEF Goto, TypeOK
  <2>4. Approving(d)' \subseteq Approving(d) \ {o}
    BY <2>3 DEF Approving
  <2> QED
    BY <2>1, <2>2, <2>4
<1> QED
  BY <1>1, <1>2

\* Every step keeps the count.
LEMMA ApplyStep ==
  ASSUME TypeOK, RowInv, ApplyInv, [Next]_vars
  PROVE  ApplyInv'
<1> SUFFICES ASSUME NEW d \in Deploy
             PROVE  sets'[d] + Cardinality(Approving(d)') <= Cardinality(Operator)
  BY DEF ApplyInv
<1>1. /\ IsFiniteSet(Operator)
      /\ Approving(d) \subseteq Operator /\ Approving(d)' \subseteq Operator
  BY DeploysAssumption DEF Approving
<1>2. /\ IsFiniteSet(Approving(d))
      /\ Cardinality(Approving(d)) \in Nat /\ Cardinality(Approving(d)') \in Nat
      /\ Cardinality(Operator) \in Nat
      /\ Cardinality(Approving(d)') <= Cardinality(Operator)
  BY <1>1, PartIsSmaller
<1>3. /\ sets[d] \in Nat
      /\ sets[d] + Cardinality(Approving(d)) <= Cardinality(Operator)
  BY DEF ApplyInv, TypeOK
<1>4. CASE sets'[d] = sets[d] /\ Approving(d)' \subseteq Approving(d)
  <2>1. Cardinality(Approving(d)') <= Cardinality(Approving(d))
    BY <1>2, <1>4, PartIsSmaller
  <2> QED
    BY <1>2, <1>3, <1>4, <2>1
<1>5. CASE sets'[d] = 0
  BY <1>2, <1>5
<1>6. CASE /\ sets'[d] = sets[d] + 1
           /\ \E o \in Approving(d) : Approving(d)' \subseteq Approving(d) \ {o}
  <2> PICK o \in Approving(d) : Approving(d)' \subseteq Approving(d) \ {o}
    BY <1>6
  <2>1. /\ IsFiniteSet(Approving(d) \ {o})
        /\ Cardinality(Approving(d) \ {o}) = Cardinality(Approving(d)) - 1
    BY <1>2, FS_RemoveElement
  <2>2. Cardinality(Approving(d)') <= Cardinality(Approving(d) \ {o})
    BY <2>1, PartIsSmaller
  <2> QED
    BY <1>2, <1>3, <1>6, <2>1, <2>2
<1> QED
  BY <1>4, <1>5, <1>6, ApprovingStep

\* However many operators act, a deploy is applied no more often than once for each.
THEOREM AppliesAreBounded == Spec => []AppliedBounded
<1>1. Init => ApplyInv
  <2> SUFFICES ASSUME Init PROVE ApplyInv
    OBVIOUS
  <2>1. \A d \in Deploy : sets[d] = 0 /\ Approving(d) = {}
    BY DEF Init, Approving
  <2>2. Cardinality({}) = 0 /\ Cardinality(Operator) \in Nat
    BY FS_EmptySet, FS_CardinalityType, DeploysAssumption
  <2> QED
    BY <2>1, <2>2 DEF ApplyInv
<1>2. TypeOK /\ RowInv /\ ApplyInv /\ [Next]_vars => ApplyInv'
  BY ApplyStep
<1>3. TypeOK /\ ApplyInv => AppliedBounded
  <2> SUFFICES ASSUME TypeOK, ApplyInv, NEW d \in Deploy
               PROVE  sets[d] <= Cardinality(Operator)
    BY DEF AppliedBounded
  <2>1. Cardinality(Approving(d)) \in Nat /\ Cardinality(Operator) \in Nat
    BY PartIsSmaller, DeploysAssumption DEF Approving
  <2> QED
    BY <2>1 DEF ApplyInv, TypeOK
<1> QED
  BY <1>1, <1>2, <1>3, RowInvariant, TypeCorrect, PTL DEF Spec

-----------------------------------------------------------------------------
(* One operator.                                                             *)

\* It works on an undecided row, and has applied it once it watches it.
HandsOnly ==
    \A o \in Operator :
        /\ pc[o] \in {"gate", "approve", "reject"} => status[on[o]] = "pending"
        /\ pc[o] \in {"apply"} \cup Watching => status[on[o]] = "approved"
        /\ pc[o] = "fail" => status[on[o]] \in {"pending", "approved"}
        /\ pc[o] = "apply" => sets[on[o]] = 0

\* The image stays live while the operator watches it.
WatchesLive ==
    \A o \in Operator : pc[o] \in {"watch", "succeed"} => live = image[on[o]]

\* A row that has not arrived has not been applied.
NewIsUnset == \A d \in Deploy : status[d] = "absent" => sets[d] = 0

\* One click on Approve sets the image once.
AppliedOnce == \A d \in Deploy : sets[d] <= 1

\* A deploy shown as pending or rejected never reached the cluster.
RejectedNeverApplied ==
    \A d \in Deploy : status[d] \in {"pending", "rejected"} => sets[d] = 0

SoleInv == HandsOnly /\ WatchesLive /\ NewIsUnset /\ AppliedOnce /\ RejectedNeverApplied

\* A rejected, failed or deployed row keeps its status.
SettledIsFinal ==
    [][\A d \in Deploy :
          status[d] \in {"rejected", "deployed", "failed"} => status'[d] = status[d]]_vars

\* With one operator, the row it works on keeps the status it read until it writes
\* the row itself.
LEMMA SoleOperatorStep ==
  ASSUME SoleOperator, TypeOK, SoleInv, [Next]_vars
  PROVE  SoleInv'
<1> USE DEF SoleOperator, SoleInv, HandsOnly, WatchesLive, NewIsUnset, AppliedOnce,
            RejectedNeverApplied, TypeOK, Watching, table, cluster, Goto, Release, Write
<1>1. ASSUME NEW d \in Deploy, NEW img \in Image, Arrive(d, img) PROVE SoleInv'
  BY <1>1 DEF Arrive
<1>2. ASSUME NEW o \in Operator, NEW d \in Deploy,
             NEW choice \in {"gate", "reject"}, Click(o, d, choice)
      PROVE  SoleInv'
  BY <1>2 DEF Click, Clickable
<1>3. ASSUME NEW o \in Operator, Reject(o) PROVE SoleInv'
  BY <1>3 DEF Reject
<1>4. ASSUME NEW o \in Operator, Gate(o) PROVE SoleInv'
  BY <1>4 DEF Gate
<1>5. ASSUME NEW o \in Operator, Approve(o) PROVE SoleInv'
  BY <1>5 DEF Approve
<1>6. ASSUME NEW o \in Operator, Apply(o) PROVE SoleInv'
  <2>1. /\ pc[o] = "apply" /\ on[o] \in Deploy
        /\ status[on[o]] = "approved" /\ sets[on[o]] = 0
    BY <1>6, ApplyEffect
  <2>2. /\ sets' = [sets EXCEPT ![on[o]] = 1]
        /\ UNCHANGED <<status, image, on>>
    BY <1>6, <2>1, ApplyEffect
  <2>3. \/ pc' = [pc EXCEPT ![o] = "watch"] /\ live' = image[on[o]]
        \/ pc' = [pc EXCEPT ![o] = "fail"]
    BY <1>6, ApplyEffect DEF SetImage
  <2>4. HandsOnly' /\ WatchesLive'
    BY <2>1, <2>2, <2>3
  <2>5. NewIsUnset' /\ AppliedOnce' /\ RejectedNeverApplied'
    BY <2>1, <2>2
  <2> QED
    BY <2>4, <2>5
<1>7. ASSUME NEW o \in Operator, Watch(o) PROVE SoleInv'
  BY <1>7 DEF Watch
<1>8. ASSUME NEW o \in Operator, RollBack(o) PROVE SoleInv'
  BY <1>8 DEF RollBack, Undo, AfterUndo
<1>9. ASSUME NEW o \in Operator, End(o) PROVE SoleInv'
  BY <1>9 DEF End
<1>10. ASSUME NEW o \in Operator, Die(o) PROVE SoleInv'
  BY <1>10 DEF Die
<1>11. CASE RolloutEnds
  BY <1>11 DEF RolloutEnds
<1>12. CASE UNCHANGED vars
  BY <1>12 DEF vars
<1> QED
  BY <1>1, <1>2, <1>3, <1>4, <1>5, <1>6, <1>7, <1>8, <1>9, <1>10, <1>11, <1>12
  DEF Next, Carry

\* Every reachable state satisfies the lone operator's invariant.
LEMMA SoleOperatorInvariant ==
  ASSUME SoleOperator
  PROVE  Spec => [](TypeOK /\ SoleInv)
<1>1. Init => SoleInv
  BY DEF Init, SoleInv, HandsOnly, WatchesLive, NewIsUnset, AppliedOnce,
         RejectedNeverApplied, Watching
<1>2. TypeOK /\ SoleInv /\ [Next]_vars => SoleInv'
  BY SoleOperatorStep
<1> QED
  BY <1>1, <1>2, TypeCorrect, PTL DEF Spec

\* With one operator a deploy is applied at most once, whatever is clicked and
\* wherever the operator dies.
THEOREM DeployAppliedOnce ==
  ASSUME SoleOperator
  PROVE  Spec => []AppliedOnce
<1>1. SoleInv => AppliedOnce
  BY DEF SoleInv
<1> QED
  BY <1>1, SoleOperatorInvariant, PTL

\* With one operator a rejected deploy never reached the cluster.
THEOREM RejectedStaysOut ==
  ASSUME SoleOperator
  PROVE  Spec => []RejectedNeverApplied
<1>1. SoleInv => RejectedNeverApplied
  BY DEF SoleInv
<1> QED
  BY <1>1, SoleOperatorInvariant, PTL

\* With one operator "deployed" is recorded only while the image is live: neither
\* a rollback nor a failed set_image can end that way.
THEOREM DeployedMeansLive ==
  ASSUME SoleOperator
  PROVE  Spec => DeployedIsLive
<1> DEFINE A == \A d \in Deploy :
                  status'[d] = "deployed" /\ status[d] # "deployed" => live = image[d]
<1>1. TypeOK /\ SoleInv /\ [Next]_vars => [A]_vars
  <2> SUFFICES ASSUME TypeOK, SoleInv, Next PROVE A
    OBVIOUS
  <2> USE DEF TypeOK, Watching, table, cluster, Goto, Release, Write
  <2>1. CASE \E o \in Operator : End(o)
    BY <2>1 DEF End, SoleInv, WatchesLive
  <2>2. CASE ~ \E o \in Operator : End(o)
    BY <2>2 DEF Next, Carry, Arrive, Click, Reject, Gate, Approve, Apply, Watch,
                RollBack, Die, RolloutEnds
  <2> QED
    BY <2>1, <2>2
<1> QED
  BY <1>1, SoleOperatorInvariant, PTL DEF Spec, DeployedIsLive

\* With one operator a decided row is never decided again.
THEOREM DecisionsAreFinal ==
  ASSUME SoleOperator
  PROVE  Spec => SettledIsFinal
<1> DEFINE A == \A d \in Deploy :
                  status[d] \in {"rejected", "deployed", "failed"} => status'[d] = status[d]
<1>1. TypeOK /\ SoleInv /\ [Next]_vars => [A]_vars
  <2> SUFFICES ASSUME TypeOK, SoleInv, Next PROVE A
    OBVIOUS
  <2> USE DEF TypeOK, Watching, table, cluster, Goto, Release, Write, SoleInv, HandsOnly
  <2>1. CASE \E d \in Deploy, img \in Image : Arrive(d, img)
    BY <2>1 DEF Arrive
  <2>2. CASE \E o \in Operator : Reject(o) \/ Approve(o) \/ End(o)
    BY <2>2 DEF Reject, Approve, End
  <2>3. CASE UNCHANGED status
    BY <2>3
  <2> QED
    BY <2>1, <2>2, <2>3 DEF Next, Carry, Click, Gate, Apply, Watch, RollBack, Die,
                            RolloutEnds
<1> QED
  BY <1>1, SoleOperatorInvariant, PTL DEF Spec, SettledIsFinal
-----------------------------------------------------------------------------
(* One operator: Deploys implements DecisionTable.                           *)

\* What an operator watches it has applied, and a row that failed while it was
\* approved had been applied.
AppliedInv ==
    \A o \in Operator :
        /\ pc[o] \in Watching => sets[on[o]] > 0
        /\ pc[o] = "fail" /\ status[on[o]] = "approved" => sets[on[o]] > 0

\* Every step keeps it.
LEMMA AppliedStep ==
  ASSUME SoleOperator, TypeOK, SoleInv, AppliedInv, [Next]_vars
  PROVE  AppliedInv'
<1> USE DEF SoleOperator, AppliedInv, SoleInv, HandsOnly, TypeOK, Watching, table, Goto,
            Release, Write
<1>1. CASE \E o \in Operator : Apply(o)
  <2> PICK o \in Operator : Apply(o)
    BY <1>1
  <2>1. pc[o] = "apply" /\ on[o] \in Deploy /\ sets[on[o]] = 0
    BY ApplyEffect
  <2>2. sets' = [sets EXCEPT ![on[o]] = 1] /\ UNCHANGED on
    BY <2>1, ApplyEffect
  <2> QED
    BY <2>1, <2>2
<1>2. CASE \E o \in Operator, d \in Deploy, c \in {"gate", "reject"} : Click(o, d, c)
  BY <1>2 DEF Click
<1>3. CASE \E o \in Operator : Gate(o) \/ Approve(o)
  BY <1>3 DEF Gate, Approve
<1>4. CASE \E o \in Operator : Watch(o) \/ RollBack(o)
  BY <1>4 DEF Watch, RollBack, AfterUndo
<1>5. CASE \E o \in Operator : Reject(o) \/ End(o) \/ Die(o)
  BY <1>5 DEF Reject, End, Die
<1>6. CASE \E d \in Deploy, img \in Image : Arrive(d, img)
  BY <1>6 DEF Arrive
<1>7. CASE UNCHANGED <<status, pc, on, sets>>
  BY <1>7
<1> QED
  BY <1>1, <1>2, <1>3, <1>4, <1>5, <1>6, <1>7 DEF Next, Carry, RolloutEnds, vars

\* A step of the table, or none.
TableStep == [Table!DNext]_[d \in Deploy |-> StageOf(d)]

\* A row that moves is a step Move of the table.
LEMMA RowMoves ==
  ASSUME NEW d \in Deploy, NEW S, NEW t, StageOf(d) \in S,
         StageOf(d)' = t, \A e \in Deploy : e # d => StageOf(e)' = StageOf(e)
  PROVE  Table!Move({d}, S, t)
BY DEF Table!Move

\* Rows that stay are no step of the table.
LEMMA RowsStay ==
  ASSUME UNCHANGED <<status, sets>>
  PROVE  TableStep
BY DEF TableStep, StageOf

\* A step that writes the status of one row leaves the others where they are.
LEMMA OthersStay ==
  ASSUME TypeOK, NEW d \in Deploy, NEW v, status' = [status EXCEPT ![d] = v], UNCHANGED sets
  PROVE  /\ \A e \in Deploy : e # d => StageOf(e)' = StageOf(e)
         /\ status'[d] = v /\ sets'[d] = sets[d]
BY DEF TypeOK, StageOf

\* Every step of the pipeline is a step of the table, or leaves it unchanged.
LEMMA DeploysTableStep ==
  ASSUME SoleOperator, TypeOK, SoleInv, AppliedInv, [Next]_vars
  PROVE  TableStep
<1>1. CASE \E d \in Deploy, img \in Image : Arrive(d, img)
  <2> PICK d \in Deploy, img \in Image : Arrive(d, img)
    BY <1>1
  <2>1. \A e \in Deploy : e # d => StageOf(e)' = StageOf(e)
    BY OthersStay DEF Arrive, Write
  <2>2. status[d] = "absent" /\ status'[d] = "pending"
    BY OthersStay DEF Arrive, Write
  <2>3. StageOf(d) = "new" /\ StageOf(d)' = "open"
    BY <2>2 DEF StageOf
  <2>4. Table!Submit({d})
    BY <2>1, <2>3, RowMoves DEF Table!Submit
  <2> QED
    BY <2>4 DEF TableStep, Table!DNext
<1>2. CASE \E o \in Operator : Reject(o)
  <2> PICK o \in Operator : Reject(o)
    BY <1>2
  <2> PICK d \in Deploy : d = on[o]
    BY DEF Reject, TypeOK
  <2>1. \A e \in Deploy : e # d => StageOf(e)' = StageOf(e)
    BY OthersStay DEF Reject, Write
  <2>2. status[d] = "pending" /\ sets[d] = 0
    BY DEF Reject, SoleInv, HandsOnly, RejectedNeverApplied
  <2>3. status'[d] = "rejected" /\ sets'[d] = sets[d]
    BY OthersStay DEF Reject, Write
  <2>4. StageOf(d) = "open" /\ StageOf(d)' = "refused"
    BY <2>2, <2>3 DEF StageOf
  <2>5. Table!Refuse({d})
    BY <2>1, <2>4, RowMoves DEF Table!Refuse
  <2> QED
    BY <2>5 DEF TableStep, Table!DNext
<1>3. CASE \E o \in Operator : Approve(o)
  <2> PICK o \in Operator : Approve(o)
    BY <1>3
  <2> PICK d \in Deploy : d = on[o]
    BY DEF Approve, TypeOK
  <2>1. \A e \in Deploy : e # d => StageOf(e)' = StageOf(e)
    BY OthersStay DEF Approve, Write
  <2>2. status[d] = "pending" /\ sets[d] = 0
    BY DEF Approve, SoleInv, HandsOnly, RejectedNeverApplied
  <2>3. status'[d] = "approved" /\ sets'[d] = sets[d]
    BY OthersStay DEF Approve, Write
  <2>4. StageOf(d) = "open" /\ StageOf(d)' = "taken"
    BY <2>2, <2>3 DEF StageOf
  <2>5. Table!TakeUp(d)
    BY <2>1, <2>4, RowMoves DEF Table!TakeUp
  <2> QED
    BY <2>5 DEF TableStep, Table!DNext
<1>4. CASE \E o \in Operator : Apply(o)
  <2> PICK o \in Operator : Apply(o)
    BY <1>4
  <2> PICK d \in Deploy : d = on[o]
    BY DEF Apply, TypeOK
  <2>1. status[d] = "approved" /\ sets[d] = 0
    BY DEF Apply, SoleInv, HandsOnly
  <2>2. UNCHANGED status /\ sets' = [sets EXCEPT ![d] = 1]
    BY <2>1, ApplyEffect DEF table
  <2>3. \A e \in Deploy : e # d => StageOf(e)' = StageOf(e)
    BY <2>2 DEF StageOf, TypeOK
  <2>4. StageOf(d) = "taken" /\ StageOf(d)' = "started"
    BY <2>1, <2>2 DEF StageOf, TypeOK
  <2>5. Table!Start(d)
    BY <2>3, <2>4, RowMoves DEF Table!Start
  <2> QED
    BY <2>5 DEF TableStep, Table!DNext
<1>5. CASE \E o \in Operator : End(o)
  <2> PICK o \in Operator : End(o)
    BY <1>5
  <2> PICK d \in Deploy : d = on[o]
    BY DEF End, TypeOK
  <2>1. \A e \in Deploy : e # d => StageOf(e)' = StageOf(e)
    BY OthersStay DEF End, Write
  <2>2. /\ status'[d] = IF pc[o] = "succeed" THEN "deployed" ELSE "failed"
        /\ sets'[d] = sets[d] /\ sets[d] \in Nat
    BY OthersStay DEF End, Write, TypeOK
  <2>3. CASE status[d] = "approved"
    <3>1. sets[d] > 0
      BY <2>3 DEF End, AppliedInv, Watching
    <3>2. StageOf(d) = "started" /\ StageOf(d)' \in {"succeeded", "failed"}
      BY <2>2, <2>3, <3>1 DEF StageOf
    <3> PICK t \in {"succeeded", "failed"} : StageOf(d)' = t
      BY <3>2
    <3>3. Table!Move({d}, {"started"}, t)
      BY <2>1, <3>2, RowMoves
    <3>4. Table!Finish(d)
      BY <3>2, <3>3 DEF Table!Finish
    <3> QED
      BY <3>4 DEF TableStep, Table!DNext
  <2>4. CASE status[d] # "approved"
    <3>1. pc[o] = "fail" /\ status[d] = "pending" /\ sets[d] = 0
      BY <2>4 DEF End, SoleInv, HandsOnly, RejectedNeverApplied, Watching
    <3>2. StageOf(d) = "open" /\ StageOf(d)' = "refused"
      BY <2>2, <3>1 DEF StageOf
    <3>3. Table!Refuse({d})
      BY <2>1, <3>2, RowMoves DEF Table!Refuse
    <3> QED
      BY <3>3 DEF TableStep, Table!DNext
  <2> QED
    BY <2>3, <2>4
<1>6. CASE UNCHANGED <<status, sets>>
  BY <1>6, RowsStay
<1> QED
  BY <1>1, <1>2, <1>3, <1>4, <1>5, <1>6 DEF Next, Carry, Click, Gate, Watch, RollBack, Die,
     RolloutEnds, vars, table

\* One operator keeps the promise of the decision table, wherever it dies and
\* whatever the gate, kubectl and the watch report.
THEOREM DeploysImplementTable ==
  ASSUME SoleOperator
  PROVE  Spec => DecisionSpec
<1>1. Init => Table!DInit /\ AppliedInv
  BY DEF Init, Table!DInit, StageOf, AppliedInv, Watching
<1>2. TypeOK /\ SoleInv /\ AppliedInv /\ [Next]_vars => AppliedInv' /\ TableStep
  BY AppliedStep, DeploysTableStep
<1> QED
  BY <1>1, <1>2, SoleOperatorInvariant, PTL DEF Spec, DecisionSpec, Table!DSpec, TableStep
=============================================================================
