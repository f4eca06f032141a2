--------------------------- MODULE ApprovalsProofs ---------------------------
(***************************************************************************)
(* Theorems about Approvals, for every number of rows, keys and threads and *)
(* any time to live.  What is safe depends on how many processes decide and *)
(* how many threads propose, and the hypotheses say so.                     *)
(***************************************************************************)
EXTENDS Approvals, FiniteSetTheorems, TLAPS

\* Only one process answers clicks: the Slack server, or the dashboard, not both.
SoleDecider == \A c, d \in Decider : c = d

\* Proposals are made one at a time.
SoleProposer == \A p, q \in Proposer : p = q

\* The columns and the local variables always have the types TypeOK gives them.
THEOREM TypeCorrect == Spec => []TypeOK
<1>1. Init => TypeOK
  BY ApprovalsAssumption DEF Init, TypeOK, Status, Mode
<1>2. TypeOK /\ [Next]_vars => TypeOK'
  <2> SUFFICES ASSUME TypeOK, [Next]_vars PROVE TypeOK'
    OBVIOUS
  <2> USE ApprovalsAssumption DEF TypeOK, Status, Mode, table, proposing, deciding
  <2>1. ASSUME NEW p \in Proposer, NEW k \in Key, NEW m \in Mode, Begin(p, k, m)
        PROVE  TypeOK'
    BY <2>1 DEF Begin
  <2>2. ASSUME NEW p \in Proposer, Prune(p) PROVE TypeOK'
    BY <2>2 DEF Prune, Swept
  <2>3. ASSUME NEW p \in Proposer, List(p) PROVE TypeOK'
    BY <2>3 DEF List, Done
  <2>4. ASSUME NEW p \in Proposer, NEW a \in Action, Create(p, a) PROVE TypeOK'
    BY <2>4 DEF Create
  <2>5. ASSUME NEW p \in Proposer, NEW o \in SendOutcome, Send(p, o) PROVE TypeOK'
    BY <2>5 DEF Send, Done
  <2>6. ASSUME NEW p \in Proposer, GiveUp(p) PROVE TypeOK'
    BY <2>6 DEF GiveUp, Done
  <2>7. ASSUME NEW d \in Decider, NEW a \in Action,
               NEW c \in {"approve", "reject"}, Click(d, a, c)
        PROVE  TypeOK'
    BY <2>7 DEF Click
  <2>8. ASSUME NEW d \in Decider, Refuse(d) PROVE TypeOK'
    BY <2>8 DEF Refuse, Settle
  <2>9. ASSUME NEW d \in Decider, Approve(d) PROVE TypeOK'
    BY <2>9 DEF Approve, Settle
  <2>10. ASSUME NEW d \in Decider, NEW a \in Action,
                NEW o \in {"applied", "failed"}, Finish(d, a, o)
         PROVE  TypeOK'
    BY <2>10 DEF Finish
  <2>11. ASSUME NEW p \in Proposer, ProposerDies(p) PROVE TypeOK'
    BY <2>11 DEF ProposerDies, Done
  <2>12. ASSUME NEW d \in Decider, DeciderDies(d) PROVE TypeOK'
    BY <2>12 DEF DeciderDies, Settle
  <2>13. CASE ExpireStale
    BY <2>13 DEF ExpireStale, Swept
  <2>14. CASE Tick
    BY <2>14 DEF Tick
  <2>15. CASE UNCHANGED vars
    BY <2>15 DEF vars
  <2> QED
    BY <2>1, <2>2, <2>3, <2>4, <2>5, <2>6, <2>7, <2>8, <2>9, <2>10, <2>11,
       <2>12, <2>13, <2>14, <2>15 DEF Next, Propose, Carry
<1> QED
  BY <1>1, <1>2, PTL DEF Spec

-----------------------------------------------------------------------------
(* Counting: the sets that the bounds are about.                             *)

\* A part of a finite set is finite and no larger.
LEMMA PartIsSmaller ==
  ASSUME NEW T, IsFiniteSet(T), NEW S, S \subseteq T
  PROVE  /\ IsFiniteSet(S)
         /\ Cardinality(S) \in Nat /\ Cardinality(T) \in Nat
         /\ Cardinality(S) <= Cardinality(T)
BY FS_Subset, FS_CardinalityType

\* When an element of Y is given up for one more in X, their sizes together stay.
LEMMA Handover ==
  ASSUME NEW X, IsFiniteSet(X), NEW Y, IsFiniteSet(Y), NEW x, NEW y \in Y
  PROVE  Cardinality(X \cup {x}) + Cardinality(Y \ {y}) <= Cardinality(X) + Cardinality(Y)
<1>1. /\ Cardinality(X) \in Nat /\ Cardinality(Y) \in Nat
      /\ Cardinality(X \cup {x}) \in Nat
  BY FS_AddElement, FS_CardinalityType
<1>2. Cardinality(X \cup {x}) =
          IF x \in X THEN Cardinality(X) ELSE Cardinality(X) + 1
  BY FS_AddElement
<1>3. Cardinality(Y \ {y}) = Cardinality(Y) - 1
  BY FS_RemoveElement
<1> QED
  BY <1>1, <1>2, <1>3

-----------------------------------------------------------------------------
(* Any number of deciders: each has at most one approval in hand.            *)

\* The processes about to approve the row a.
Approving(a) == {d \in Decider : verdict[d] = "approve" /\ on[d] = a}

\* A row that can still be clicked has not been run; otherwise its runs and the
\* approvals still in hand are together no more than the processes, since nobody
\* can take up another.
ClickInv ==
    /\ \A a \in Action : status[a] \in {"absent", "pending"} => runs[a] = 0
    /\ \A a \in Action : runs[a] + Cardinality(Approving(a)) <= Cardinality(Decider)

\* What a step does to the runs of a row and to the approvals in hand.
LEMMA ApprovingStep ==
  ASSUME TypeOK, ClickInv, [Next]_vars, NEW a \in Action
  PROVE  /\ status'[a] \in {"absent", "pending"} => runs'[a] = 0
         /\ \/ runs'[a] = runs[a] /\ Approving(a)' \subseteq Approving(a)
            \/ runs'[a] = 0
            \/ /\ runs'[a] = runs[a] + 1
               /\ \E d \in Approving(a) : Approving(a)' \subseteq Approving(a) \ {d}
<1> DEFINE Goal ==
      /\ status'[a] \in {"absent", "pending"} => runs'[a] = 0
      /\ \/ runs'[a] = runs[a] /\ Approving(a)' \subseteq Approving(a)
         \/ runs'[a] = 0
         \/ /\ runs'[a] = runs[a] + 1
            /\ \E d \in Approving(a) : Approving(a)' \subseteq Approving(a) \ {d}
<1> SUFFICES Goal
  OBVIOUS
<1>0. status[a] \in {"absent", "pending"} => runs[a] = 0
  BY DEF ClickInv
<1> USE DEF Approving, TypeOK, Status, table, deciding
<1>1. CASE \E d \in Decider : Approve(d)
  <2> PICK d \in Decider : Approve(d)
    BY <1>1
  <2>1. CASE on[d] = a
    <3>1. runs'[a] = runs[a] + 1 /\ status'[a] = "approved"
      BY <2>1 DEF Approve
    <3>2. d \in Approving(a) /\ Approving(a)' \subseteq Approving(a) \ {d}
      BY <2>1 DEF Approve, Settle
    <3> QED
      BY <3>1, <3>2
  <2>2. CASE on[d] # a
    BY <1>0, <2>2 DEF Approve, Settle
  <2> QED
    BY <2>1, <2>2
<1>2. CASE \E d \in Decider, b \in Action, c \in {"approve", "reject"} : Click(d, b, c)
  <2> PICK d \in Decider, b \in Action, c \in {"approve", "reject"} : Click(d, b, c)
    BY <1>2
  <2>1. CASE b = a
    BY <1>0, <2>1 DEF Click, StillPending
  <2>2. CASE b # a
    BY <1>0, <2>2 DEF Click
  <2> QED
    BY <2>1, <2>2
<1>3. CASE UNCHANGED <<runs, verdict, on>>
  <2>1. status'[a] \in {"absent", "pending"} => status[a] \in {"absent", "pending"}
    BY <1>3 DEF Next, Propose, Carry, vars, Begin, Prune, List, Create, Created, Send,
       GiveUp, Finish, Refuse, Approve, Settle, Click, DeciderDies, ProposerDies,
       ExpireStale, Tick, Swept, IsStale
  <2> QED
    BY <1>0, <1>3, <2>1
<1>4. CASE \E d \in Decider : Refuse(d) \/ DeciderDies(d)
  BY <1>0, <1>4 DEF Refuse, DeciderDies, Settle
<1> QED
  BY <1>1, <1>2, <1>3, <1>4 DEF Next, Propose, Carry, vars, proposing, Begin, Prune,
     List, Create, Send, GiveUp, Finish, ProposerDies, ExpireStale, Tick

\* Every step keeps that count.
LEMMA ClickStep ==
  ASSUME TypeOK, ClickInv, [Next]_vars
  PROVE  ClickInv'
<1>1. ASSUME NEW a \in Action
      PROVE  runs'[a] + Cardinality(Approving(a)') <= Cardinality(Decider)
  <2>1. /\ IsFiniteSet(Decider)
        /\ Approving(a) \subseteq Decider /\ Approving(a)' \subseteq Decider
    BY ApprovalsAssumption DEF Approving
  <2>2. /\ IsFiniteSet(Approving(a))
        /\ Cardinality(Approving(a)) \in Nat /\ Cardinality(Approving(a)') \in Nat
        /\ Cardinality(Decider) \in Nat
        /\ Cardinality(Approving(a)') <= Cardinality(Decider)
    BY <2>1, PartIsSmaller
  <2>3. /\ runs[a] \in Nat
        /\ runs[a] + Cardinality(Approving(a)) <= Cardinality(Decider)
    BY DEF ClickInv, TypeOK
  <2>4. CASE runs'[a] = runs[a] /\ Approving(a)' \subseteq Approving(a)
    <3>1. Cardinality(Approving(a)') <= Cardinality(Approving(a))
      BY <2>2, <2>4, PartIsSmaller
    <3> QED
      BY <2>2, <2>3, <2>4, <3>1
  <2>5. CASE runs'[a] = 0
    BY <2>2, <2>5
  <2>6. CASE /\ runs'[a] = runs[a] + 1
             /\ \E d \in Approving(a) : Approving(a)' \subseteq Approving(a) \ {d}
    <3> PICK d \in Approving(a) : Approving(a)' \subseteq Approving(a) \ {d}
      BY <2>6
    <3>1. /\ IsFiniteSet(Approving(a) \ {d})
          /\ Cardinality(Approving(a) \ {d}) = Cardinality(Approving(a)) - 1
      BY <2>2, FS_RemoveElement
    <3>2. Cardinality(Approving(a)') <= Cardinality(Approving(a) \ {d})
      BY <3>1, PartIsSmaller
    <3> QED
      BY <2>2, <2>3, <2>6, <3>1, <3>2
  <2> QED
    BY <2>4, <2>5, <2>6, ApprovingStep
<1> QED
  BY <1>1, ApprovingStep DEF ClickInv

\* However many processes decide, and whatever is clicked, reported late by Slack,
\* swept or killed, a fix runs no more often than once for each of them.
THEOREM RunsAreBounded == Spec => []RunsBounded
<1>1. Init => ClickInv
  <2> SUFFICES ASSUME Init PROVE ClickInv
    OBVIOUS
  <2>1. \A a \in Action : runs[a] = 0 /\ Approving(a) = {}
    BY DEF Init, Approving
  <2>2. Cardinality({}) = 0 /\ Cardinality(Decider) \in Nat
    BY FS_EmptySet, FS_CardinalityType, ApprovalsAssumption
  <2> QED
    BY <2>1, <2>2 DEF ClickInv
<1>2. TypeOK /\ ClickInv /\ [Next]_vars => ClickInv'
  BY ClickStep
<1>3. TypeOK /\ ClickInv => RunsBounded
  <2> SUFFICES ASSUME TypeOK, ClickInv, NEW a \in Action
               PROVE  runs[a] <= Cardinality(Decider)
    BY DEF RunsBounded
  <2>1. Cardinality(Approving(a)) \in Nat /\ Cardinality(Decider) \in Nat
    BY PartIsSmaller, ApprovalsAssumption DEF Approving
  <2> QED
    BY <2>1 DEF ClickInv, TypeOK
<1> QED
  BY <1>1, <1>2, <1>3, TypeCorrect, PTL DEF Spec

\* Only Create adds a pending row; the keys and origins of rows never change.
LEMMA PendingShrinks ==
  ASSUME TypeOK, [Next]_vars,
         ~ \E p \in Proposer, a \in Action : Create(p, a)
  PROVE  Pending' \subseteq Pending /\ UNCHANGED <<key, via>>
BY DEF TypeOK, Next, Propose, Carry, vars, table, Pending, Begin, Prune, List, Send,
   GiveUp, Click, Refuse, Approve, Finish, ProposerDies, DeciderDies, ExpireStale,
   Tick, Swept

\* The pending approvals are finitely many, the remote ones no more than all.
LEMMA RemotePendingFinite ==
  /\ IsFiniteSet(RemotePending)
  /\ IsFiniteSet(Pending)
  /\ Cardinality(RemotePending) \in Nat
  /\ Cardinality(Pending) \in Nat
  /\ Cardinality(RemotePending) <= Cardinality(Pending)
<1>1. IsFiniteSet(Action)
  BY FS_Interval, ApprovalsAssumption DEF Action
<1>2. Pending \subseteq Action /\ RemotePending \subseteq Pending
  BY DEF Pending, RemotePending
<1>3. IsFiniteSet(Pending)
  BY <1>1, <1>2, FS_Subset
<1> QED
  BY <1>2, <1>3, FS_Subset, FS_CardinalityType

-----------------------------------------------------------------------------
(* Any number of proposers: each lists, and then creates one row.            *)

\* The threads that have found no row with the key k and are about to create one.
Creating(k) == {p \in Proposer : pc[p] = "create" /\ mode[p] # "direct" /\ want[p] = k}

\* What the column of the keys may hold.
AnyKey == Key \cup {NoAction}

\* The waiting rows of a key and the threads about to add one are together no more
\* than the threads: whoever lists a row of the key gives up.
TwinsInv ==
    \A k \in AnyKey : Cardinality(Twins(k)) + Cardinality(Creating(k)) <= Cardinality(Proposer)

\* The threads that have found room and are about to create a remote row.
RemoteCreating == {p \in Proposer : pc[p] = "create" /\ mode[p] = "remote"}

\* The same for the limit: whoever lists as many rows as it allows gives up.
RemoteInv ==
    Cardinality(RemotePending) + Cardinality(RemoteCreating)
        <= RemoteLimit + Cardinality(Proposer) - 1

\* The sets that are counted are finite.
LEMMA ProposerSetsFinite ==
  /\ \A k : Creating(k) \subseteq Proposer
  /\ RemoteCreating \subseteq Proposer
  /\ \A k : IsFiniteSet(Twins(k)) /\ IsFiniteSet(Creating(k))
  /\ IsFiniteSet(RemoteCreating)
  /\ IsFiniteSet(Proposer)
  /\ \A k : Cardinality(Twins(k)) \in Nat /\ Cardinality(Creating(k)) \in Nat
  /\ Cardinality(RemoteCreating) \in Nat
  /\ Cardinality(Proposer) \in Nat
<1>1. \A k : Creating(k) \subseteq Proposer /\ Twins(k) \subseteq Pending
  BY DEF Creating, Twins
<1>2. RemoteCreating \subseteq Proposer
  BY DEF RemoteCreating
<1> QED
  BY <1>1, <1>2, PartIsSmaller, RemotePendingFinite, ApprovalsAssumption

\* What a step does to the rows of a key, to the remote rows and to the threads
\* about to create one.  A thread joins them only after its list was clear.
LEMMA CreatingStep ==
  ASSUME TypeOK, [Next]_vars, NEW k
  PROVE  /\ \/ \E p \in Proposer, a \in Action :
                  /\ p \in Creating(k) \/ Twins(k)' = Twins(k)
                  /\ Twins(k)' \subseteq Twins(k) \cup {a}
                  /\ Creating(k)' \subseteq Creating(k) \ {p}
            \/ Twins(k)' \subseteq Twins(k) /\ Creating(k)' \subseteq Creating(k)
            \/ Twins(k)' = Twins(k) /\ Twins(k) = {}
         /\ \/ \E p \in Proposer, a \in Action :
                  /\ p \in RemoteCreating \/ RemotePending' = RemotePending
                  /\ RemotePending' \subseteq RemotePending \cup {a}
                  /\ RemoteCreating' \subseteq RemoteCreating \ {p}
            \/ RemotePending' \subseteq RemotePending /\ RemoteCreating' \subseteq RemoteCreating
            \/ RemotePending' = RemotePending /\ Cardinality(Pending) < RemoteLimit
<1>1. CASE \E p \in Proposer, a \in Action : Create(p, a)
  <2> PICK p \in Proposer, a \in Action : Create(p, a)
    BY <1>1
  <2>1. /\ pc[p] = "create"
        /\ a \notin Pending
        /\ Pending' = Pending \cup {a}
        /\ key' = [key EXCEPT ![a] = want[p]]
        /\ via' = [via EXCEPT ![a] = mode[p]]
        /\ pc' = [pc EXCEPT ![p] = "send"]
        /\ UNCHANGED <<want, mode>>
    BY DEF Create, Created, Pending, TypeOK
  <2>2. /\ p \in RemoteCreating \/ RemotePending' = RemotePending
        /\ RemotePending' \subseteq RemotePending \cup {a}
        /\ RemoteCreating' \subseteq RemoteCreating \ {p}
    BY <2>1 DEF RemotePending, Pending, RemoteCreating, TypeOK
  <2>3. /\ p \in Creating(k) \/ Twins(k)' = Twins(k)
        /\ Twins(k)' \subseteq Twins(k) \cup {a}
        /\ Creating(k)' \subseteq Creating(k) \ {p}
    BY <2>1 DEF Twins, Pending, Creating, TypeOK
  <2> QED
    BY <2>2, <2>3
<1>2. CASE \E p \in Proposer : List(p) /\ ~ Duplicate(p) /\ ~ OverLimit(p)
  <2> PICK p \in Proposer : List(p) /\ ~ Duplicate(p) /\ ~ OverLimit(p)
    BY <1>2
  <2>1. /\ pc' = [pc EXCEPT ![p] = "create"]
        /\ UNCHANGED <<want, mode, status, key, via>>
    BY DEF List, table
  <2>2. UNCHANGED <<RemotePending, Pending>> /\ Twins(k)' = Twins(k)
    BY <2>1 DEF RemotePending, Pending, Twins
  <2>3. RemoteCreating' \subseteq RemoteCreating \/ mode[p] = "remote"
    BY <2>1 DEF RemoteCreating, TypeOK
  <2>4. mode[p] = "remote" => Cardinality(Pending) < RemoteLimit
    BY RemotePendingFinite, ApprovalsAssumption DEF OverLimit
  <2>5. Creating(k)' \subseteq Creating(k) \/ Twins(k) = {}
    <3>1. CASE want[p] = k
      BY <3>1 DEF Duplicate, Twins
    <3>2. CASE want[p] # k
      BY <2>1, <3>2 DEF Creating, TypeOK
    <3> QED
      BY <3>1, <3>2
  <2> QED
    BY <2>2, <2>3, <2>4, <2>5
<1>3. CASE /\ ~ \E p \in Proposer, a \in Action : Create(p, a)
           /\ ~ \E p \in Proposer : List(p) /\ ~ Duplicate(p) /\ ~ OverLimit(p)
  <2>1. Pending' \subseteq Pending /\ UNCHANGED <<key, via>>
    BY <1>3, PendingShrinks
  <2>2. ASSUME NEW q \in Proposer, pc'[q] = "create", mode'[q] # "direct"
        PROVE  pc[q] = "create" /\ mode'[q] = mode[q] /\ want'[q] = want[q]
    BY <1>3, <2>2 DEF TypeOK, Next, Propose, Carry, vars, proposing, Begin, Prune, List,
       Send, GiveUp, Done, Click, Refuse, Approve, Finish, ProposerDies, DeciderDies,
       ExpireStale, Tick
  <2>3. RemotePending' \subseteq RemotePending /\ Twins(k)' \subseteq Twins(k)
    BY <2>1 DEF RemotePending, Twins
  <2>4. RemoteCreating' \subseteq RemoteCreating /\ Creating(k)' \subseteq Creating(k)
    BY <2>2 DEF RemoteCreating, Creating
  <2> QED
    BY <2>3, <2>4
<1> QED
  BY <1>1, <1>2, <1>3

\* The same of the sets after a step.
LEMMA NextSetsFinite ==
  ASSUME NEW k
  PROVE  /\ Creating(k)' \subseteq Proposer
         /\ RemoteCreating' \subseteq Proposer
         /\ IsFiniteSet(Twins(k)') /\ IsFiniteSet(RemotePending')
         /\ Cardinality(Twins(k)') \in Nat /\ Cardinality(Creating(k)') \in Nat
         /\ Cardinality(RemotePending') \in Nat /\ Cardinality(RemoteCreating') \in Nat
<1>1. IsFiniteSet(Action) /\ IsFiniteSet(Proposer)
  BY FS_Interval, ApprovalsAssumption DEF Action
<1>2. /\ Creating(k)' \subseteq Proposer /\ RemoteCreating' \subseteq Proposer
      /\ Twins(k)' \subseteq Action /\ RemotePending' \subseteq Action
  BY DEF Creating, RemoteCreating, Twins, RemotePending, Pending
<1> QED
  BY <1>1, <1>2, PartIsSmaller

\* A set that gains at most the one element for which another loses one of its own:
\* the sizes of the two together do not grow.
LEMMA TakesItsPlace ==
  ASSUME NEW S, NEW T, NEW S1, NEW T1, IsFiniteSet(S), IsFiniteSet(T),
         NEW x, NEW y, y \in T \/ S1 = S,
         S1 \subseteq S \cup {x}, T1 \subseteq T \ {y}
  PROVE  Cardinality(S1) + Cardinality(T1) <= Cardinality(S) + Cardinality(T)
<1>1. CASE y \in T
  <2>1. IsFiniteSet(S \cup {x}) /\ IsFiniteSet(T \ {y})
    BY FS_AddElement, FS_RemoveElement
  <2>2. /\ Cardinality(S1) \in Nat /\ Cardinality(S \cup {x}) \in Nat
        /\ Cardinality(S1) <= Cardinality(S \cup {x})
    BY <2>1, PartIsSmaller
  <2>3. /\ Cardinality(T1) \in Nat /\ Cardinality(T \ {y}) \in Nat
        /\ Cardinality(T1) <= Cardinality(T \ {y})
    BY <2>1, PartIsSmaller
  <2>4. /\ Cardinality(S \cup {x}) + Cardinality(T \ {y}) <= Cardinality(S) + Cardinality(T)
        /\ Cardinality(S) \in Nat /\ Cardinality(T) \in Nat
    BY <1>1, Handover, FS_CardinalityType
  <2> QED
    BY <2>2, <2>3, <2>4
<1>2. CASE y \notin T
  <2>1. S1 = S /\ T1 \subseteq T
    BY <1>2
  <2> QED
    BY <2>1, PartIsSmaller, FS_CardinalityType
<1> QED
  BY <1>1, <1>2

\* Two sets that only shrink are together no larger.
LEMMA BothShrink ==
  ASSUME NEW S, NEW T, NEW S1, NEW T1, IsFiniteSet(S), IsFiniteSet(T),
         S1 \subseteq S, T1 \subseteq T
  PROVE  Cardinality(S1) + Cardinality(T1) <= Cardinality(S) + Cardinality(T)
<1>1. /\ Cardinality(S1) \in Nat /\ Cardinality(S) \in Nat
      /\ Cardinality(S1) <= Cardinality(S)
  BY PartIsSmaller
<1>2. /\ Cardinality(T1) \in Nat /\ Cardinality(T) \in Nat
      /\ Cardinality(T1) <= Cardinality(T)
  BY PartIsSmaller
<1> QED
  BY <1>1, <1>2

\* Every step keeps the count of the twins: the row a thread creates takes the
\* place of that thread, and a thread that finds none is one of the proposers.
LEMMA TwinsStep ==
  ASSUME TypeOK, TwinsInv, [Next]_vars
  PROVE  TwinsInv'
<1> SUFFICES ASSUME NEW k \in AnyKey
             PROVE  Cardinality(Twins(k)') + Cardinality(Creating(k)')
                        <= Cardinality(Proposer)
  BY DEF TwinsInv
<1>1. /\ Cardinality(Twins(k)) + Cardinality(Creating(k)) <= Cardinality(Proposer)
      /\ IsFiniteSet(Twins(k)) /\ IsFiniteSet(Creating(k)) /\ IsFiniteSet(Proposer)
      /\ Cardinality(Twins(k)) \in Nat /\ Cardinality(Creating(k)) \in Nat
      /\ Cardinality(Proposer) \in Nat
  BY ProposerSetsFinite DEF TwinsInv
<1>2. /\ Cardinality(Twins(k)') \in Nat /\ Cardinality(Creating(k)') \in Nat
      /\ Creating(k)' \subseteq Proposer
  BY NextSetsFinite
<1>3. \/ \E p \in Proposer, a \in Action :
            /\ p \in Creating(k) \/ Twins(k)' = Twins(k)
            /\ Twins(k)' \subseteq Twins(k) \cup {a}
            /\ Creating(k)' \subseteq Creating(k) \ {p}
      \/ Twins(k)' \subseteq Twins(k) /\ Creating(k)' \subseteq Creating(k)
      \/ Twins(k)' = Twins(k) /\ Twins(k) = {}
  BY CreatingStep
<1>4. CASE \E p \in Proposer, a \in Action :
              /\ p \in Creating(k) \/ Twins(k)' = Twins(k)
              /\ Twins(k)' \subseteq Twins(k) \cup {a}
              /\ Creating(k)' \subseteq Creating(k) \ {p}
  <2> PICK p \in Proposer, a \in Action :
              /\ p \in Creating(k) \/ Twins(k)' = Twins(k)
              /\ Twins(k)' \subseteq Twins(k) \cup {a}
              /\ Creating(k)' \subseteq Creating(k) \ {p}
    BY <1>4
  <2>1. Cardinality(Twins(k)') + Cardinality(Creating(k)')
            <= Cardinality(Twins(k)) + Cardinality(Creating(k))
    BY <1>1, TakesItsPlace
  <2> QED
    BY <1>1, <1>2, <2>1
<1>5. CASE Twins(k)' \subseteq Twins(k) /\ Creating(k)' \subseteq Creating(k)
  <2>1. Cardinality(Twins(k)') + Cardinality(Creating(k)')
            <= Cardinality(Twins(k)) + Cardinality(Creating(k))
    BY <1>1, <1>5, BothShrink
  <2> QED
    BY <1>1, <1>2, <2>1
<1>6. CASE Twins(k)' = Twins(k) /\ Twins(k) = {}
  <2>1. Cardinality(Twins(k)') = 0
    BY <1>6, FS_EmptySet
  <2>2. Cardinality(Creating(k)') <= Cardinality(Proposer)
    BY <1>1, <1>2, PartIsSmaller
  <2> QED
    BY <1>1, <1>2, <2>1, <2>2
<1> QED
  BY <1>3, <1>4, <1>5, <1>6

\* Every step keeps the count of the remote proposals, in the same way; a thread
\* that joins the creators saw fewer rows than the limit.
LEMMA RemoteStep ==
  ASSUME TypeOK, RemoteInv, [Next]_vars
  PROVE  RemoteInv'
<1>1. /\ Cardinality(RemotePending) + Cardinality(RemoteCreating)
             <= RemoteLimit + Cardinality(Proposer) - 1
      /\ IsFiniteSet(RemotePending) /\ IsFiniteSet(RemoteCreating) /\ IsFiniteSet(Proposer)
      /\ Cardinality(RemotePending) \in Nat /\ Cardinality(RemoteCreating) \in Nat
      /\ Cardinality(Proposer) \in Nat
      /\ Cardinality(Pending) \in Nat /\ RemoteLimit \in Nat
      /\ Cardinality(RemotePending) <= Cardinality(Pending)
  BY ProposerSetsFinite, RemotePendingFinite, ApprovalsAssumption DEF RemoteInv
<1>2. /\ Cardinality(RemotePending') \in Nat /\ Cardinality(RemoteCreating') \in Nat
      /\ RemoteCreating' \subseteq Proposer
  BY NextSetsFinite
<1>3. \/ \E p \in Proposer, a \in Action :
            /\ p \in RemoteCreating \/ RemotePending' = RemotePending
            /\ RemotePending' \subseteq RemotePending \cup {a}
            /\ RemoteCreating' \subseteq RemoteCreating \ {p}
      \/ RemotePending' \subseteq RemotePending /\ RemoteCreating' \subseteq RemoteCreating
      \/ RemotePending' = RemotePending /\ Cardinality(Pending) < RemoteLimit
  BY CreatingStep
<1>4. CASE \E p \in Proposer, a \in Action :
              /\ p \in RemoteCreating \/ RemotePending' = RemotePending
              /\ RemotePending' \subseteq RemotePending \cup {a}
              /\ RemoteCreating' \subseteq RemoteCreating \ {p}
  <2> PICK p \in Proposer, a \in Action :
              /\ p \in RemoteCreating \/ RemotePending' = RemotePending
              /\ RemotePending' \subseteq RemotePending \cup {a}
              /\ RemoteCreating' \subseteq RemoteCreating \ {p}
    BY <1>4
  <2>1. Cardinality(RemotePending') + Cardinality(RemoteCreating')
            <= Cardinality(RemotePending) + Cardinality(RemoteCreating)
    BY <1>1, TakesItsPlace
  <2> QED
    BY <1>1, <1>2, <2>1 DEF RemoteInv
<1>5. CASE RemotePending' \subseteq RemotePending /\ RemoteCreating' \subseteq RemoteCreating
  <2>1. Cardinality(RemotePending') + Cardinality(RemoteCreating')
            <= Cardinality(RemotePending) + Cardinality(RemoteCreating)
    BY <1>1, <1>5, BothShrink
  <2> QED
    BY <1>1, <1>2, <2>1 DEF RemoteInv
<1>6. CASE RemotePending' = RemotePending /\ Cardinality(Pending) < RemoteLimit
  <2>1. Cardinality(RemoteCreating') <= Cardinality(Proposer)
    BY <1>1, <1>2, PartIsSmaller
  <2> QED
    BY <1>1, <1>2, <1>6, <2>1 DEF RemoteInv
<1> QED
  BY <1>3, <1>4, <1>5, <1>6

\* Every reachable state satisfies the count of the twins.
LEMMA TwinsInvariant == Spec => []TwinsInv
<1>1. Init => TwinsInv
  <2> SUFFICES ASSUME Init, NEW k \in AnyKey
               PROVE  Cardinality(Twins(k)) + Cardinality(Creating(k))
                          <= Cardinality(Proposer)
    BY DEF TwinsInv
  <2>1. Twins(k) = {} /\ Creating(k) = {}
    BY DEF Init, Twins, Pending, Creating
  <2> QED
    BY <2>1, FS_EmptySet, ProposerSetsFinite
<1>2. TypeOK /\ TwinsInv /\ [Next]_vars => TwinsInv'
  BY TwinsStep
<1> QED
  BY <1>1, <1>2, TypeCorrect, PTL DEF Spec

\* The waiting rows of a key are no more than the proposing threads.
LEMMA FewTwins ==
  ASSUME TwinsInv, NEW k \in AnyKey
  PROVE  Cardinality(Twins(k)) <= Cardinality(Proposer)
<1>1. Cardinality(Twins(k)) + Cardinality(Creating(k)) <= Cardinality(Proposer)
  BY DEF TwinsInv
<1> QED
  BY <1>1, ProposerSetsFinite

\* No two rows that wait for the same fix, beyond one for each proposing thread.
THEOREM TwinsAreBounded == Spec => []TwinsBounded
<1>1. TwinsInv => TwinsBounded
  BY FewTwins DEF TwinsBounded, AnyKey
<1> QED
  BY <1>1, TwinsInvariant, PTL

\* The limit on remote proposals is exceeded by no more than the threads that
\* propose at the same time, less one.
THEOREM RemoteIsBounded == Spec => []RemoteBounded
<1>1. Init => RemoteInv
  <2> SUFFICES ASSUME Init PROVE RemoteInv
    OBVIOUS
  <2>1. RemotePending = {} /\ RemoteCreating = {}
    BY DEF Init, RemotePending, Pending, RemoteCreating
  <2>2. Cardinality(Proposer) >= 1
    BY ApprovalsAssumption, FS_EmptySet, FS_CardinalityType
  <2> QED
    BY <2>1, <2>2, FS_EmptySet, ProposerSetsFinite, ApprovalsAssumption DEF RemoteInv
<1>2. TypeOK /\ RemoteInv /\ [Next]_vars => RemoteInv'
  BY RemoteStep
<1>3. RemoteInv => RemoteBounded
  BY RemotePendingFinite, ProposerSetsFinite, ApprovalsAssumption
     DEF RemoteInv, RemoteBounded
<1> QED
  BY <1>1, <1>2, <1>3, TypeCorrect, PTL DEF Spec

\* One thread alone is a set of one.
LEMMA OneProposer ==
  ASSUME SoleProposer
  PROVE  Cardinality(Proposer) = 1
<1> PICK p \in Proposer : TRUE
  BY ApprovalsAssumption
<1>1. Proposer = {p}
  BY DEF SoleProposer
<1> QED
  BY <1>1, FS_Singleton

\* "an identical pending proposal is returned rather than sent again"
NoPendingTwins ==
    \A a, b \in Pending :
        a # b /\ via[a] # "direct" /\ via[b] # "direct" => key[a] # key[b]

\* With one thread proposing, no two identical proposals wait.
THEOREM ProposalsAreDeduplicated ==
  ASSUME SoleProposer
  PROVE  Spec => []NoPendingTwins
<1>1. TypeOK /\ TwinsInv => NoPendingTwins
  <2> SUFFICES ASSUME TypeOK, TwinsInv, NEW a \in Pending, NEW b \in Pending, a # b,
                      via[a] # "direct", via[b] # "direct", key[a] = key[b]
               PROVE  FALSE
    BY DEF NoPendingTwins
  <2>1. key[a] \in AnyKey
    BY DEF TypeOK, Pending, AnyKey
  <2>2. Cardinality(Twins(key[a])) <= 1
    BY <2>1, OneProposer, FewTwins
  <2>3. IsFiniteSet({a, b}) /\ Cardinality({a, b}) = 2
    <3>1. IsFiniteSet({a}) /\ Cardinality({a}) = 1
      BY FS_Singleton
    <3>2. {a, b} = {a} \cup {b} /\ b \notin {a}
      OBVIOUS
    <3> QED
      BY <3>1, <3>2, FS_AddElement
  <2>4. {a, b} \subseteq Twins(key[a])
    BY DEF Twins
  <2>5. IsFiniteSet(Twins(key[a]))
    BY ProposerSetsFinite
  <2> QED
    BY <2>2, <2>3, <2>4, <2>5, PartIsSmaller
<1> QED
  BY <1>1, TwinsInvariant, TypeCorrect, PTL

\* "at most 5 remote proposals can be waiting at once"
RemoteLimitKept == Cardinality(RemotePending) <= RemoteLimit

\* With one thread proposing, the limit on remote proposals holds.
THEOREM RemoteProposalsAreBounded ==
  ASSUME SoleProposer
  PROVE  Spec => []RemoteLimitKept
<1>1. RemoteBounded => RemoteLimitKept
  BY OneProposer, RemotePendingFinite, ApprovalsAssumption DEF RemoteBounded, RemoteLimitKept
<1> QED
  BY <1>1, RemoteIsBounded, PTL

-----------------------------------------------------------------------------
(* One decider: what it has in hand is still undecided.                      *)

\* A row that was never approved has not been run, and a verdict in hand is about
\* a row that has not been run.
Untouched == {"absent", "pending", "rejected", "expired"}

DeciderInv ==
    /\ \A a \in Action : runs[a] <= 1
    /\ \A a \in Action : status[a] \in Untouched => runs[a] = 0
    /\ \A d \in Decider : verdict[d] # "none" =>
          on[d] \in Action /\ status[on[d]] # "absent" /\ runs[on[d]] = 0

\* With one decider, every step keeps the decider's invariant.
LEMMA DeciderStep ==
  ASSUME SoleDecider, TypeOK, DeciderInv, [Next]_vars
  PROVE  DeciderInv'
<1> USE DEF SoleDecider, DeciderInv, Untouched, TypeOK, Status, table, deciding
<1>1. ASSUME NEW p \in Proposer, NEW k \in Key, NEW m \in Mode, Begin(p, k, m)
      PROVE  DeciderInv'
  BY <1>1 DEF Begin
<1>2. ASSUME NEW p \in Proposer, Prune(p) PROVE DeciderInv'
  BY <1>2 DEF Prune, Swept, IsStale
<1>3. ASSUME NEW p \in Proposer, List(p) PROVE DeciderInv'
  BY <1>3 DEF List
<1>4. ASSUME NEW p \in Proposer, NEW a \in Action, Create(p, a) PROVE DeciderInv'
  BY <1>4 DEF Create, Created
<1>5. ASSUME NEW p \in Proposer, NEW o \in SendOutcome, Send(p, o) PROVE DeciderInv'
  BY <1>5 DEF Send
<1>6. ASSUME NEW p \in Proposer, GiveUp(p) PROVE DeciderInv'
  BY <1>6 DEF GiveUp
<1>7. ASSUME NEW d \in Decider, NEW a \in Action,
             NEW c \in {"approve", "reject"}, Click(d, a, c)
      PROVE  DeciderInv'
  BY <1>7 DEF Click, StillPending
<1>8. ASSUME NEW d \in Decider, Refuse(d) PROVE DeciderInv'
  BY <1>8 DEF Refuse, Settle
<1>9. ASSUME NEW d \in Decider, Approve(d) PROVE DeciderInv'
  BY <1>9 DEF Approve, Settle
<1>10. ASSUME NEW d \in Decider, NEW a \in Action,
              NEW o \in {"applied", "failed"}, Finish(d, a, o)
       PROVE  DeciderInv'
  BY <1>10 DEF Finish
<1>11. ASSUME NEW p \in Proposer, ProposerDies(p) PROVE DeciderInv'
  BY <1>11 DEF ProposerDies
<1>12. ASSUME NEW d \in Decider, DeciderDies(d) PROVE DeciderInv'
  BY <1>12 DEF DeciderDies, Settle
<1>13. CASE ExpireStale
  BY <1>13 DEF ExpireStale, Swept, IsStale
<1>14. CASE Tick
  BY <1>14 DEF Tick
<1>15. CASE UNCHANGED vars
  BY <1>15 DEF vars
<1> QED
  BY <1>1, <1>2, <1>3, <1>4, <1>5, <1>6, <1>7, <1>8, <1>9, <1>10, <1>11,
     <1>12, <1>13, <1>14, <1>15 DEF Next, Propose, Carry

\* Every reachable state satisfies the decider's invariant.
LEMMA DeciderInvariant ==
  ASSUME SoleDecider
  PROVE  Spec => []DeciderInv
<1>1. Init => DeciderInv
  BY DEF Init, DeciderInv, Untouched
<1>2. TypeOK /\ DeciderInv /\ [Next]_vars => DeciderInv'
  BY DeciderStep
<1> QED
  BY <1>1, <1>2, TypeCorrect, PTL DEF Spec


\* One approval, one execution.
RunsOnce == \A a \in Action : runs[a] <= 1

\* With one deciding process, no sequence of clicks, late Slack errors, sweeps and
\* deaths runs a fix twice.
THEOREM ApprovedFixRunsOnce ==
  ASSUME SoleDecider
  PROVE  Spec => []RunsOnce
<1>1. DeciderInv => RunsOnce
  BY DEF DeciderInv, RunsOnce
<1> QED
  BY <1>1, DeciderInvariant, PTL

\* A fix recorded as rejected, expired or still pending has never been run.
RefusedNeverRan ==
    \A a \in Action : status[a] \in {"pending", "rejected", "expired"} => runs[a] = 0

\* With one deciding process a fix that stays rejected or expired was never run.
THEOREM RefusedFixNeverRuns ==
  ASSUME SoleDecider
  PROVE  Spec => []RefusedNeverRan
<1>1. DeciderInv => RefusedNeverRan
  BY DEF DeciderInv, RefusedNeverRan, Untouched
<1> QED
  BY <1>1, DeciderInvariant, PTL

\* An approved row has been run, and only a late Slack error writes to one that runs.
RunInv ==
    /\ \A a \in Action : status[a] \in {"approved", "applied"} => runs[a] > 0
    /\ \A d \in Decider : \A a \in running[d] :
          runs[a] > 0 /\ status[a] \in {"approved", "failed"}

\* The runs of a row never decrease, and a row leaves "approved" or "failed" only when
\* its fix returns, a late Slack error is written, or the verdict in hand is about it.
LEMMA RunRowStep ==
  ASSUME TypeOK, [Next]_vars, NEW a \in Action
  PROVE  /\ runs'[a] \in Nat /\ runs'[a] >= runs[a]
         /\ \/ status'[a] = status[a]
            \/ status'[a] \in {"pending", "expired", "failed", "rejected"}
            \/ runs'[a] = runs[a] + 1
            \/ \E d \in Decider : a \in running[d]
         /\ \/ status'[a] = status[a] \/ status'[a] = "failed"
            \/ status[a] \notin {"approved", "failed"}
            \/ \E d \in Decider : verdict[d] # "none" /\ on[d] = a
            \/ \E d \in Decider : a \in running[d] /\ running'[d] = running[d] \ {a}
<1> USE DEF TypeOK, Status, table, deciding
<1>1. CASE \E d \in Decider : Refuse(d) \/ Approve(d)
  <2> PICK d \in Decider : Refuse(d) \/ Approve(d)
    BY <1>1
  <2>1. CASE on[d] = a
    BY <2>1 DEF Refuse, Approve
  <2>2. CASE on[d] # a
    BY <2>2 DEF Refuse, Approve
  <2> QED
    BY <2>1, <2>2
<1>2. CASE \E d \in Decider, b \in Action, o \in {"applied", "failed"} : Finish(d, b, o)
  <2> PICK d \in Decider, b \in Action, o \in {"applied", "failed"} : Finish(d, b, o)
    BY <1>2
  <2>1. CASE b = a
    BY <2>1 DEF Finish
  <2>2. CASE b # a
    BY <2>2 DEF Finish
  <2> QED
    BY <2>1, <2>2
<1>3. CASE \E p \in Proposer, b \in Action : Create(p, b)
  BY <1>3 DEF Create, Created
<1>4. CASE \E p \in Proposer : GiveUp(p) \/ Prune(p)
  BY <1>4 DEF GiveUp, Prune, Swept, IsStale
<1>5. CASE ExpireStale
  BY <1>5 DEF ExpireStale, Swept, IsStale
<1>6. CASE UNCHANGED <<status, runs>>
  BY <1>6
<1> QED
  BY <1>1, <1>2, <1>3, <1>4, <1>5, <1>6 DEF Next, Propose, Carry, vars, Begin, List,
     Send, Click, DeciderDies, ProposerDies, Tick

\* With one decider, every step keeps both.
LEMMA RunStep ==
  ASSUME SoleDecider, TypeOK, DeciderInv, RunInv, [Next]_vars
  PROVE  RunInv'
<1>1. ASSUME NEW a \in Action, status'[a] \in {"approved", "applied"}
      PROVE  runs'[a] > 0
  <2>1. runs[a] \in Nat
    BY DEF TypeOK
  <2> QED
    BY <1>1, <2>1, RunRowStep DEF RunInv
<1>2. ASSUME NEW d \in Decider, NEW a \in running'[d]
      PROVE  runs'[a] > 0 /\ status'[a] \in {"approved", "failed"}
  <2>1. CASE a \in running[d]
    <3>1. a \in Action /\ runs[a] > 0 /\ status[a] \in {"approved", "failed"}
      BY <2>1 DEF RunInv, TypeOK
    <3>2. ~ \E c \in Decider : verdict[c] # "none" /\ on[c] = a
      BY <3>1 DEF DeciderInv
    <3>3. ~ \E c \in Decider : a \in running[c] /\ running'[c] = running[c] \ {a}
      BY <1>2 DEF SoleDecider
    <3>4. status'[a] = status[a] \/ status'[a] = "failed"
      BY <3>1, <3>2, <3>3, RunRowStep
    <3>5. /\ runs[a] \in Nat /\ runs'[a] \in Nat
          /\ runs'[a] >= runs[a]
      BY <3>1, RunRowStep DEF TypeOK
    <3> QED
      BY <3>1, <3>4, <3>5
  <2>2. CASE a \notin running[d]
    <3>1. Approve(d) /\ on[d] = a
      BY <1>2, <2>2 DEF SoleDecider, TypeOK, Next, Propose, Carry, vars, deciding, Begin,
         Prune, List, Create, Send, GiveUp, Click, Refuse, Approve, Finish, ProposerDies,
         DeciderDies, ExpireStale, Tick
    <3> QED
      BY <3>1 DEF Approve, TypeOK
  <2> QED
    BY <2>1, <2>2
<1> QED
  BY <1>1, <1>2 DEF RunInv

-----------------------------------------------------------------------------
(* One decider and definite posts: nobody writes over an outcome.            *)

\* Who may still write to a row without looking at it: the proposer while nobody
\* has seen its message, then the decider, then the fix that runs.
Waiting == {"pending", "expired"}

KeepInv ==
    /\ posted \subseteq Created
    /\ \A p \in Proposer : pc[p] \in {"send", "giveup"} =>
          mine[p] \notin posted /\ status[mine[p]] \in Waiting
    /\ \A p, q \in Proposer :
          pc[p] \in {"send", "giveup"} /\ pc[q] \in {"send", "giveup"} /\ mine[p] = mine[q]
            => p = q
    /\ \A d \in Decider : verdict[d] # "none" =>
          on[d] \in posted /\ status[on[d]] \in Waiting
    /\ \A d \in Decider : \A a \in running[d] : a \in posted /\ status[a] = "approved"

\* With one decider and definite sends, every step keeps that order of writers,
\* and none overwrites an outcome.
LEMMA KeepStep ==
  ASSUME SoleDecider, DefiniteSlack, TypeOK, KeepInv, [Next]_vars
  PROVE  /\ KeepInv'
         /\ \A a \in Action : status[a] = "applied" => status'[a] = "applied"
<1> DEFINE Goal == /\ KeepInv'
                   /\ \A a \in Action : status[a] = "applied" => status'[a] = "applied"
<1> SUFFICES Goal
  OBVIOUS
<1> USE DEF SoleDecider, KeepInv, Waiting, TypeOK, Status, table, deciding, proposing, Created
<1>1. ASSUME NEW p \in Proposer, NEW k \in Key, NEW m \in Mode, Begin(p, k, m)
      PROVE  Goal
  BY <1>1 DEF Begin
<1>2. ASSUME NEW p \in Proposer, Prune(p) PROVE Goal
  BY <1>2 DEF Prune, Swept, IsStale
<1>3. ASSUME NEW p \in Proposer, List(p) PROVE Goal
  <2>1. UNCHANGED <<status, posted, verdict, on, running>>
    BY <1>3 DEF List
  <2>2. \A q \in Proposer : pc'[q] \in {"send", "giveup"} =>
            pc[q] = pc'[q] /\ mine'[q] = mine[q]
    BY <1>3 DEF List, Done
  <2>3. KeepInv'
    BY <2>1, <2>2
  <2> QED
    BY <2>1, <2>3
<1>4. ASSUME NEW p \in Proposer, NEW a \in Action, Create(p, a) PROVE Goal
  BY <1>4 DEF Create
<1>5. ASSUME NEW p \in Proposer, NEW o \in SendOutcome, Send(p, o) PROVE Goal
  <2>1. UNCHANGED <<status, verdict, on, running>> /\ mine[p] \in Created
    BY <1>5 DEF Send
  <2>2. CASE Done(p)
    <3>1. posted' \subseteq posted \cup {mine[p]}
      BY <1>5 DEF Send
    <3>2. posted \subseteq posted'
      BY <1>5 DEF Send
    <3>3. \A q \in Proposer : pc'[q] \in {"send", "giveup"} =>
              q # p /\ pc[q] = pc'[q] /\ mine'[q] = mine[q]
      BY <2>2 DEF Done
    <3>4. \A q \in Proposer : pc'[q] \in {"send", "giveup"} => mine[q] # mine[p]
      BY <1>5, <3>3 DEF Send
    <3> QED
      BY <2>1, <3>1, <3>2, <3>3, <3>4
  <2>3. CASE pc' = [pc EXCEPT ![p] = "giveup"] /\ UNCHANGED <<mine, posted>>
    BY <1>5, <2>1, <2>3 DEF Send
  <2> QED
    BY <1>5, <2>2, <2>3, ApprovalsAssumption DEF Send, DefiniteSlack
<1>6. ASSUME NEW p \in Proposer, GiveUp(p) PROVE Goal
  BY <1>6 DEF GiveUp, Done
<1>7. ASSUME NEW d \in Decider, NEW a \in Action,
             NEW c \in {"approve", "reject"}, Click(d, a, c)
      PROVE  Goal
  BY <1>7 DEF Click, StillPending, DefiniteSlack, Decider
<1>8. ASSUME NEW d \in Decider, Refuse(d) PROVE Goal
  BY <1>8 DEF Refuse, Settle
<1>9. ASSUME NEW d \in Decider, Approve(d) PROVE Goal
  BY <1>9 DEF Approve, Settle
<1>10. ASSUME NEW d \in Decider, NEW a \in Action,
              NEW o \in {"applied", "failed"}, Finish(d, a, o)
       PROVE  Goal
  BY <1>10 DEF Finish
<1>11. ASSUME NEW p \in Proposer, ProposerDies(p) PROVE Goal
  BY <1>11 DEF ProposerDies, Done
<1>12. ASSUME NEW d \in Decider, DeciderDies(d) PROVE Goal
  BY <1>12 DEF DeciderDies, Settle
<1>13. CASE ExpireStale
  BY <1>13 DEF ExpireStale, Swept, IsStale
<1>14. CASE Tick
  BY <1>14 DEF Tick
<1>15. CASE UNCHANGED vars
  BY <1>15 DEF vars
<1> QED
  BY <1>1, <1>2, <1>3, <1>4, <1>5, <1>6, <1>7, <1>8, <1>9, <1>10, <1>11,
     <1>12, <1>13, <1>14, <1>15 DEF Next, Propose, Carry

\* The recorded outcome of an executed fix is never overwritten.
OutcomeKept ==
    [][\A a \in Action : status[a] = "applied" => status'[a] = "applied"]_vars

\* With the Slack server as the one decider and posts that arrive or fail, a fix
\* recorded as applied stays so, for any number of proposers and deaths.
THEOREM OutcomesAreKept ==
  ASSUME SoleDecider, DefiniteSlack
  PROVE  Spec => OutcomeKept
<1>1. Init => KeepInv
  BY DEF Init, KeepInv, Created
<1>2. TypeOK /\ KeepInv /\ [Next]_vars => KeepInv'
  BY KeepStep
<1>3. TypeOK /\ KeepInv /\ [Next]_vars
        => [\A a \in Action : status[a] = "applied" => status'[a] = "applied"]_vars
  BY KeepStep
<1> QED
  BY <1>1, <1>2, <1>3, TypeCorrect, PTL DEF Spec, OutcomeKept
-----------------------------------------------------------------------------
(* One decider: Approvals implements DecisionTable.                          *)

\* A thread that sends, or gives up, has created its row.
OwnInv == \A p \in Proposer : pc[p] \in {"send", "giveup"} => status[mine[p]] # "absent"

\* A row never becomes absent again, and only Create starts a send.
LEMMA OwnStep ==
  ASSUME TypeOK, OwnInv, [Next]_vars
  PROVE  OwnInv'
<1>1. \A a \in Action : status[a] # "absent" => status'[a] # "absent"
  BY DEF TypeOK, Next, Propose, Carry, vars, table, Begin, Prune, List, Create, Send,
     GiveUp, Click, Refuse, Approve, Finish, ProposerDies, DeciderDies, ExpireStale,
     Tick, Swept
<1>2. ASSUME NEW p \in Proposer, pc'[p] \in {"send", "giveup"}
      PROVE  \/ pc[p] \in {"send", "giveup"} /\ mine'[p] = mine[p]
             \/ mine'[p] \in Action /\ status'[mine'[p]] = "pending"
  BY <1>2 DEF TypeOK, Next, Propose, Carry, vars, proposing, Begin, Prune, List, Create,
     Send, GiveUp, Done, Click, Refuse, Approve, Finish, ProposerDies, DeciderDies,
     ExpireStale, Tick
<1> QED
  BY <1>1, <1>2 DEF OwnInv, TypeOK

\* A step of the table, or none.
TableStep == [Table!DNext]_[a \in Action |-> StageOf(a)]

\* Rows that move together are a step Move of the table.
LEMMA RowsMove ==
  ASSUME NEW R, NEW S, NEW t,
         \A a \in Action : StageOf(a)' = IF a \in R /\ StageOf(a) \in S THEN t ELSE StageOf(a)
  PROVE  Table!Move(R, S, t)
BY DEF Table!Move

\* Rows that stay are no step of the table.
LEMMA RowsStay ==
  ASSUME \A a \in Action : StageOf(a)' = StageOf(a)
  PROVE  TableStep
BY DEF TableStep

\* With one decider, what it is about to approve is all that is taken up.
LEMMA OneTaken ==
  ASSUME SoleDecider, NEW d \in Decider, NEW a
  PROVE  TakenUp(a) <=> verdict[d] = "approve" /\ on[d] = a
BY DEF SoleDecider, TakenUp

\* The same after a step.
LEMMA OneTakenNext ==
  ASSUME SoleDecider, NEW d \in Decider, NEW a
  PROVE  TakenUp(a)' <=> verdict'[d] = "approve" /\ on'[d] = a
BY DEF SoleDecider, TakenUp

\* The sweep refuses the rows that it finds stale and nobody has taken up.
LEMMA SweepStep ==
  ASSUME TypeOK, status' = Swept, UNCHANGED <<runs, verdict, on>>
  PROVE  TableStep
<1> DEFINE Stale == {a \in Action : IsStale(a) /\ ~ TakenUp(a)}
<1>1. ASSUME NEW a \in Action
      PROVE  StageOf(a)' = IF a \in Stale /\ StageOf(a) \in {"new", "open", "taken"}
                             THEN "refused" ELSE StageOf(a)
  <2>1. TakenUp(a)' <=> TakenUp(a)
    BY DEF TakenUp
  <2>2. CASE TakenUp(a)
    BY <2>1, <2>2 DEF StageOf
  <2>3. CASE ~ TakenUp(a) /\ IsStale(a)
    <3>1. Recorded(a) = "open" /\ Recorded(a)' = "refused"
      BY <2>3 DEF IsStale, Swept, Recorded
    <3> QED
      BY <2>1, <2>3, <3>1 DEF StageOf
  <2>4. CASE ~ TakenUp(a) /\ ~ IsStale(a)
    <3>1. Recorded(a)' = Recorded(a)
      BY <2>4 DEF Swept, Recorded
    <3> QED
      BY <2>1, <2>4, <3>1 DEF StageOf
  <2> QED
    BY <2>2, <2>3, <2>4
<1>2. Table!Refuse(Stale)
  BY <1>1, RowsMove DEF Table!Refuse
<1> QED
  BY <1>2 DEF TableStep, Table!DNext

\* A thread that gives up refuses its row, or disputes what came of it; with
\* definite posts it finds the row as it left it.
LEMMA GiveUpStep ==
  ASSUME TypeOK, DeciderInv, RunInv, OwnInv, DefiniteSlack => KeepInv,
         NEW p \in Proposer, GiveUp(p)
  PROVE  TableStep
<1> PICK m \in Action : m = mine[p]
  BY DEF GiveUp, TypeOK
<1>1. /\ status[m] \in Status \ {"absent"}
      /\ status' = [status EXCEPT ![m] = "failed"]
      /\ UNCHANGED <<runs, verdict, on>>
  BY DEF GiveUp, OwnInv, TypeOK, deciding
<1>2. \A a \in Action : TakenUp(a)' <=> TakenUp(a)
  BY <1>1 DEF TakenUp
<1>3. \A a \in Action : a # m => StageOf(a)' = StageOf(a)
  BY <1>1, <1>2 DEF StageOf, Recorded, TypeOK
<1>4. CASE TakenUp(m)
  BY <1>1, <1>2, <1>3, <1>4, RowsStay DEF StageOf
<1>5. CASE ~ TakenUp(m) /\ runs[m] = 0
  <2>1. status[m] \notin {"approved", "applied"}
    BY <1>1, <1>5 DEF RunInv
  <2>2. StageOf(m)' = "refused" /\ StageOf(m) \in {"open", "refused"}
    BY <1>1, <1>2, <1>5, <2>1 DEF StageOf, Recorded, Status, TypeOK
  <2>3. Table!Refuse({m})
    BY <1>1, <1>3, <2>2, RowsMove DEF Table!Refuse
  <2> QED
    BY <1>1, <2>3 DEF TableStep, Table!DNext
<1>6. CASE ~ TakenUp(m) /\ runs[m] # 0
  <2>1. status[m] \in {"approved", "applied", "failed"}
    BY <1>1, <1>6 DEF DeciderInv, Untouched, Status
  <2>2. ~ DefiniteSlack
    BY <1>1, <2>1 DEF KeepInv, Waiting, GiveUp
  <2>3. StageOf(m)' = "failed" /\ StageOf(m) \in {"started", "succeeded", "failed"}
    BY <1>1, <1>2, <1>6, <2>1 DEF StageOf, Recorded, Status, TypeOK
  <2>4. Table!Move({m}, {StageOf(m)}, "failed")
    BY <1>1, <1>3, <2>3, RowsMove
  <2>5. Table!Dispute(m)
    BY <1>1, <2>2, <2>3, <2>4 DEF Table!Dispute
  <2> QED
    BY <1>1, <2>5 DEF TableStep, Table!DNext
<1> QED
  BY <1>4, <1>5, <1>6

\* A proposal is filed.
LEMMA CreateStep ==
  ASSUME TypeOK, DeciderInv, NEW p \in Proposer, NEW b \in Action, Create(p, b)
  PROVE  TableStep
<1>1. /\ status[b] = "absent"
      /\ status' = [status EXCEPT ![b] = "pending"]
      /\ UNCHANGED <<runs, verdict, on>>
  BY DEF Create, Created, deciding
<1>2. /\ \A a \in Action : TakenUp(a)' <=> TakenUp(a)
      /\ ~ TakenUp(b)
  BY <1>1 DEF TakenUp, DeciderInv
<1>3. \A a \in Action : a # b => StageOf(a)' = StageOf(a)
  BY <1>1, <1>2 DEF StageOf, Recorded, TypeOK
<1>4. StageOf(b) = "new" /\ StageOf(b)' = "open"
  BY <1>1, <1>2 DEF StageOf, Recorded, TypeOK
<1>5. Table!Submit({b})
  BY <1>3, <1>4, RowsMove DEF Table!Submit
<1> QED
  BY <1>5 DEF TableStep, Table!DNext

\* The decider's own steps: a click takes a row up, a death puts it back, and the
\* rest carries it out or turns it down.
LEMMA DecidingStep ==
  ASSUME SoleDecider, TypeOK, DeciderInv, RunInv, DefiniteSlack => KeepInv,
         NEW d \in Decider,
         \/ \E a \in Action, c \in {"approve", "reject"} : Click(d, a, c)
         \/ Carry(d)
         \/ DeciderDies(d)
  PROVE  TableStep
<1>0. TypeOK /\ \A a \in Action : runs[a] \in Nat /\ status[a] \in Status
  BY DEF TypeOK
<1>1. CASE \E a \in Action, c \in {"approve", "reject"} : Click(d, a, c)
  <2> PICK b \in Action, c \in {"approve", "reject"} : Click(d, b, c)
    BY <1>1
  <2>1. /\ verdict[d] = "none" /\ status[b] = "pending"
        /\ verdict'[d] \in {"expire", c} /\ on'[d] = b
        /\ UNCHANGED <<status, runs>>
    BY <1>0 DEF Click, StillPending, table, TypeOK
  <2>2. \A a \in Action : ~ TakenUp(a) /\ Recorded(a)' = Recorded(a)
    BY <2>1, OneTaken DEF Recorded
  <2>3. CASE verdict'[d] = "approve"
    <3>1. \A a \in Action : TakenUp(a)' <=> a = b
      BY <2>1, <2>3, OneTakenNext
    <3>2. StageOf(b) = "open" /\ StageOf(b)' = "taken"
      BY <2>1, <2>2, <3>1 DEF StageOf, Recorded
    <3>3. \A a \in Action : a # b => StageOf(a)' = StageOf(a)
      BY <2>2, <3>1 DEF StageOf
    <3>4. Table!TakeUp(b)
      BY <3>2, <3>3, RowsMove DEF Table!TakeUp
    <3> QED
      BY <3>4 DEF TableStep, Table!DNext
  <2>4. CASE verdict'[d] # "approve"
    <3>1. \A a \in Action : ~ TakenUp(a)'
      BY <2>4, OneTakenNext
    <3> QED
      BY <2>2, <3>1, RowsStay DEF StageOf
  <2> QED
    BY <2>3, <2>4
<1>2. CASE Refuse(d)
  <2> PICK b \in Action : b = on[d]
    BY <1>2 DEF Refuse, TypeOK
  <2>1. /\ status[b] # "absent" /\ runs[b] = 0
        /\ \E s \in {"expired", "rejected"} : status' = [status EXCEPT ![b] = s]
        /\ verdict[d] # "approve" /\ verdict'[d] = "none" /\ runs' = runs
    BY <1>0, <1>2 DEF Refuse, Settle, DeciderInv, TypeOK
  <2>2. \A a \in Action : ~ TakenUp(a) /\ ~ TakenUp(a)'
    BY <2>1, OneTaken, OneTakenNext
  <2>3. \A a \in Action : a # b => StageOf(a)' = StageOf(a)
    BY <1>0, <2>1, <2>2 DEF StageOf, Recorded, TypeOK
  <2>4. status[b] \notin {"approved", "applied"}
    BY <2>1 DEF RunInv
  <2>5. StageOf(b)' = "refused" /\ StageOf(b) \in {"open", "refused"}
    BY <1>0, <2>1, <2>2, <2>4 DEF StageOf, Recorded, Status, TypeOK
  <2>6. Table!Refuse({b})
    BY <2>1, <2>3, <2>5, RowsMove DEF Table!Refuse
  <2> QED
    BY <2>1, <2>6 DEF TableStep, Table!DNext
<1>3. CASE Approve(d)
  <2> PICK b \in Action : b = on[d]
    BY <1>3 DEF Approve, TypeOK
  <2>1. /\ verdict[d] = "approve" /\ verdict'[d] = "none"
        /\ status' = [status EXCEPT ![b] = "approved"]
        /\ \A a \in Action : a # b => runs'[a] = runs[a]
    BY <1>0, <1>3 DEF Approve, Settle, TypeOK
  <2>2. /\ \A a \in Action : TakenUp(a) <=> a = b
        /\ \A a \in Action : ~ TakenUp(a)'
    BY <2>1, OneTaken, OneTakenNext
  <2>3. \A a \in Action : a # b => StageOf(a)' = StageOf(a)
    BY <1>0, <2>1, <2>2 DEF StageOf, Recorded, TypeOK
  <2>4. StageOf(b) = "taken" /\ StageOf(b)' = "started"
    BY <1>0, <2>1, <2>2 DEF StageOf, Recorded, TypeOK
  <2>5. Table!Start(b)
    BY <2>1, <2>3, <2>4, RowsMove DEF Table!Start
  <2> QED
    BY <2>1, <2>5 DEF TableStep, Table!DNext
<1>4. CASE \E a \in Action, o \in {"applied", "failed"} : Finish(d, a, o)
  <2> PICK b \in Action, o \in {"applied", "failed"} : Finish(d, b, o)
    BY <1>4
  <2>1. /\ runs[b] > 0 /\ status[b] \in {"approved", "failed"}
        /\ status' = [status EXCEPT ![b] = o]
        /\ UNCHANGED <<verdict, on, runs>>
    BY DEF Finish, RunInv
  <2>2. /\ \A a \in Action : TakenUp(a)' <=> TakenUp(a)
        /\ ~ TakenUp(b)
    BY <1>0, <2>1 DEF TakenUp, DeciderInv
  <2>3. \A a \in Action : a # b => StageOf(a)' = StageOf(a)
    BY <1>0, <2>1, <2>2 DEF StageOf, Recorded, TypeOK
  <2>4. StageOf(b)' \in {"succeeded", "failed"}
    BY <1>0, <2>1, <2>2 DEF StageOf, Recorded, TypeOK
  <2>5. StageOf(b) = IF status[b] = "approved" THEN "started" ELSE "failed"
    BY <1>0, <2>1, <2>2 DEF StageOf, Recorded
  <2> PICK t \in {"succeeded", "failed"} : StageOf(b)' = t
    BY <2>4
  <2>6. Table!Move({b}, {StageOf(b)}, t)
    BY <2>3, RowsMove
  <2>7. CASE status[b] = "approved"
    <3>1. Table!Finish(b)
      BY <2>5, <2>6, <2>7 DEF Table!Finish
    <3> QED
      BY <3>1 DEF TableStep, Table!DNext
  <2>8. CASE status[b] = "failed"
    <3>1. ~ DefiniteSlack
      BY <2>8 DEF KeepInv, Finish
    <3>2. Table!Dispute(b)
      BY <2>5, <2>6, <2>8, <3>1 DEF Table!Dispute
    <3> QED
      BY <3>2 DEF TableStep, Table!DNext
  <2> QED
    BY <2>1, <2>7, <2>8
<1>5. CASE DeciderDies(d)
  <2>1. verdict'[d] = "none" /\ UNCHANGED <<status, runs>>
    BY <1>0, <1>5 DEF DeciderDies, Settle, table, TypeOK
  <2>2. \A a \in Action : ~ TakenUp(a)' /\ Recorded(a)' = Recorded(a)
    BY <2>1, OneTakenNext DEF Recorded
  <2>3. CASE verdict[d] = "approve"
    <3> PICK b \in Action : b = on[d]
      BY <2>3 DEF TypeOK
    <3>1. status[b] # "absent" /\ runs[b] = 0
      BY <2>3 DEF DeciderInv
    <3>2. \A a \in Action : TakenUp(a) <=> a = b
      BY <2>3, OneTaken
    <3>3. \A a \in Action : a # b => StageOf(a)' = StageOf(a)
      BY <2>2, <3>2 DEF StageOf
    <3>4. status[b] \notin {"approved", "applied"}
      BY <3>1 DEF RunInv
    <3>5. StageOf(b) = "taken" /\ StageOf(b)' \in {"open", "refused"}
      BY <1>0, <2>1, <2>2, <3>1, <3>2, <3>4 DEF StageOf, Recorded, Status
    <3>6. CASE StageOf(b)' = "open"
      <4>1. Table!PutBack(b)
        BY <3>1, <3>3, <3>5, <3>6, RowsMove DEF Table!PutBack
      <4> QED
        BY <3>1, <4>1 DEF TableStep, Table!DNext
    <3>7. CASE StageOf(b)' = "refused"
      <4>1. Table!Refuse({b})
        BY <3>1, <3>3, <3>5, <3>7, RowsMove DEF Table!Refuse
      <4> QED
        BY <3>1, <4>1 DEF TableStep, Table!DNext
    <3> QED
      BY <3>5, <3>6, <3>7
  <2>4. CASE verdict[d] # "approve"
    <3>1. \A a \in Action : ~ TakenUp(a)
      BY <2>4, OneTaken
    <3> QED
      BY <2>2, <3>1, RowsStay DEF StageOf
  <2> QED
    BY <2>3, <2>4
<1> QED
  BY <1>1, <1>2, <1>3, <1>4, <1>5 DEF Carry

\* Every step of the approvals is a step of the table, or leaves it unchanged.
LEMMA ApprovalsTableStep ==
  ASSUME SoleDecider, TypeOK, DeciderInv, RunInv, OwnInv, DefiniteSlack => KeepInv,
         [Next]_vars
  PROVE  TableStep
<1>1. CASE UNCHANGED <<status, runs, verdict, on>>
  BY <1>1, RowsStay DEF StageOf, TakenUp, Recorded
<1>2. CASE \E p \in Proposer : Prune(p) \/ GiveUp(p) \/ \E a \in Action : Create(p, a)
  <2>1. ASSUME NEW p \in Proposer, Prune(p) PROVE TableStep
    BY <2>1, SweepStep DEF Prune, deciding
  <2> QED
    BY <1>2, <2>1, GiveUpStep, CreateStep
<1>3. CASE ExpireStale
  BY <1>3, SweepStep DEF ExpireStale, deciding
<1>4. CASE \E d \in Decider :
             \/ \E a \in Action, c \in {"approve", "reject"} : Click(d, a, c)
             \/ Carry(d)
             \/ DeciderDies(d)
  BY <1>4, DecidingStep
<1> QED
  BY <1>1, <1>2, <1>3, <1>4 DEF Next, Propose, vars, table, deciding, Begin, List, Send,
     ProposerDies, Tick

\* One process that decides, whatever the number of proposers and whatever Slack
\* reports, keeps the promise of the decision table.
THEOREM ApprovalsImplementTable ==
  ASSUME SoleDecider
  PROVE  Spec => DecisionSpec
<1>1. Init => Table!DInit
  BY DEF Init, Table!DInit, StageOf, TakenUp, Recorded
<1>2. Init => RunInv /\ OwnInv /\ KeepInv
  BY DEF Init, RunInv, OwnInv, KeepInv, Created
<1>3. TypeOK /\ DeciderInv /\ RunInv /\ OwnInv /\ [Next]_vars => RunInv' /\ OwnInv'
  BY RunStep, OwnStep
<1>4. DefiniteSlack /\ TypeOK /\ KeepInv /\ [Next]_vars => KeepInv'
  BY KeepStep
<1>5. TypeOK /\ DeciderInv /\ RunInv /\ OwnInv /\ (DefiniteSlack => KeepInv) /\ [Next]_vars
        => TableStep
  BY ApprovalsTableStep
<1>6. CASE DefiniteSlack
  BY <1>1, <1>2, <1>3, <1>4, <1>5, <1>6, DeciderInvariant, TypeCorrect, PTL
     DEF Spec, DecisionSpec, Table!DSpec, TableStep
<1>7. CASE ~ DefiniteSlack
  BY <1>1, <1>2, <1>3, <1>5, <1>7, DeciderInvariant, TypeCorrect, PTL
     DEF Spec, DecisionSpec, Table!DSpec, TableStep
<1> QED
  BY <1>6, <1>7

=============================================================================
