---------------------------- MODULE BackupProofs ----------------------------
(***************************************************************************)
(* Theorems about Backup, for any number of operators, files, versions,    *)
(* archives and days, and any retention.                                   *)
(***************************************************************************)
EXTENDS Backup, FiniteSetTheorems, FunctionTheorems, TLAPS

\* The record of an operator without a command, and the empty snapshot, are typed.
LEMMA ReadyIsTyped ==
  /\ Ready \in Running /\ Nothing \in Snapshot
  /\ Ready.at = "idle" /\ ~ Ready.restore /\ Ready.doomed = {} /\ Ready.files = Nothing
BY BackupAssumption DEF Ready, Running, Nothing, Snapshot, Absent

\* What an operator is given by create_backup().
LEMMA StagingIsTyped ==
  ASSUME BackupTypeOK, stamp < MaxStamp
  PROVE  /\ Staging \in Running
         /\ \A s \in 0..MaxStamp : [Staging EXCEPT !.restore = TRUE, !.source = s] \in Running
<1>1. /\ stamp + 1 \in 0..MaxStamp /\ today \in 0..MaxDay
      /\ Existing(data) \in SUBSET File /\ Nothing \in Snapshot /\ 0 \in 0..MaxStamp
      /\ {} \in SUBSET (0..MaxStamp)
  BY BackupAssumption, ReadyIsTyped DEF BackupTypeOK, Existing
<1>2. Staging \in Running
  BY <1>1 DEF Staging, Ready, Running
<1> QED
  BY <1>2 DEF Running

\* Changes of single fields.
LEMMA RunningUpdate ==
  ASSUME NEW r \in Running
  PROVE  /\ \A at \in {"idle", "copy", "prune", "delete", "unpack", "put"} :
              /\ [r EXCEPT !.at = at] \in Running
              /\ \A D \in SUBSET (0..MaxStamp) :
                   [r EXCEPT !.at = at, !.doomed = D] \in Running
              /\ \A a \in Snapshot, L \in SUBSET File :
                   [r EXCEPT !.at = at, !.from = a, !.left = L] \in Running
         /\ \A D \in SUBSET (0..MaxStamp) : [r EXCEPT !.doomed = D] \in Running
         /\ \A L \in SUBSET File : [r EXCEPT !.left = L] \in Running
         /\ \A L \in SUBSET File, a \in Snapshot :
              [r EXCEPT !.left = L, !.files = a] \in Running
<1>1. ASSUME NEW at \in {"idle", "copy", "prune", "delete", "unpack", "put"}
      PROVE  /\ [r EXCEPT !.at = at] \in Running
             /\ \A D \in SUBSET (0..MaxStamp) : [r EXCEPT !.at = at, !.doomed = D] \in Running
  BY DEF Running
<1>2. ASSUME NEW at \in {"idle", "copy", "prune", "delete", "unpack", "put"},
             NEW a \in Snapshot, NEW L \in SUBSET File
      PROVE  [r EXCEPT !.at = at, !.from = a, !.left = L] \in Running
  BY DEF Running
<1>3. ASSUME NEW D \in SUBSET (0..MaxStamp) PROVE [r EXCEPT !.doomed = D] \in Running
  BY DEF Running
<1>4. ASSUME NEW L \in SUBSET File
      PROVE  /\ [r EXCEPT !.left = L] \in Running
             /\ \A a \in Snapshot : [r EXCEPT !.left = L, !.files = a] \in Running
  BY DEF Running
<1> QED
  BY <1>1, <1>2, <1>3, <1>4

\* Clock, files, archives and commands keep the types of BackupTypeOK.
THEOREM BackupTypeCorrect == BackupSpec => []BackupTypeOK
<1> USE BackupAssumption
<1>1. BackupInit => BackupTypeOK
  BY ReadyIsTyped DEF BackupInit, BackupTypeOK
<1>2. BackupTypeOK /\ [BackupNext]_backupVars => BackupTypeOK'
  <2> SUFFICES ASSUME BackupTypeOK, [BackupNext]_backupVars PROVE BackupTypeOK'
    OBVIOUS
  <2>1. CASE DayPasses
    BY <2>1 DEF DayPasses, BackupTypeOK
  <2>2. ASSUME NEW f \in File, Write(f) PROVE BackupTypeOK'
    <3>1. version' \in 0..MaxVersion /\ data' \in Snapshot
      BY <2>2 DEF Write, BackupTypeOK, Snapshot
    <3>2. late' \in SUBSET (0..MaxVersion)
      BY <2>2, <3>1 DEF Write, BackupTypeOK
    <3> QED
      BY <2>2, <3>1, <3>2 DEF Write, BackupTypeOK
  <2>3. ASSUME NEW o \in Operator, Begin(o) PROVE BackupTypeOK'
    <3>1. stamp' \in 0..MaxStamp
      BY <2>3 DEF Begin, BackupTypeOK
    <3>2. op' \in [Operator -> Running]
      BY <2>3, StagingIsTyped, Zenon DEF Begin, BackupTypeOK
    <3> QED
      BY <2>3, <3>1, <3>2, Zenon DEF Begin, BackupTypeOK
  <2>4. ASSUME NEW o \in Operator, NEW f \in File, Copy(o, f) PROVE BackupTypeOK'
    <3>1. op[o].left \ {f} \in SUBSET File /\ [op[o].files EXCEPT ![f] = data[f]] \in Snapshot
      BY <2>4 DEF BackupTypeOK, Running, Snapshot
    <3>2. op[o] \in Running
      BY DEF BackupTypeOK
    <3>3. [op[o] EXCEPT !.left = op[o].left \ {f}, !.files = [op[o].files EXCEPT ![f] = data[f]]]
            \in Running
      BY <3>1, <3>2, RunningUpdate
    <3>4. op' = [op EXCEPT ![o] = [op[o] EXCEPT !.left = op[o].left \ {f},
                                     !.files = [op[o].files EXCEPT ![f] = data[f]]]]
      BY <2>4 DEF Copy
    <3> QED
      BY <2>4, <3>3, <3>4 DEF Copy, BackupTypeOK
  <2>5. ASSUME NEW o \in Operator, Publish(o) PROVE BackupTypeOK'
    <3>1. /\ [stamp |-> op[o].stamp, day |-> op[o].day, safety |-> op[o].restore,
              files |-> op[o].files] \in Archive
          /\ op[o].day \in 0..MaxDay
      BY <2>5 DEF BackupTypeOK, Running, Archive
    <3>2. [op[o] EXCEPT !.at = "unpack"] \in Running /\ [op[o] EXCEPT !.at = "prune"] \in Running
      BY RunningUpdate DEF BackupTypeOK
    <3>3. op' \in [Operator -> Running]
      BY <2>5, <3>2, ReadyIsTyped DEF Publish, BackupTypeOK
    <3> QED
      BY <2>5, <3>1, <3>3 DEF Publish, BackupTypeOK
  <2>6. ASSUME NEW o \in Operator, List(o) PROVE BackupTypeOK'
    <3>1. {a.stamp : a \in Doomed} \in SUBSET (0..MaxStamp)
      BY DEF Doomed, Regular, BackupTypeOK, Archive
    <3>2. [op[o] EXCEPT !.at = "delete", !.doomed = {a.stamp : a \in Doomed}] \in Running
      BY <3>1, RunningUpdate DEF BackupTypeOK
    <3> QED
      BY <2>6, <3>2 DEF List, BackupTypeOK
  <2>7. ASSUME NEW o \in Operator, Delete(o) PROVE BackupTypeOK'
    <3>1. CASE op[o].doomed = {}
      BY <2>7, <3>1, ReadyIsTyped DEF Delete, BackupTypeOK
    <3>2. ASSUME NEW s \in op[o].doomed, op' = [op EXCEPT ![o].doomed = @ \ {s}],
                 archives' = {a \in archives : a.stamp # s}
          PROVE  BackupTypeOK'
      <4>1. op[o].doomed \ {s} \in SUBSET (0..MaxStamp)
        BY DEF BackupTypeOK, Running
      <4>2. [op[o] EXCEPT !.doomed = @ \ {s}] \in Running
        BY <4>1, RunningUpdate DEF BackupTypeOK
      <4> QED
        BY <2>7, <3>2, <4>2 DEF Delete, BackupTypeOK
    <3> QED
      BY <2>7, <3>1, <3>2 DEF Delete
  <2>8. ASSUME NEW o \in Operator, BeginRestore(o) PROVE BackupTypeOK'
    <3>1. PICK a \in archives :
            \/ /\ stamp < MaxStamp /\ stamp' = stamp + 1
               /\ op' = [op EXCEPT ![o] = [Staging EXCEPT !.restore = TRUE, !.source = a.stamp]]
            \/ /\ stamp' = stamp
               /\ op' = [op EXCEPT ![o] = [Ready EXCEPT !.at = "unpack", !.restore = TRUE,
                                                        !.source = a.stamp]]
      BY <2>8 DEF BeginRestore
    <3>2. a.stamp \in 0..MaxStamp
      BY DEF BackupTypeOK, Archive
    <3>3. [Ready EXCEPT !.at = "unpack", !.restore = TRUE, !.source = a.stamp] \in Running
      BY <3>2, ReadyIsTyped DEF Running
    <3>4. op' \in [Operator -> Running]
      <4>1. CASE stamp < MaxStamp /\ op' = [op EXCEPT ![o] = [Staging EXCEPT
                                     !.restore = TRUE, !.source = a.stamp]]
        BY <3>2, <4>1, StagingIsTyped, Zenon DEF BackupTypeOK
      <4>2. CASE op' = [op EXCEPT ![o] = [Ready EXCEPT !.at = "unpack", !.restore = TRUE,
                                                        !.source = a.stamp]]
        BY <3>3, <4>2 DEF BackupTypeOK
      <4> QED
        BY <3>1, <4>1, <4>2
    <3>5. stamp' \in 0..MaxStamp
      BY <3>1 DEF BackupTypeOK
    <3> QED
      BY <2>8, <3>4, <3>5 DEF BeginRestore, BackupTypeOK
  <2>9. ASSUME NEW o \in Operator, Unpack(o) PROVE BackupTypeOK'
    <3>1. ASSUME NEW a \in archives
          PROVE  [op[o] EXCEPT !.at = "put", !.from = a.files, !.left = Existing(a.files)] \in Running
      <4>1. a.files \in Snapshot /\ Existing(a.files) \in SUBSET File
        BY DEF BackupTypeOK, Archive, Existing
      <4> QED
        BY <4>1, RunningUpdate DEF BackupTypeOK
    <3>2. op' \in [Operator -> Running]
      BY <2>9, <3>1, ReadyIsTyped, ZenonT(40) DEF Unpack, BackupTypeOK
    <3> QED
      BY <2>9, <3>2 DEF Unpack, BackupTypeOK
  <2>10. ASSUME NEW o \in Operator, NEW f \in File, PutBack(o, f) PROVE BackupTypeOK'
    <3>1. op[o].left \ {f} \in SUBSET File /\ op[o].from \in Snapshot
      BY DEF BackupTypeOK, Running
    <3>2. op[o].from[f] \in 0..MaxVersion /\ data[f] \in 0..MaxVersion
      BY <3>1 DEF BackupTypeOK, Snapshot
    <3>3. [op[o] EXCEPT !.left = @ \ {f}] \in Running
      BY <3>1, RunningUpdate DEF BackupTypeOK
    <3>4. op' \in [Operator -> Running]
      BY <2>10, <3>3 DEF PutBack, BackupTypeOK
    <3>5. data' \in Snapshot /\ late' \in SUBSET (0..MaxVersion)
      BY <2>10, <3>2 DEF PutBack, BackupTypeOK, Snapshot
    <3> QED
      BY <2>10, <3>2, <3>4, <3>5 DEF PutBack, BackupTypeOK
  <2>11. ASSUME NEW o \in Operator, Restored(o) \/ Interrupt(o) PROVE BackupTypeOK'
    BY <2>11, ReadyIsTyped DEF Restored, Interrupt, BackupTypeOK
  <2>12. CASE UNCHANGED backupVars
    BY <2>12 DEF backupVars, BackupTypeOK
  <2> QED
    BY <2>1, <2>2, <2>3, <2>4, <2>5, <2>6, <2>7, <2>8, <2>9, <2>10, <2>11, <2>12
    DEF BackupNext, Command
<1> QED
  BY <1>1, <1>2, PTL DEF BackupSpec

-----------------------------------------------------------------------------
(* A restore can be undone.                                                *)

\* A version is in an archive that no prune deletes.
Safe(v) == \E a \in archives : a.safety /\ \E f \in File : a.files[f] = v

\* The copies of a restore are in a safety archive, or there was nothing to copy.
Secured(o) ==
    \/ \E a \in archives : a.safety /\ a.files = op[o].files
    \/ op[o].files = Nothing

\* An archive's stamp is its own; those begun have stamps of their own too.
StampInv ==
    /\ \A a, b \in archives : a.stamp = b.stamp => a = b
    /\ \A a \in archives : a.stamp <= stamp
    /\ \A o \in Operator : op[o].at = "copy" =>
        /\ op[o].stamp <= stamp
        /\ \A a \in archives : a.stamp # op[o].stamp
        /\ \A q \in Operator : q # o /\ op[q].at = "copy" => op[q].stamp # op[o].stamp

\* What is doomed is regular, and is no archive still to come.
DoomInv ==
    \A o \in Operator :
        /\ \A a \in archives : a.stamp \in op[o].doomed => ~ a.safety
        /\ \A s \in op[o].doomed : s <= stamp
        /\ \A q \in Operator : op[q].at = "copy" => op[q].stamp \notin op[o].doomed

\* Between its copy and its replacement, a file holds what was copied, or what
\* came too late.
CopyInv ==
    /\ \A o \in Operator, f \in File :
        Passed(o, f) => data[f] = Absent \/ data[f] \in late \/ op[o].files[f] = data[f]
    /\ \A o \in Operator : op[o].restore /\ op[o].at # "copy" => Secured(o)
    /\ \A o \in Operator : op[o].at \in {"unpack", "put"} => op[o].restore

UndoInv == StampInv /\ DoomInv /\ CopyInv /\ RestoreCanBeUndone

\* The fields that Ready and Staging give.
LEMMA FreshFields ==
  /\ Ready.at = "idle" /\ Ready.restore = FALSE /\ Ready.doomed = {} /\ Ready.files = Nothing
  /\ Staging.at = "copy" /\ Staging.restore = FALSE /\ Staging.doomed = {}
  /\ Staging.files = Nothing /\ Staging.stamp = stamp + 1 /\ Staging.left = Existing(data)
BY DEF Ready, Staging

\* Every action changes the command of one operator only.
LEMMA OthersStay ==
  ASSUME BackupTypeOK, NEW o \in Operator, Command(o), NEW q \in Operator, q # o
  PROVE  op'[q] = op[q]
<1> USE DEF BackupTypeOK
<1>1. ASSUME NEW f \in File, Copy(o, f) \/ PutBack(o, f) PROVE op'[q] = op[q]
  BY <1>1 DEF Copy, PutBack
<1>2. CASE Begin(o)
  BY <1>2 DEF Begin
<1>3. CASE Publish(o)
  BY <1>3 DEF Publish
<1>4. CASE List(o)
  BY <1>4 DEF List
<1>5. CASE Delete(o)
  BY <1>5 DEF Delete
<1>6. CASE BeginRestore(o)
  BY <1>6 DEF BeginRestore
<1>7. CASE Unpack(o)
  BY <1>7 DEF Unpack
<1>8. CASE Restored(o) \/ Interrupt(o)
  BY <1>8 DEF Restored, Interrupt
<1> QED
  BY <1>1, <1>2, <1>3, <1>4, <1>5, <1>6, <1>7, <1>8 DEF Command

\* The fields that an action gives to its operator's command.
LEMMA CommandFields ==
  ASSUME BackupTypeOK, NEW o \in Operator
  PROVE  /\ op[o] \in Running
         /\ \A f \in File : Copy(o, f) =>
              /\ op'[o].at = "copy" /\ op'[o].left = op[o].left \ {f}
              /\ op'[o].files = [op[o].files EXCEPT ![f] = data[f]]
              /\ op'[o].restore = op[o].restore /\ op'[o].stamp = op[o].stamp
              /\ op'[o].doomed = op[o].doomed
         /\ \A f \in File : PutBack(o, f) =>
              /\ op'[o].at = "put" /\ op'[o].left = op[o].left \ {f}
              /\ op'[o].files = op[o].files /\ op'[o].restore = op[o].restore
              /\ op'[o].doomed = op[o].doomed
         /\ Begin(o) => op'[o] = Staging
         /\ Publish(o) =>
              \/ op'[o] = Ready
              \/ /\ op'[o].at = (IF op[o].restore THEN "unpack" ELSE "prune")
                 /\ op'[o].restore = op[o].restore
                 /\ op'[o].files = op[o].files /\ op'[o].doomed = op[o].doomed
         /\ List(o) =>
              /\ op'[o].at = "delete" /\ op'[o].restore = op[o].restore
              /\ op'[o].files = op[o].files /\ op'[o].doomed = {a.stamp : a \in Doomed}
         /\ Unpack(o) =>
              \/ op'[o] = Ready
              \/ /\ op'[o].at = "put" /\ op'[o].restore = op[o].restore
                 /\ op'[o].files = op[o].files /\ op'[o].doomed = op[o].doomed
         /\ Restored(o) \/ Interrupt(o) => op'[o] = Ready
<1>1. op[o] \in Running
  BY DEF BackupTypeOK
<1>2. \A r : op' = [op EXCEPT ![o] = r] => op'[o] = r
  BY DEF BackupTypeOK
<1>3. ASSUME NEW f \in File, Copy(o, f)
      PROVE  op'[o] = [op[o] EXCEPT !.left = op[o].left \ {f},
                                    !.files = [op[o].files EXCEPT ![f] = data[f]]]
  <2>1. op' = [op EXCEPT ![o] = [op[o] EXCEPT !.left = op[o].left \ {f},
                                   !.files = [op[o].files EXCEPT ![f] = data[f]]]]
    BY <1>3 DEF Copy
  <2> QED
    BY <1>2, <2>1
<1>4. ASSUME NEW f \in File, PutBack(o, f)
      PROVE  op'[o] = [op[o] EXCEPT !.left = op[o].left \ {f}]
  BY <1>2, <1>4 DEF PutBack
<1>5. Begin(o) => op'[o] = Staging
  BY <1>2 DEF Begin
<1>6. Publish(o) => \/ op'[o] = Ready
                    \/ op[o].restore /\ op'[o] = [op[o] EXCEPT !.at = "unpack"]
                    \/ ~ op[o].restore /\ op'[o] = [op[o] EXCEPT !.at = "prune"]
  BY <1>2 DEF Publish
<1>7. List(o) => op'[o] = [op[o] EXCEPT !.at = "delete", !.doomed = {a.stamp : a \in Doomed}]
  BY <1>2 DEF List
<1>8. Unpack(o) => \/ op'[o] = Ready
                   \/ \E a \in archives : op'[o] = [op[o] EXCEPT !.at = "put", !.from = a.files,
                                                      !.left = Existing(a.files)]
  <2>1. ASSUME NEW a \in archives,
               op' = [op EXCEPT ![o].at = "put", ![o].from = a.files,
                                ![o].left = Existing(a.files)]
        PROVE  op'[o] = [op[o] EXCEPT !.at = "put", !.from = a.files,
                                      !.left = Existing(a.files)]
    <3> DEFINE z == [op[o] EXCEPT !.at = "put", !.from = a.files, !.left = Existing(a.files)]
    <3>1. op' = [op EXCEPT ![o] = z]
      BY <2>1
    <3> HIDE DEF z
    <3>2. op'[o] = z
      BY <1>2, <3>1
    <3> QED
      BY <3>2 DEF z
  <2>2. op' = [op EXCEPT ![o] = Ready] => op'[o] = Ready
    BY <1>2
  <2> QED
    BY <2>1, <2>2, Zenon DEF Unpack
<1>9. Restored(o) \/ Interrupt(o) => op'[o] = Ready
  BY <1>2 DEF Restored, Interrupt
<1>10. ASSUME NEW f \in File, Copy(o, f)
       PROVE  /\ op'[o].at = "copy" /\ op'[o].left = op[o].left \ {f}
              /\ op'[o].files = [op[o].files EXCEPT ![f] = data[f]]
              /\ op'[o].restore = op[o].restore /\ op'[o].stamp = op[o].stamp
              /\ op'[o].doomed = op[o].doomed
  <2>1. op[o].at = "copy"
    BY <1>10 DEF Copy
  <2> QED
    BY <1>1, <1>3, <1>10, <2>1 DEF Running
<1>11. ASSUME NEW f \in File, PutBack(o, f)
       PROVE  /\ op'[o].at = "put" /\ op'[o].left = op[o].left \ {f}
              /\ op'[o].files = op[o].files /\ op'[o].restore = op[o].restore
              /\ op'[o].doomed = op[o].doomed
  <2>1. op[o].at = "put"
    BY <1>11 DEF PutBack
  <2> QED
    BY <1>1, <1>4, <1>11, <2>1 DEF Running
<1> QED
  BY <1>1, <1>5, <1>6, <1>7, <1>8, <1>9, <1>10, <1>11, ZenonT(40) DEF Running

\* The fields of the command that a restore begins as.
LEMMA RestoreFields ==
  ASSUME BackupTypeOK, NEW o \in Operator, BeginRestore(o)
  PROVE  /\ op[o].at = "idle" /\ archives' = archives /\ data' = data
         /\ op'[o].files = Nothing /\ op'[o].doomed = {} /\ op'[o].restore
         /\ \/ /\ op'[o].at = "copy" /\ op'[o].stamp = stamp + 1 /\ stamp' = stamp + 1
               /\ op'[o].left = Existing(data)
            \/ op'[o].at = "unpack" /\ stamp' = stamp /\ Existing(data) = {}
<1>1. PICK a \in archives :
        \/ /\ stamp < MaxStamp /\ stamp' = stamp + 1
           /\ op' = [op EXCEPT ![o] = [Staging EXCEPT !.restore = TRUE, !.source = a.stamp]]
        \/ /\ Existing(data) = {} /\ stamp' = stamp
           /\ op' = [op EXCEPT ![o] = [Ready EXCEPT !.at = "unpack", !.restore = TRUE,
                                                    !.source = a.stamp]]
  BY DEF BeginRestore
<1>2. op[o].at = "idle" /\ archives' = archives /\ data' = data
  BY DEF BeginRestore
<1>3. \A r : op' = [op EXCEPT ![o] = r] => op'[o] = r
  BY DEF BackupTypeOK
<1>4. CASE stamp < MaxStamp /\ stamp' = stamp + 1 /\ op'[o] = [Staging EXCEPT !.restore = TRUE,
                                                                            !.source = a.stamp]
  BY <1>2, <1>4, FreshFields, StagingIsTyped DEF Running
<1>5. CASE /\ Existing(data) = {} /\ stamp' = stamp
           /\ op'[o] = [Ready EXCEPT !.at = "unpack", !.restore = TRUE, !.source = a.stamp]
  BY <1>2, <1>5, FreshFields, ReadyIsTyped DEF Running
<1> QED
  BY <1>1, <1>3, <1>4, <1>5

\* The fields of a command that is about to delete what its list dooms.
LEMMA DeleteFields ==
  ASSUME BackupTypeOK, NEW o \in Operator, Delete(o)
  PROVE  \/ op'[o] = Ready /\ archives' = archives
         \/ \E s \in op[o].doomed :
              /\ archives' = {a \in archives : a.stamp # s}
              /\ op'[o].at = op[o].at /\ op'[o].files = op[o].files
              /\ op'[o].restore = op[o].restore /\ op'[o].doomed = op[o].doomed \ {s}
<1>1. op[o] \in Running /\ \A r : op' = [op EXCEPT ![o] = r] => op'[o] = r
  BY DEF BackupTypeOK
<1>2. CASE op[o].doomed = {}
  BY <1>1, <1>2 DEF Delete
<1>3. ASSUME NEW s \in op[o].doomed, op' = [op EXCEPT ![o].doomed = @ \ {s}],
             archives' = {a \in archives : a.stamp # s}
      PROVE  /\ op'[o].at = op[o].at /\ op'[o].files = op[o].files
             /\ op'[o].restore = op[o].restore /\ op'[o].doomed = op[o].doomed \ {s}
  <2>1. op'[o] = [op[o] EXCEPT !.doomed = op[o].doomed \ {s}]
    BY <1>1, <1>3
  <2> QED
    BY <1>1, <2>1 DEF Running
<1> QED
  BY <1>2, <1>3 DEF Delete

\* What a command does to stamps and archives.
LEMMA Effect ==
  ASSUME BackupTypeOK, NEW o \in Operator, Command(o)
  PROVE  /\ \A q \in Operator : q # o => op'[q] = op[q]
         /\ stamp' \in {stamp, stamp + 1}
         /\ op'[o].at = "copy" =>
              /\ archives' = archives
              /\ \/ op[o].at = "copy" /\ op'[o].stamp = op[o].stamp
                 \/ stamp' = stamp + 1 /\ op'[o].stamp = stamp + 1
         /\ \/ archives' \subseteq archives
            \/ \E a : /\ a.stamp = op[o].stamp /\ op[o].at = "copy" /\ op'[o].at # "copy"
                      /\ archives' = archives \cup {a}
         /\ \A s \in op'[o].doomed :
              s \in op[o].doomed \/ \E b \in archives : b.stamp = s /\ ~ b.safety
         /\ \A a \in archives : a \in archives' \/ a.stamp \in op[o].doomed
<1>0. \A q \in Operator : q # o => op'[q] = op[q]
  BY OthersStay
<1> DEFINE Goal ==
        /\ stamp' \in {stamp, stamp + 1}
        /\ op'[o].at = "copy" =>
              /\ archives' = archives
              /\ \/ op[o].at = "copy" /\ op'[o].stamp = op[o].stamp
                 \/ stamp' = stamp + 1 /\ op'[o].stamp = stamp + 1
        /\ \/ archives' \subseteq archives
           \/ \E a : /\ a.stamp = op[o].stamp /\ op[o].at = "copy" /\ op'[o].at # "copy"
                     /\ archives' = archives \cup {a}
        /\ \A s \in op'[o].doomed :
              s \in op[o].doomed \/ \E b \in archives : b.stamp = s /\ ~ b.safety
        /\ \A a \in archives : a \in archives' \/ a.stamp \in op[o].doomed
<1> SUFFICES Goal
  BY <1>0
<1>1. CASE Begin(o)
  <2>1. op'[o] = Staging /\ archives' = archives /\ stamp' = stamp + 1
    BY <1>1, CommandFields DEF Begin
  <2> QED
    BY <2>1, FreshFields
<1>2. ASSUME NEW f \in File, Copy(o, f) PROVE Goal
  <2>1. /\ op[o].at = "copy" /\ op'[o].stamp = op[o].stamp /\ op'[o].doomed = op[o].doomed
        /\ archives' = archives /\ stamp' = stamp
    BY <1>2, CommandFields DEF Copy
  <2> QED
    BY <2>1
<1>3. CASE Publish(o)
  <2> DEFINE new == [stamp |-> op[o].stamp, day |-> op[o].day, safety |-> op[o].restore,
                     files |-> op[o].files]
  <2>1. /\ op[o].at = "copy" /\ op'[o].at # "copy" /\ op'[o].doomed \subseteq op[o].doomed
        /\ archives' = archives \cup {new} /\ stamp' = stamp
    BY <1>3, CommandFields, FreshFields DEF Publish
  <2>2. new.stamp = op[o].stamp
    OBVIOUS
  <2> HIDE DEF new
  <2> QED
    BY <2>1, <2>2
<1>4. CASE List(o)
  <2>1. /\ op'[o].at = "delete" /\ op'[o].doomed = {a.stamp : a \in Doomed}
        /\ archives' = archives /\ stamp' = stamp
    BY <1>4, CommandFields DEF List
  <2> QED
    BY <2>1 DEF Doomed, Regular
<1>5. CASE Delete(o)
  <2>1. stamp' = stamp /\ op[o].at = "delete"
    BY <1>5 DEF Delete
  <2> QED
    BY <1>5, <2>1, DeleteFields, FreshFields
<1>6. CASE BeginRestore(o)
  BY <1>6, RestoreFields
<1>7. CASE Unpack(o)
  <2>1. archives' = archives /\ stamp' = stamp
    BY <1>7 DEF Unpack
  <2>2. op'[o].at # "copy" /\ op'[o].doomed \subseteq op[o].doomed
    BY <1>7, CommandFields, FreshFields
  <2> QED
    BY <2>1, <2>2
<1>8. ASSUME NEW f \in File, PutBack(o, f) PROVE Goal
  <2>1. op'[o].at = "put" /\ op'[o].doomed = op[o].doomed /\ archives' = archives /\ stamp' = stamp
    BY <1>8, CommandFields DEF PutBack
  <2> QED
    BY <2>1
<1>9. CASE Restored(o) \/ Interrupt(o)
  <2>1. archives' = archives /\ stamp' = stamp /\ op'[o] = Ready
    BY <1>9, CommandFields DEF Restored, Interrupt
  <2> QED
    BY <2>1, FreshFields
<1> QED
  BY <1>1, <1>2, <1>3, <1>4, <1>5, <1>6, <1>7, <1>8, <1>9 DEF Command

\* The steps that are nobody's command.
LEMMA NoCommand ==
  ASSUME [BackupNext]_backupVars
  PROVE  \/ \E o \in Operator : Command(o)
         \/ UNCHANGED <<stamp, archives, op, overwritten>>
BY DEF BackupNext, DayPasses, Write, backupVars

\* Every step keeps the stamps of archives and commands apart.
LEMMA StampInvStep ==
  ASSUME BackupTypeOK, StampInv, [BackupNext]_backupVars
  PROVE  StampInv'
<1>0. /\ stamp \in Nat /\ \A a \in archives : a.stamp \in Nat
      /\ \A o \in Operator : op[o].stamp \in Nat
  BY BackupAssumption DEF BackupTypeOK, Archive, Running
<1>1. CASE UNCHANGED <<stamp, archives, op, overwritten>>
  BY <1>1 DEF StampInv
<1>2. ASSUME NEW o \in Operator, Command(o) PROVE StampInv'
  <2>1. /\ \A a, b \in archives' : a.stamp = b.stamp => a = b
        /\ \A a \in archives' : a.stamp <= stamp'
    BY <1>0, <1>2, Effect DEF StampInv
  <2>2. ASSUME NEW p \in Operator, op'[p].at = "copy"
        PROVE  /\ op'[p].stamp <= stamp'
               /\ \A a \in archives' : a.stamp # op'[p].stamp
    BY <1>0, <1>2, <2>2, Effect DEF StampInv
  <2>3. ASSUME NEW p \in Operator, op'[p].at = "copy",
               NEW q \in Operator, q # p, op'[q].at = "copy"
        PROVE  op'[q].stamp # op'[p].stamp
    BY <1>0, <1>2, <2>3, Effect DEF StampInv
  <2> QED
    BY <2>1, <2>2, <2>3 DEF StampInv
<1> QED
  BY <1>1, <1>2, NoCommand

\* No step dooms a safety archive or an archive still to come.
LEMMA DoomInvStep ==
  ASSUME BackupTypeOK, StampInv, DoomInv, [BackupNext]_backupVars
  PROVE  DoomInv'
<1>0. /\ stamp \in Nat /\ \A a \in archives : a.stamp \in Nat
      /\ \A o \in Operator : op[o].stamp \in Nat /\ op[o].doomed \subseteq Nat
  BY BackupAssumption DEF BackupTypeOK, Archive, Running
<1>1. CASE UNCHANGED <<stamp, archives, op, overwritten>>
  BY <1>1 DEF DoomInv
<1>2. ASSUME NEW o \in Operator, Command(o) PROVE DoomInv'
  <2> SUFFICES ASSUME NEW p \in Operator, NEW s \in op'[p].doomed
               PROVE  /\ \A a \in archives' : a.stamp = s => ~ a.safety
                      /\ s <= stamp'
                      /\ \A q \in Operator : op'[q].at = "copy" => op'[q].stamp # s
    BY Zenon DEF DoomInv
  <2>1. s \in op[p].doomed \/ \E b \in archives : b.stamp = s /\ ~ b.safety
    BY <1>2, Effect
  <2>2. /\ s \in Nat /\ s <= stamp
        /\ \A a \in archives : a.stamp = s => ~ a.safety
        /\ \A q \in Operator : op[q].at = "copy" => op[q].stamp # s
    BY <1>0, <2>1 DEF DoomInv, StampInv
  <2> QED
    BY <1>0, <1>2, <2>2, Effect
<1> QED
  BY <1>1, <1>2, NoCommand


\* Every step keeps a restore's copies equal to the files it has not replaced yet.
LEMMA CopyInvStep ==
  ASSUME BackupTypeOK, DoomInv, CopyInv, [BackupNext]_backupVars
  PROVE  CopyInv'
<1>0. /\ data \in [File -> 0..MaxVersion]
      /\ \A o \in Operator : op[o] \in Running /\ op[o].files \in [File -> 0..MaxVersion]
  BY DEF BackupTypeOK, Running, Snapshot
\* The two parts for one operator.
<1> DEFINE Held(q) ==
        /\ \A g \in File : Passed(q, g) =>
              data[g] = Absent \/ data[g] \in late \/ op[q].files[g] = data[g]
        /\ op[q].restore /\ op[q].at # "copy" => Secured(q)
        /\ op[q].at \in {"unpack", "put"} => op[q].restore
<1> SUFFICES ASSUME NEW q \in Operator PROVE Held(q)'
  BY Zenon DEF CopyInv
<1>1. Held(q)
  BY DEF CopyInv
\* No safety archive is deleted.
<1>2. \A a \in archives : a.safety => a \in archives'
  BY NoCommand, Effect DEF DoomInv
<1>3. Secured(q) /\ op'[q].files = op[q].files => Secured(q)'
  BY <1>2 DEF Secured
\* A command that is as it was, or one that goes on with the copies it has.
<1>4. ASSUME late \subseteq late', op'[q].restore => op[q].restore,
             op'[q].files = op[q].files,
             op'[q].restore /\ op'[q].at # "copy" => Secured(q)',
             op'[q].at \in {"unpack", "put"} => op'[q].restore,
             \A g \in File : Passed(q, g)' =>
                Passed(q, g) /\ (data'[g] = data[g] \/ data'[g] \in late')
      PROVE  Held(q)'
  BY <1>1, <1>4
<1>5. ASSUME op'[q] = op[q], late \subseteq late',
             \A g \in File : Passed(q, g) => data'[g] = data[g] \/ data'[g] \in late'
      PROVE  Held(q)'
  <2>1. \A g \in File : Passed(q, g)' <=> Passed(q, g)
    BY <1>5 DEF Passed
  <2> QED
    BY <1>1, <1>3, <1>4, <1>5, <2>1
<1>6. CASE DayPasses \/ UNCHANGED backupVars
  BY <1>5, <1>6 DEF DayPasses, backupVars
<1>7. ASSUME NEW f \in File, Write(f) PROVE Held(q)'
  <2>1. \A g \in File : Passed(q, g) => data'[g] = data[g] \/ data'[g] \in late'
    BY <1>0, <1>7 DEF Write
  <2> QED
    BY <1>5, <1>7, <2>1 DEF Write
<1>8. ASSUME NEW o \in Operator, Command(o), o # q PROVE Held(q)'
  <2>1. late \subseteq late'
    BY <1>8 DEF Command, Begin, Copy, Publish, List, Delete, BeginRestore, Unpack, PutBack,
                Restored, Interrupt
  <2>2. \A g \in File : Passed(q, g) => data'[g] = data[g] \/ data'[g] \in late'
    <3>1. CASE \E f \in File : PutBack(o, f)
      <4>1. PICK f \in File : PutBack(o, f)
        BY <3>1
      <4>2. \A g \in File \ {f} : data'[g] = data[g]
        BY <1>0, <4>1 DEF PutBack
      <4>3. data'[f] = op[o].from[f]
        BY <1>0, <4>1 DEF PutBack
      <4>4. Passed(q, f) => op[o].from[f] \in late'
        BY <1>8, <4>1 DEF PutBack
      <4> QED
        BY <4>2, <4>3, <4>4
    <3>2. CASE ~ \E f \in File : PutBack(o, f)
      <4>1. data' = data
        BY <1>8, <3>2 DEF Command, Begin, Copy, Publish, List, Delete, BeginRestore, Unpack,
                          Restored, Interrupt
      <4> QED
        BY <4>1
    <3> QED
      BY <3>1, <3>2
  <2>3. op'[q] = op[q]
    BY <1>8, OthersStay
  <2> QED
    BY <1>5, <2>1, <2>2, <2>3
<1>9. CASE op'[q] = Ready \/ op'[q] = Staging
  BY <1>9, FreshFields DEF Passed
<1>10. ASSUME NEW f \in File, Copy(q, f) PROVE Held(q)'
  <2>1. /\ op'[q].at = "copy" /\ op[q].at = "copy" /\ op'[q].left = op[q].left \ {f}
        /\ op'[q].files = [op[q].files EXCEPT ![f] = data[f]] /\ op'[q].restore = op[q].restore
        /\ data' = data /\ late' = late
    BY <1>10, CommandFields DEF Copy
  <2>2. ASSUME NEW g \in File, Passed(q, g)'
        PROVE  data'[g] = Absent \/ data'[g] \in late' \/ op'[q].files[g] = data'[g]
    <3>1. CASE g = f
      BY <1>0, <2>1, <3>1
    <3>2. CASE g # f
      BY <1>0, <1>1, <2>1, <2>2, <3>2 DEF Passed
    <3> QED
      BY <3>1, <3>2
  <2> QED
    BY <2>1, <2>2
<1>11. CASE Publish(q)
  <2>1. CASE op'[q].restore /\ op'[q] # Ready
    <3>1. /\ op[q].at = "copy" /\ op[q].left = {} /\ op[q].restore /\ op'[q].restore
          /\ op'[q].files = op[q].files /\ data' = data /\ late' = late
      BY <1>11, <2>1, CommandFields DEF Publish
    <3>2. [stamp |-> op[q].stamp, day |-> op[q].day, safety |-> op[q].restore,
           files |-> op[q].files] \in archives'
      BY <1>11 DEF Publish
    <3>3. Secured(q)'
      BY <3>1, <3>2 DEF Secured
    <3>4. \A g \in File : Passed(q, g)
      BY <3>1 DEF Passed
    <3> QED
      BY <1>4, <3>1, <3>3, <3>4
  <2>2. CASE ~ op'[q].restore /\ op'[q].at = "prune"
    BY <2>2 DEF Passed
  <2> QED
    BY <1>9, <1>11, <2>1, <2>2, CommandFields
<1>12. CASE List(q)
  <2>1. op[q].at = "prune" /\ op'[q].at = "delete" /\ data' = data /\ late' = late
        /\ op'[q].files = op[q].files /\ op'[q].restore = op[q].restore
    BY <1>12, CommandFields DEF List
  <2>2. \A g \in File : Passed(q, g)' => Passed(q, g)
    BY <2>1 DEF Passed
  <2> QED
    BY <1>1, <1>3, <1>4, <2>1, <2>2
<1>13. CASE Delete(q)
  <2>1. CASE op'[q].at = op[q].at /\ op'[q].files = op[q].files /\ op'[q].restore = op[q].restore
    <3>1. data' = data /\ late' = late /\ op[q].at = "delete"
      BY <1>13 DEF Delete
    <3>2. \A g \in File : Passed(q, g)' => Passed(q, g)
      BY <2>1, <3>1 DEF Passed
    <3> QED
      BY <1>1, <1>3, <1>4, <2>1, <3>1, <3>2
  <2> QED
    BY <1>9, <1>13, <2>1, DeleteFields
<1>14. CASE BeginRestore(q)
  <2>1. CASE op'[q].at = "copy" /\ op'[q].left = Existing(data) /\ data' = data
    <3>1. \A g \in File : Passed(q, g)' => data'[g] = Absent
      BY <2>1 DEF Passed, Existing
    <3> QED
      BY <2>1, <3>1
  <2>2. CASE /\ Existing(data) = {} /\ data' = data /\ op'[q].files = Nothing
             /\ op'[q].restore
    BY <2>2 DEF Existing, Secured
  <2> QED
    BY <1>14, <2>1, <2>2, RestoreFields
<1>15. CASE Unpack(q)
  <2>1. CASE /\ op'[q].at = "put" /\ op'[q].restore = op[q].restore
             /\ op'[q].files = op[q].files
    <3>1. data' = data /\ late' = late /\ op[q].at = "unpack"
      BY <1>15 DEF Unpack
    <3>2. \A g \in File : Passed(q, g)' => Passed(q, g)
      BY <2>1, <3>1 DEF Passed
    <3> QED
      BY <1>1, <1>3, <1>4, <2>1, <3>1, <3>2
  <2> QED
    BY <1>9, <1>15, <2>1, CommandFields
<1>16. ASSUME NEW f \in File, PutBack(q, f) PROVE Held(q)'
  <2>1. /\ op'[q].at = "put" /\ op[q].at = "put" /\ op'[q].left = op[q].left \ {f}
        /\ op'[q].files = op[q].files /\ op'[q].restore = op[q].restore
        /\ late \subseteq late' /\ data' = [data EXCEPT ![f] = op[q].from[f]]
    BY <1>16, CommandFields DEF PutBack
  <2>2. \A g \in File : Passed(q, g)' => Passed(q, g) /\ data'[g] = data[g]
    BY <1>0, <2>1 DEF Passed
  <2> QED
    BY <1>1, <1>3, <1>4, <2>1, <2>2
<1>17. CASE Begin(q) \/ Restored(q) \/ Interrupt(q)
  BY <1>9, <1>17, CommandFields
<1> QED
  BY <1>6, <1>7, <1>8, <1>10, <1>11, <1>12, <1>13, <1>14, <1>15, <1>16, <1>17
  DEF BackupNext, Command

\* What a restore replaced is in a safety archive that still exists, except what
\* was written behind its back.
THEOREM RestoresAreUndoable == BackupSpec => []RestoreCanBeUndone
<1>1. BackupInit => UndoInv
  <2> SUFFICES ASSUME BackupInit PROVE UndoInv
    OBVIOUS
  <2>1. \A o \in Operator : op[o] = Ready
    BY DEF BackupInit
  <2>2. StampInv /\ DoomInv /\ CopyInv
    BY <2>1, FreshFields DEF BackupInit, StampInv, DoomInv, CopyInv, Passed
  <2> QED
    BY <2>2 DEF BackupInit, UndoInv, RestoreCanBeUndone
<1>2. BackupTypeOK /\ UndoInv /\ [BackupNext]_backupVars => UndoInv'
  <2> SUFFICES ASSUME BackupTypeOK, UndoInv, [BackupNext]_backupVars PROVE UndoInv'
    OBVIOUS
  <2>1. StampInv' /\ DoomInv' /\ CopyInv'
    BY StampInvStep, DoomInvStep, CopyInvStep DEF UndoInv
  <2>2. \A a \in archives : a.safety => a \in archives'
    BY NoCommand, Effect DEF UndoInv, DoomInv
  <2>4. late \subseteq late'
    BY ZenonT(40)
       DEF BackupNext, DayPasses, Write, backupVars, Command, Begin, Copy, Publish, List, Delete,
           BeginRestore, Unpack, PutBack, Restored, Interrupt
  <2>5. ASSUME NEW v \in overwritten' \ overwritten, v \notin late'
        PROVE  \E a \in archives' : a.safety /\ \E f \in File : a.files[f] = v
    <3>1. PICK o \in Operator, f \in File : PutBack(o, f)
      BY <2>5, ZenonT(40)
      DEF BackupNext, DayPasses, Write, backupVars, Command, Begin, Copy, Publish, List,
         Delete, BeginRestore, Unpack, PutBack, Restored, Interrupt
    <3>2. /\ v = data[f] /\ v # Absent /\ op[o].at = "put" /\ f \in op[o].left
      BY <2>5, <3>1 DEF PutBack
    <3>3. op[o].restore
      BY <3>2 DEF UndoInv, CopyInv
    <3>4. Secured(o) /\ op[o].files[f] = v
      BY <2>4, <2>5, <3>2, <3>3 DEF UndoInv, CopyInv, Passed
    <3> QED
      BY <2>2, <3>2, <3>4 DEF Secured, Nothing
  <2> QED
    BY <2>1, <2>2, <2>4, <2>5 DEF UndoInv, RestoreCanBeUndone
<1>3. UndoInv => RestoreCanBeUndone
  BY DEF UndoInv
<1> QED
  BY <1>1, <1>2, <1>3, BackupTypeCorrect, PTL DEF BackupSpec

-----------------------------------------------------------------------------
(* Retention.                                                              *)

\* What is among the n largest of a set is so in a part of the set.
LEMMA LargestOfPart ==
  ASSUME NEW n \in Nat, NEW T, IsFiniteSet(T), NEW S \in SUBSET T,
         NEW x \in S, x \in Largest(n, T)
  PROVE  x \in Largest(n, S)
<1>1. {y \in S : y > x} \in SUBSET {y \in T : y > x} /\ {y \in T : y > x} \in SUBSET T
  OBVIOUS
<1>2. IsFiniteSet({y \in T : y > x})
  BY <1>1, FS_Subset
<1>3. Cardinality({y \in S : y > x}) <= Cardinality({y \in T : y > x})
  BY <1>1, <1>2, FS_Subset
<1>4. Cardinality({y \in S : y > x}) \in Nat /\ Cardinality({y \in T : y > x}) \in Nat
  BY <1>1, <1>2, FS_Subset, FS_CardinalityType
<1> QED
  BY <1>3, <1>4 DEF Largest

\* What is above one of the n largest is among them.
LEMMA LargestIsUp ==
  ASSUME NEW n \in Nat, NEW T \in SUBSET Nat, IsFiniteSet(T),
         NEW e \in Largest(n, T), NEW x \in T, e <= x
  PROVE  x \in Largest(n, T)
<1>0. e \in Nat /\ x \in Nat /\ \A y \in T : y \in Nat
  BY DEF Largest
<1>1. {y \in T : y > x} \in SUBSET {y \in T : y > e} /\ {y \in T : y > e} \in SUBSET T
  <2>1. \A y \in T : y > x => y > e
    BY <1>0
  <2> QED
    BY <2>1
<1>2. IsFiniteSet({y \in T : y > e})
  BY <1>1, FS_Subset
<1>3. Cardinality({y \in T : y > x}) <= Cardinality({y \in T : y > e})
  BY <1>1, <1>2, FS_Subset
<1>4. Cardinality({y \in T : y > x}) \in Nat /\ Cardinality({y \in T : y > e}) \in Nat
  BY <1>1, <1>2, FS_Subset, FS_CardinalityType
<1> QED
  BY <1>3, <1>4 DEF Largest

\* A day is one of the last KeepDaily or older than all of them.
LEMMA DailyOrOlder ==
  ASSUME NEW T \in SUBSET (0..MaxDay)
  PROVE  /\ IsFiniteSet(T)
         /\ Daily(T) \subseteq T /\ Older(T) \subseteq T
         /\ \A x \in T : x \in Older(T) <=> x \notin Daily(T)
<1>1. IsFiniteSet(0..MaxDay) /\ T \in SUBSET Nat
  BY BackupAssumption, FS_Interval
<1>2. IsFiniteSet(T)
  BY <1>1, FS_Subset
<1>3. Daily(T) \subseteq T /\ Older(T) \subseteq T
  BY DEF Daily, Older, Largest
<1>4. ASSUME NEW x \in T, x \in Older(T) PROVE x \notin Daily(T)
  BY <1>1, <1>4 DEF Older
<1>5. ASSUME NEW x \in T, x \notin Daily(T) PROVE x \in Older(T)
  <2> SUFFICES ASSUME NEW e \in Daily(T) PROVE x < e
    BY DEF Older
  <2>1. ~ e <= x
    BY <1>1, <1>2, <1>5, LargestIsUp, BackupAssumption DEF Daily
  <2> QED
    <3>1. e \in Nat /\ x \in Nat
      BY <1>1, <1>3
    <3> QED
      BY <2>1, <3>1
<1> QED
  BY <1>2, <1>3, <1>4, <1>5

\* The weeks that Weekly() chooses from.
WeeksOf(T) == {Week(d) : d \in Older(T)}

\* More days make no day younger, and bring no week back.
LEMMA DaysGrow ==
  ASSUME NEW T \in SUBSET (0..MaxDay), NEW S \in SUBSET T
  PROVE  /\ \A x \in S : x \in Daily(T) => x \in Daily(S)
         /\ Older(S) \subseteq Older(T)
         /\ IsFiniteSet(WeeksOf(T))
         /\ \A w \in WeeksOf(S) : w \in Weekly(T) => w \in Weekly(S)
<1>0. S \in SUBSET (0..MaxDay)
  OBVIOUS
<1>1. \A x \in S : x \in Daily(T) => x \in Daily(S)
  <2>1. IsFiniteSet(T)
    BY DailyOrOlder
  <2>2. ASSUME NEW x \in S, x \in Largest(KeepDaily, T) PROVE x \in Largest(KeepDaily, S)
    <3>1. KeepDaily \in Nat
      BY BackupAssumption
    <3> QED
      BY <2>1, <2>2, <3>1, LargestOfPart
  <2> QED
    BY <2>2 DEF Daily
<1>2. Older(S) \subseteq Older(T)
  <2> SUFFICES ASSUME NEW x \in Older(S) PROVE x \in Older(T)
    OBVIOUS
  <2>1. x \in S /\ x \in T /\ x \notin Daily(S)
    BY <1>0, DailyOrOlder
  <2>2. x \notin Daily(T)
    BY <1>1, <2>1
  <2> QED
    BY <2>1, <2>2, DailyOrOlder
<1>3. IsFiniteSet(WeeksOf(T))
  <2> DEFINE f == [d \in Older(T) |-> Week(d)]
  <2>1. f \in Surjection(Older(T), WeeksOf(T))
    <3>1. f \in [Older(T) -> WeeksOf(T)] /\ \A w \in WeeksOf(T) : \E d \in Older(T) : f[d] = w
      BY DEF WeeksOf
    <3> QED
      BY <3>1, Fun_IsSurj
  <2>2. IsFiniteSet(Older(T))
    BY DailyOrOlder, FS_Subset
  <2> QED
    BY <2>1, <2>2, FS_Surjection DEF ExistsSurjection
<1>4. ASSUME NEW w \in WeeksOf(S), w \in Weekly(T) PROVE w \in Weekly(S)
  <2>1. WeeksOf(S) \in SUBSET WeeksOf(T)
    BY <1>2 DEF WeeksOf
  <2> QED
    BY <1>3, <1>4, <2>1, LargestOfPart, BackupAssumption DEF Weekly, WeeksOf
<1> QED
  BY <1>1, <1>2, <1>3, <1>4

\* A later archive stands for this one, or its week is no longer kept.
Superseded(a) ==
    \/ \E b \in Regular : b.stamp > a.stamp /\ b.day = a.day
    \/ /\ a.day \in Older(backedUp)
       /\ \/ Week(a.day) \notin Weekly(backedUp)
          \/ \E b \in Regular : /\ b.stamp > a.stamp /\ b.day \in Older(backedUp)
                                /\ Week(b.day) = Week(a.day)

\* A list may be old when prune() deletes from it, but what was superseded once
\* is superseded for ever.
RetainInv ==
    /\ RetentionKept
    /\ \A a \in Regular : a.day \in backedUp
    /\ \A o \in Operator, a \in archives : a.stamp \in op[o].doomed => Superseded(a)

\* What prune() dooms is superseded.
LEMMA DoomedIsSuperseded ==
  ASSUME BackupTypeOK, RetainInv, NEW a \in Doomed
  PROVE  Superseded(a)
<1> DEFINE A == {b.day : b \in Regular}
           older == {b \in Regular : b.day \in Older(A)}
<1>1. A \in SUBSET backedUp /\ backedUp \in SUBSET (0..MaxDay) /\ A \in SUBSET (0..MaxDay)
  BY DEF RetainInv, BackupTypeOK
<1>2. /\ a \in Regular /\ a.day \in A /\ \A b \in Regular : b.stamp \in Nat
  BY BackupAssumption DEF Doomed, Regular, BackupTypeOK, Archive
<1> DEFINE last == UNION {NewestOf({b \in Regular : b.day = d}) : d \in Daily(A)}
           first == UNION {NewestOf({b \in older : Week(b.day) = w}) : w \in Weekly(A)}
<1>6. Kept = last \cup first
  BY DEF Kept
<1>7. a \notin last /\ a \notin first
  <2> HIDE DEF last, first
  <2> QED
    BY <1>6 DEF Doomed
<1> HIDE DEF A
<1>3. \A x \in A : x \in Older(A) => x \in Older(backedUp)
  BY <1>1, DaysGrow
<1>4. CASE a.day \in Daily(A)
  <2>1. a \notin NewestOf({b \in Regular : b.day = a.day})
    BY <1>2, <1>7, <1>4
  <2>2. \E b \in Regular : b.day = a.day /\ ~ b.stamp <= a.stamp
    BY <1>2, <2>1 DEF NewestOf
  <2> QED
    BY <1>2, <2>2 DEF Superseded
<1>5. CASE a.day \notin Daily(A)
  <2>1. a.day \in Older(A) /\ a.day \in Older(backedUp)
    BY <1>1, <1>2, <1>3, <1>5, DailyOrOlder
  <2>2. CASE Week(a.day) \in Weekly(A)
    <3>1. a \notin NewestOf({b \in older : Week(b.day) = Week(a.day)})
      BY <1>2, <1>7, <2>2
    <3>2. PICK b \in older : Week(b.day) = Week(a.day) /\ ~ b.stamp <= a.stamp
      BY <1>2, <2>1, <3>1 DEF NewestOf
    <3>3. b \in Regular /\ b.day \in Older(backedUp)
      BY <1>1, <1>3, DailyOrOlder
    <3> QED
      BY <1>2, <2>1, <3>2, <3>3 DEF Superseded
  <2>3. CASE Week(a.day) \notin Weekly(A)
    <3>1. Week(a.day) \in WeeksOf(A)
      BY <2>1 DEF WeeksOf
    <3>2. Week(a.day) \notin Weekly(backedUp)
      BY <1>1, <2>3, <3>1, DaysGrow
    <3> QED
      BY <2>1, <3>2 DEF Superseded
  <2> QED
    BY <2>2, <2>3
<1> QED
  BY <1>4, <1>5

\* Deleting a superseded archive leaves the retention and the others superseded.
LEMMA DeleteRetains ==
  ASSUME BackupTypeOK, StampInv, DoomInv, RetainInv,
         NEW o \in Operator, NEW s \in op[o].doomed,
         archives' = {a \in archives : a.stamp # s}, backedUp' = backedUp
  PROVE  /\ RetentionKept'
         /\ \A a \in Regular' : a \in Regular /\ (Superseded(a) => Superseded(a)')
<1>1. Regular' = {a \in Regular : a.stamp # s}
  BY DEF Regular
<1>2. \A a \in Regular : a.stamp = s => Superseded(a)
  BY DEF RetainInv, Regular
<1>3. /\ \A d \in backedUp : d \in Older(backedUp) <=> d \notin Daily(backedUp)
      /\ Daily(backedUp) \subseteq backedUp
  BY DailyOrOlder DEF BackupTypeOK
<1>4. \A a, b \in Regular : b.stamp > a.stamp => b.stamp # a.stamp
  BY BackupAssumption DEF Regular, BackupTypeOK, Archive
<1>5. ASSUME NEW a \in Regular, NEW t \in Nat, a.stamp > t,
             a.stamp # s \/ Superseded(a)
      PROVE  \/ \E b \in Regular' : b.stamp > t /\ b.day = a.day
             \/ /\ a.day \in Older(backedUp)
                /\ \/ Week(a.day) \notin Weekly(backedUp)
                   \/ \E b \in Regular' : /\ b.stamp > t /\ b.day \in Older(backedUp)
                                          /\ Week(b.day) = Week(a.day)
  <2>1. CASE a.stamp # s
    BY <1>1, <1>5, <2>1
  <2>2. CASE a.stamp = s /\ Superseded(a)
    <3>1. \A b \in Regular : b.stamp > a.stamp => b \in Regular' /\ b.stamp > t
      <4>1. \A b \in Regular : b.stamp \in Nat
        BY BackupAssumption DEF Regular, BackupTypeOK, Archive
      <4> QED
        BY <1>1, <1>5, <2>2, <4>1
    <3> QED
      BY <2>2, <3>1 DEF Superseded
  <2> QED
    BY <1>5, <2>1, <2>2
<1>6. ASSUME NEW a \in Regular, Superseded(a) PROVE Superseded(a)'
  <2>0. a.stamp \in Nat
    BY BackupAssumption DEF Regular, BackupTypeOK, Archive
  <2>1. CASE \E b \in Regular : b.stamp > a.stamp /\ b.day = a.day
    <3>1. PICK b \in Regular : b.stamp > a.stamp /\ b.day = a.day
      BY <2>1
    <3> QED
      BY <1>2, <1>5, <2>0, <3>1 DEF Superseded
  <2>2. CASE a.day \in Older(backedUp) /\ Week(a.day) \notin Weekly(backedUp)
    BY <2>2 DEF Superseded
  <2>3. ASSUME a.day \in Older(backedUp), NEW b \in Regular, b.stamp > a.stamp,
               b.day \in Older(backedUp), Week(b.day) = Week(a.day)
        PROVE  Superseded(a)'
    BY <1>2, <1>5, <2>0, <2>3 DEF Superseded
  <2> QED
    BY <1>6, <2>1, <2>2, <2>3 DEF Superseded
<1>7. RetentionKept'
  <2>1. ASSUME NEW d \in Daily(backedUp) PROVE \E a \in Regular' : a.day = d
    <3>1. PICK a \in Regular : a.day = d
      BY DEF RetainInv, RetentionKept
    <3>2. d \notin Older(backedUp)
      BY <1>3
    <3> QED
      BY <1>1, <1>2, <1>4, <3>1, <3>2 DEF Superseded
  <2>2. ASSUME NEW w \in Weekly(backedUp)
        PROVE  \E a \in Regular' : a.day \in Older(backedUp) /\ Week(a.day) = w
    <3>1. PICK a \in Regular : a.day \in Older(backedUp) /\ Week(a.day) = w
      BY DEF RetainInv, RetentionKept
    <3> QED
      BY <1>1, <1>2, <1>4, <3>1 DEF Superseded
  <2> QED
    BY <2>1, <2>2 DEF RetentionKept
<1> QED
  BY <1>1, <1>6, <1>7

\* So does publishing an archive, of whatever day.
LEMMA PublishRetains ==
  ASSUME BackupTypeOK, RetainInv,
         NEW new, archives' = archives \cup {new},
         \/ new.safety /\ backedUp' = backedUp
         \/ ~ new.safety /\ backedUp' = backedUp \cup {new.day} /\ new.day \in 0..MaxDay
  PROVE  /\ RetentionKept' /\ \A a \in Regular' : a.day \in backedUp'
         /\ \A a \in Regular : Superseded(a) => Superseded(a)'
<1>1. CASE new.safety /\ backedUp' = backedUp
  <2>1. Regular' = Regular
    BY <1>1 DEF Regular
  <2> QED
    BY <1>1, <2>1 DEF RetainInv, RetentionKept, Superseded
<1>2. CASE ~ new.safety /\ backedUp' = backedUp \cup {new.day} /\ new.day \in 0..MaxDay
  <2>1. Regular' = Regular \cup {new}
    BY <1>2 DEF Regular
  <2>2. backedUp \in SUBSET (0..MaxDay) /\ backedUp' \in SUBSET (0..MaxDay)
        /\ backedUp \in SUBSET backedUp'
    BY <1>2 DEF BackupTypeOK
  <2>3. /\ \A x \in backedUp : x \in Daily(backedUp') => x \in Daily(backedUp)
        /\ Older(backedUp) \subseteq Older(backedUp')
        /\ \A w \in WeeksOf(backedUp) : w \in Weekly(backedUp') => w \in Weekly(backedUp)
    BY <2>2, DaysGrow
  <2>4. ASSUME NEW a \in Regular, Superseded(a) PROVE Superseded(a)'
    <3>1. CASE a.day \in Older(backedUp) /\ Week(a.day) \notin Weekly(backedUp)
      <4>1. Week(a.day) \in WeeksOf(backedUp)
        BY <3>1 DEF WeeksOf
      <4>2. Week(a.day) \notin Weekly(backedUp') /\ a.day \in Older(backedUp')
        BY <2>3, <3>1, <4>1
      <4> QED
        BY <4>2 DEF Superseded
    <3>2. CASE ~ (a.day \in Older(backedUp) /\ Week(a.day) \notin Weekly(backedUp))
      BY <2>1, <2>3, <2>4, <3>2 DEF Superseded
    <3> QED
      BY <3>1, <3>2
  <2>5. \A d \in Daily(backedUp') : \E a \in Regular' : a.day = d
    <3>1. \A d \in Daily(backedUp') : d \in backedUp \/ d = new.day
      BY <1>2, <2>2, DailyOrOlder
    <3> QED
      BY <2>1, <2>3, <3>1 DEF RetainInv, RetentionKept
  <2>6. ASSUME NEW w \in Weekly(backedUp')
        PROVE  \E a \in Regular' : a.day \in Older(backedUp') /\ Week(a.day) = w
    <3>1. CASE w \in Weekly(backedUp)
      BY <2>1, <2>3, <3>1 DEF RetainInv, RetentionKept
    <3>2. CASE w \notin Weekly(backedUp)
      <4>1. PICK x \in Older(backedUp') : Week(x) = w
        BY DEF Weekly, Largest
      <4>2. x \notin Older(backedUp)
        BY <2>3, <3>2, <4>1 DEF WeeksOf
      <4>3. x = new.day \/ x \in Daily(backedUp)
        BY <1>2, <2>2, <4>1, <4>2, DailyOrOlder
      <4>4. \E a \in Regular' : a.day = x
        BY <2>1, <4>3 DEF RetainInv, RetentionKept
      <4> QED
        BY <4>1, <4>4
    <3> QED
      BY <3>1, <3>2
  <2>7. \A a \in Regular' : a.day \in backedUp'
    BY <1>2, <2>1 DEF RetainInv
  <2> QED
    BY <2>4, <2>5, <2>6, <2>7 DEF RetentionKept
<1> QED
  BY <1>1, <1>2

\* Every step keeps the retention, and what is doomed superseded.
LEMMA RetainStep ==
  ASSUME BackupTypeOK, StampInv, DoomInv, RetainInv, [BackupNext]_backupVars
  PROVE  RetainInv'
<1>0. \A o \in Operator : \A a \in archives : a.stamp \in op[o].doomed => a \in Regular
  BY DEF DoomInv, Regular
<1>1. ASSUME UNCHANGED <<archives, backedUp>>,
             \A o \in Operator : op'[o].doomed \subseteq op[o].doomed
      PROVE  RetainInv'
  BY <1>1 DEF RetainInv, RetentionKept, Superseded, Regular
<1>2. CASE DayPasses \/ UNCHANGED backupVars \/ \E f \in File : Write(f)
  <2>1. UNCHANGED <<archives, backedUp, op>>
    BY <1>2 DEF DayPasses, backupVars, Write
  <2> QED
    BY <1>1, <2>1
<1>3. ASSUME NEW o \in Operator, Command(o) PROVE RetainInv'
  <2>1. \A q \in Operator : q # o => op'[q] = op[q]
    BY <1>3, OthersStay
  <2>2. ASSUME UNCHANGED <<archives, backedUp>>, op'[o].doomed \subseteq op[o].doomed
        PROVE  RetainInv'
    BY <1>1, <2>1, <2>2
  <2>3. CASE Publish(o)
    <3> DEFINE new == [stamp |-> op[o].stamp, day |-> op[o].day, safety |-> op[o].restore,
                       files |-> op[o].files]
    <3>1. /\ new.stamp = op[o].stamp /\ new.safety = op[o].restore /\ new.day = op[o].day
          /\ op[o].at = "copy" /\ op'[o].doomed \subseteq op[o].doomed
          /\ archives' = archives \cup {new} /\ new.day \in 0..MaxDay
      BY <2>3, CommandFields, FreshFields DEF Publish, Running
    <3>2. \/ new.safety /\ backedUp' = backedUp
          \/ ~ new.safety /\ backedUp' = backedUp \cup {new.day}
      BY <2>3, <3>1 DEF Publish
    <3> HIDE DEF new
    <3>3. /\ RetentionKept' /\ \A a \in Regular' : a.day \in backedUp'
          /\ \A a \in Regular : Superseded(a) => Superseded(a)'
      BY <3>1, <3>2, PublishRetains
    <3>4. \A q \in Operator : op'[q].doomed \subseteq op[q].doomed /\ new.stamp \notin op[q].doomed
      BY <2>1, <3>1 DEF DoomInv
    <3> QED
      BY <1>0, <3>1, <3>3, <3>4 DEF RetainInv
  <2>4. CASE List(o)
    <3>1. /\ op'[o].doomed = {a.stamp : a \in Doomed}
          /\ archives' = archives /\ backedUp' = backedUp
      BY <2>4, CommandFields DEF List
    <3>2. \A a \in archives : a.stamp \in op'[o].doomed => Superseded(a)
      <4>1. \A a \in archives : a.stamp \in op'[o].doomed => a \in Doomed
        BY <3>1 DEF StampInv, Doomed, Regular
      <4> QED
        BY <4>1, DoomedIsSuperseded
    <3>3. \A q \in Operator, a \in archives : a.stamp \in op'[q].doomed => Superseded(a)
      BY <2>1, <3>2 DEF RetainInv
    <3> QED
      BY <3>1, <3>3 DEF RetainInv, RetentionKept, Superseded, Regular
  <2>5. CASE Delete(o)
    <3>1. backedUp' = backedUp
      BY <2>5 DEF Delete
    <3>2. CASE op'[o] = Ready /\ archives' = archives
      BY <2>2, <3>1, <3>2, FreshFields
    <3>3. ASSUME NEW s \in op[o].doomed, archives' = {a \in archives : a.stamp # s},
                 op'[o].doomed = op[o].doomed \ {s}
          PROVE  RetainInv'
      <4>1. /\ RetentionKept'
            /\ \A a \in Regular' : a \in Regular /\ (Superseded(a) => Superseded(a)')
        BY <3>1, <3>3, DeleteRetains
      <4>2. \A q \in Operator : op'[q].doomed \subseteq op[q].doomed
        BY <2>1, <3>3
      <4>3. \A q \in Operator, a \in archives' : a.stamp \in op'[q].doomed => a \in Regular'
        BY <1>0, <3>3, <4>2 DEF Regular
      <4> QED
        BY <3>1, <3>3, <4>1, <4>2, <4>3 DEF RetainInv
    <3> QED
      BY <2>5, <3>2, <3>3, DeleteFields
  <2>6. CASE Begin(o) \/ Restored(o) \/ Interrupt(o)
    <3>1. UNCHANGED <<archives, backedUp>>
      BY <2>6 DEF Begin, Restored, Interrupt
    <3> QED
      BY <2>2, <2>6, <3>1, CommandFields, FreshFields
  <2>7. ASSUME NEW f \in File, Copy(o, f) \/ PutBack(o, f) PROVE RetainInv'
    <3>1. UNCHANGED <<archives, backedUp>>
      BY <2>7 DEF Copy, PutBack
    <3> QED
      BY <2>2, <2>7, <3>1, CommandFields
  <2>8. CASE BeginRestore(o)
    <3>1. backedUp' = backedUp
      BY <2>8 DEF BeginRestore
    <3> QED
      BY <2>2, <2>8, <3>1, RestoreFields
  <2>9. CASE Unpack(o)
    <3>1. UNCHANGED <<archives, backedUp>>
      BY <2>9 DEF Unpack
    <3> QED
      BY <2>2, <2>9, <3>1, CommandFields, FreshFields
  <2> QED
    BY <1>3, <2>3, <2>4, <2>5, <2>6, <2>7, <2>8, <2>9 DEF Command
<1> QED
  BY <1>2, <1>3 DEF BackupNext

\* The retention holds for any number of operators, whoever prunes from however
\* old a list, and whatever is restored or interrupted.
THEOREM RetentionIsKept == BackupSpec => []RetentionKept
<1> DEFINE Inv == StampInv /\ DoomInv /\ RetainInv
<1>1. BackupInit => Inv
  <2> SUFFICES ASSUME BackupInit PROVE Inv
    OBVIOUS
  <2>1. \A o \in Operator : op[o] = Ready
    BY DEF BackupInit
  <2>2. StampInv /\ DoomInv
    BY <2>1, FreshFields DEF BackupInit, StampInv, DoomInv
  <2>3. Regular = {} /\ Daily(backedUp) = {} /\ Weekly(backedUp) = {}
    BY DEF BackupInit, Regular, Daily, Older, Weekly, Largest
  <2> QED
    BY <2>2, <2>3 DEF BackupInit, RetainInv, RetentionKept
<1>2. BackupTypeOK /\ Inv /\ [BackupNext]_backupVars => Inv'
  BY StampInvStep, DoomInvStep, RetainStep
<1>3. Inv => RetentionKept
  BY DEF RetainInv
<1> QED
  BY <1>1, <1>2, <1>3, BackupTypeCorrect, PTL DEF BackupSpec

=============================================================================
