------------------------------- MODULE Backup -------------------------------
(***************************************************************************)
(* Backup and restore of the agent's files, core/backup.py, and the        *)
(* commands around them: `agent backup create` and `agent backup restore`, *)
(* run by several operators while the agent goes on writing.               *)
(*                                                                         *)
(* Copying or replacing one file is one step (SQLite's backup API); a      *)
(* command copies, replaces and deletes files one after the other and may  *)
(* be interrupted between any two.  No two archives are begun in the same  *)
(* second, so the time stamp in its name identifies an archive.            *)
(***************************************************************************)
EXTENDS Integers, FiniteSets

CONSTANTS
    Operator,    \* processes that run the commands
    File,        \* files under data/ and chroma_db/
    DaysPerWeek,
    KeepDaily,   \* keep_daily of prune()
    KeepWeekly,  \* keep_weekly
    MaxDay,      \* bound
    MaxVersion,  \* bound: versions of files that are written
    MaxStamp     \* bound: archives begun

ASSUME BackupAssumption ==
    /\ IsFiniteSet(File)
    /\ DaysPerWeek \in Nat \ {0} /\ KeepDaily \in Nat /\ KeepWeekly \in Nat
    /\ MaxDay \in Nat /\ MaxVersion \in Nat /\ MaxStamp \in Nat

VARIABLES
    today,
    stamp,       \* archives begun so far
    data,        \* data[f]: the version of a file, or Absent
    version,     \* versions written so far
    archives,    \* the archives in the backup directory
    op,          \* op[o]: the command of an operator
    overwritten, \* history: versions that a restore replaced
    late,        \* history: versions newer than a safety copy of their file
    backedUp     \* history: days of which there was a regular archive

backupVars == <<today, stamp, data, version, archives, op, overwritten, late, backedUp>>

Absent   == 0
Snapshot == [File -> 0..MaxVersion]
Nothing  == [f \in File |-> Absent]
Archive  == [stamp : 0..MaxStamp, day : 0..MaxDay, safety : BOOLEAN, files : Snapshot]

\* left: files still to copy or to put back; from: what a restore puts back;
\* doomed: stamps of the archives that prune() is to delete.
Ready == [at |-> "idle", restore |-> FALSE, stamp |-> 0, day |-> 0, left |-> {},
          files |-> Nothing, source |-> 0, from |-> Nothing, doomed |-> {}]

Running ==
    [at : {"idle", "copy", "prune", "delete", "unpack", "put"}, restore : BOOLEAN,
     stamp : 0..MaxStamp, day : 0..MaxDay, left : SUBSET File, files : Snapshot,
     source : 0..MaxStamp, from : Snapshot, doomed : SUBSET (0..MaxStamp)]

BackupTypeOK ==
    /\ today \in 0..MaxDay /\ stamp \in 0..MaxStamp /\ version \in 0..MaxVersion
    /\ data \in Snapshot
    /\ archives \in SUBSET Archive
    /\ op \in [Operator -> Running]
    /\ overwritten \in SUBSET (0..MaxVersion) /\ late \in SUBSET (0..MaxVersion)
    /\ backedUp \in SUBSET (0..MaxDay)

BackupInit ==
    /\ today = 0 /\ stamp = 0 /\ version = 0
    /\ data = Nothing
    /\ archives = {}
    /\ op = [o \in Operator |-> Ready]
    /\ overwritten = {} /\ late = {} /\ backedUp = {}

DayPasses ==
    /\ today < MaxDay /\ today' = today + 1
    /\ UNCHANGED <<stamp, data, version, archives, op, overwritten, late, backedUp>>

Existing(d) == {f \in File : d[f] # Absent}

(* The restore of o has its copy of f, or never will, and f is not yet put *)
(* back: what comes to f now is not in the safety copy.                    *)
Passed(o, f) ==
    /\ op[o].restore
    /\ op[o].at = "copy" => f \notin op[o].left
    /\ op[o].at = "put"  => f \in op[o].left

(* The agent writes a file: safety copies that have passed it miss that.   *)
Write(f) ==
    /\ version < MaxVersion
    /\ version' = version + 1
    /\ data' = [data EXCEPT ![f] = version + 1]
    /\ late' = IF \E o \in Operator : Passed(o, f) THEN late \cup {version + 1} ELSE late
    /\ UNCHANGED <<today, stamp, archives, op, overwritten, backedUp>>

-----------------------------------------------------------------------------
(* create_backup()                                                         *)

(* The name is taken from the clock first, then the files are listed.      *)
Staging == [Ready EXCEPT !.at = "copy", !.stamp = stamp + 1, !.day = today,
                         !.left = Existing(data)]

Begin(o) ==
    /\ op[o].at = "idle" /\ stamp < MaxStamp /\ Existing(data) # {}
    /\ stamp' = stamp + 1
    /\ op' = [op EXCEPT ![o] = Staging]
    /\ UNCHANGED <<today, data, version, archives, overwritten, late, backedUp>>

Copy(o, f) ==
    /\ op[o].at = "copy" /\ f \in op[o].left
    /\ op' = [op EXCEPT ![o].left = @ \ {f}, ![o].files[f] = data[f]]
    /\ UNCHANGED <<today, stamp, data, version, archives, overwritten, late, backedUp>>

(* The finished archive is renamed to its name.  What follows is prune(),  *)
(* nothing (--no-prune), or the restore that the archive secures.          *)
Publish(o) ==
    /\ op[o].at = "copy" /\ op[o].left = {}
    /\ archives' = archives \cup {[stamp |-> op[o].stamp, day |-> op[o].day,
                                   safety |-> op[o].restore, files |-> op[o].files]}
    /\ \/ /\ op[o].restore
          /\ op' = [op EXCEPT ![o].at = "unpack"]
          /\ UNCHANGED backedUp
       \/ /\ ~ op[o].restore
          /\ op' \in {[op EXCEPT ![o].at = "prune"], [op EXCEPT ![o] = Ready]}
          /\ backedUp' = backedUp \cup {op[o].day}
    /\ UNCHANGED <<today, stamp, data, version, overwritten, late>>

-----------------------------------------------------------------------------
(* prune()                                                                 *)

Week(d) == d \div DaysPerWeek
Largest(n, S) == {x \in S : Cardinality({y \in S : y > x}) < n}
NewestOf(S) == {a \in S : \A b \in S : b.stamp <= a.stamp}

\* Mutant: safety archives are pruned like the others.
AnyArchive == archives

Regular == {a \in archives : ~ a.safety}
Daily(days) == Largest(KeepDaily, days)
Older(days) == {d \in days : \A e \in Daily(days) : d < e}
Weekly(days) == Largest(KeepWeekly, {Week(d) : d \in Older(days)})

\* Mutant: the weeks of the days that are kept take places of the older ones.
KeptFewer ==
    LET days  == {a.day : a \in Regular}
        weeks == Largest(KeepWeekly, {Week(d) : d \in days})
    IN  {a \in Regular :
            \/ a.day \in Daily(days) /\ a \in NewestOf({b \in Regular : b.day = a.day})
            \/ /\ a.day \in Older(days) /\ Week(a.day) \in weeks
               /\ a \in NewestOf({b \in Regular : b.day \in Older(days)
                                                   /\ Week(b.day) = Week(a.day)})}

Kept ==
    LET days  == {a.day : a \in Regular}
        older == {a \in Regular : a.day \in Older(days)}
    IN  (UNION {NewestOf({a \in Regular : a.day = d}) : d \in Daily(days)})
        \cup (UNION {NewestOf({a \in older : Week(a.day) = w}) : w \in Weekly(days)})

Doomed == Regular \ Kept

List(o) ==
    /\ op[o].at = "prune"
    /\ op' = [op EXCEPT ![o].at = "delete", ![o].doomed = {a.stamp : a \in Doomed}]
    /\ UNCHANGED <<today, stamp, data, version, archives, overwritten, late, backedUp>>

(* Deleting one that is gone already is no error.                          *)
Delete(o) ==
    /\ op[o].at = "delete"
    /\ IF op[o].doomed = {}
       THEN op' = [op EXCEPT ![o] = Ready] /\ UNCHANGED archives
       ELSE \E s \in op[o].doomed :
               /\ op' = [op EXCEPT ![o].doomed = @ \ {s}]
               /\ archives' = {a \in archives : a.stamp # s}
    /\ UNCHANGED <<today, stamp, data, version, overwritten, late, backedUp>>

-----------------------------------------------------------------------------
(* restore_backup()                                                        *)

(* The archive is verified; a safety copy is made if there is any file.    *)
BeginRestore(o) ==
    /\ op[o].at = "idle"
    /\ \E a \in archives :
        IF Existing(data) # {}
        THEN /\ stamp < MaxStamp /\ stamp' = stamp + 1
             /\ op' = [op EXCEPT ![o] = [Staging EXCEPT !.restore = TRUE, !.source = a.stamp]]
        ELSE /\ UNCHANGED stamp
             /\ op' = [op EXCEPT ![o] = [Ready EXCEPT !.at = "unpack", !.restore = TRUE,
                                                      !.source = a.stamp]]
    /\ UNCHANGED <<today, data, version, archives, overwritten, late, backedUp>>

(* It is opened a second time, and may have been pruned: then it fails.    *)
Unpack(o) ==
    /\ op[o].at = "unpack"
    /\ \/ \E a \in archives :
            /\ a.stamp = op[o].source
            /\ op' = [op EXCEPT ![o].at = "put", ![o].from = a.files,
                                ![o].left = Existing(a.files)]
       \/ /\ \A a \in archives : a.stamp # op[o].source
          /\ op' = [op EXCEPT ![o] = Ready]
    /\ UNCHANGED <<today, stamp, data, version, archives, overwritten, late, backedUp>>

(* A file that is not in the archive is left alone.                        *)
PutBack(o, f) ==
    /\ op[o].at = "put" /\ f \in op[o].left
    /\ data' = [data EXCEPT ![f] = op[o].from[f]]
    /\ overwritten' = overwritten \cup ({data[f]} \ {Absent})
    /\ late' = IF \E q \in Operator \ {o} : Passed(q, f)
               THEN late \cup {op[o].from[f]} ELSE late
    /\ op' = [op EXCEPT ![o].left = @ \ {f}]
    /\ UNCHANGED <<today, stamp, version, archives, backedUp>>

Restored(o) ==
    /\ op[o].at = "put" /\ op[o].left = {}
    /\ op' = [op EXCEPT ![o] = Ready]
    /\ UNCHANGED <<today, stamp, data, version, archives, overwritten, late, backedUp>>

-----------------------------------------------------------------------------
(* The process dies, an exception ends the command, or the laptop sleeps   *)
(* for good: the staged files and the partial archive are of no use.       *)
Interrupt(o) ==
    /\ op[o].at # "idle"
    /\ op' = [op EXCEPT ![o] = Ready]
    /\ UNCHANGED <<today, stamp, data, version, archives, overwritten, late, backedUp>>

Command(o) ==
    \/ Begin(o) \/ Publish(o) \/ List(o) \/ Delete(o)
    \/ BeginRestore(o) \/ Unpack(o) \/ Restored(o) \/ Interrupt(o)
    \/ \E f \in File : Copy(o, f) \/ PutBack(o, f)

BackupNext ==
    \/ DayPasses
    \/ \E f \in File : Write(f)
    \/ \E o \in Operator : Command(o)

BackupSpec == BackupInit /\ [][BackupNext]_backupVars

-----------------------------------------------------------------------------
(* Properties.                                                             *)

(* "Restore snapshots the current state first, so a restore can be undone" *)
(* (backup.py:20): whatever a restore replaced is in a safety archive that *)
(* still exists, through interrupted, repeated and concurrent restores and *)
(* prunes; the exception is what was written while the restore was running *)
(* (backup.py:323).                                                        *)
RestoreCanBeUndone ==
    \A v \in overwritten \ late :
        \E a \in archives : a.safety /\ \E f \in File : a.files[f] = v

(* Of each of the last KeepDaily days that had a backup, and of each of    *)
(* the KeepWeekly most recent weeks before those, an archive is still      *)
(* there, whoever prunes from whatever list (backup.py:342).               *)
RetentionKept ==
    /\ \A d \in Daily(backedUp) : \E a \in Regular : a.day = d
    /\ \A w \in Weekly(backedUp) :
        \E a \in Regular : a.day \in Older(backedUp) /\ Week(a.day) = w

=============================================================================
