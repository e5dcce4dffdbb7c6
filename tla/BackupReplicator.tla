-------------------------- MODULE BackupReplicator --------------------------
(***************************************************************************)
(* Snapshot files of a database                                            *)
(* (libs/shared/src/effect/storage/sqlite/backup-replication.ts): taken on *)
(* demand or by a timer, kept up to a limit, found again after a restart.  *)
(* A snapshot is <<created, sequence>>, as its file name says.             *)
(***************************************************************************)
EXTENDS Integers, Sequences, FiniteSets, FiniteSetsExt, SequencesExt

CONSTANTS
  RetentionMaxSnapshots,
  IntervalConfigured,   \* intervalMillis is given
  AutoStart,
  MaxClock, MaxSnapshots   \* bounds: the clock, the snapshots ever taken

ASSUME BackupAssumption ==
  /\ RetentionMaxSnapshots \in Nat \ {0}
  /\ IntervalConfigured \in BOOLEAN /\ AutoStart \in BOOLEAN
  /\ MaxClock \in Nat /\ MaxSnapshots \in Nat

VARIABLES
  files,      \* snapshot files in the directory
  managed,    \* managedSnapshots, oldest first
  nextSequence,
  timer,      \* the interval is running
  database,   \* "open" or "closed"
  wallClock,
  latest,     \* the last snapshot taken, or <<0, 0>>
  wentBack    \* the clock was once set back

backupVars ==
  <<files, managed, nextSequence, timer, database, wallClock, latest, wentBack>>

Older(x, y) == x[1] < y[1] \/ (x[1] = y[1] /\ x[2] < y[2])
OlderThan(s, f) == {g \in s : Older(g, f)}
SortSnapshotRecords(s) ==
  [k \in 1..Cardinality(s) |-> CHOOSE f \in s : Cardinality(OlderThan(s, f)) = k - 1]

\* How many of a list are too many.
StaleCount(list) ==
  IF Len(list) <= RetentionMaxSnapshots THEN 0 ELSE Len(list) - RetentionMaxSnapshots

\* Faulty: the newest are taken for stale.
RetentionFromTheEnd(fs, list) ==
  [files |-> fs \ ToSet(SubSeq(list, RetentionMaxSnapshots + 1, Len(list))),
   managed |-> SubSeq(list, 1, Min({Len(list), RetentionMaxSnapshots}))]

\* applyRetention, on the files fs and the list of them.
ApplyRetention(fs, list) ==
  [files |-> fs \ ToSet(SubSeq(list, 1, StaleCount(list))),
   managed |-> SubSeq(list, StaleCount(list) + 1, Len(list))]

\* Opening the replicator: it adopts the files it finds, in the order of
\* their names, and counts on from their highest sequence.
Adopted(fs) == ApplyRetention(fs, SortSnapshotRecords(fs))
HighestSequence(fs) == Max({0} \cup {f[2] : f \in fs})

BackupInit ==
  /\ files = {} /\ managed = <<>> /\ nextSequence = 0
  /\ timer = (AutoStart /\ IntervalConfigured) /\ database = "open"
  /\ wallClock = 0 /\ latest = <<0, 0>> /\ wentBack = FALSE

------------------------------------------------------------------------------
Snapshot == <<wallClock, nextSequence + 1>>

Taken ==
  LET kept == ApplyRetention(files \cup {Snapshot}, Append(managed, Snapshot)) IN
  /\ nextSequence < MaxSnapshots
  /\ nextSequence' = nextSequence + 1
  /\ latest' = Snapshot
  /\ files' = kept.files /\ managed' = kept.managed

\* replicateNow. A failure (a closed database, a full disk) has used up its
\* sequence, and removed a file of the same name.
ReplicateNow ==
  /\ \/ database = "open" /\ Taken
     \/ /\ nextSequence < MaxSnapshots /\ nextSequence' = nextSequence + 1
        /\ files' = files \ {Snapshot} /\ UNCHANGED <<managed, latest>>
  /\ UNCHANGED <<timer, database, wallClock, wentBack>>

\* The interval stops itself on a closed database, not on another failure.
IntervalFires ==
  /\ timer /\ nextSequence < MaxSnapshots
  /\ IF database = "open"
     THEN /\ \/ Taken
             \/ nextSequence' = nextSequence + 1 /\ UNCHANGED <<files, managed, latest>>
          /\ UNCHANGED timer
     ELSE /\ nextSequence' = nextSequence + 1 /\ timer' = FALSE
          /\ UNCHANGED <<files, managed, latest>>
  /\ UNCHANGED <<database, wallClock, wentBack>>

StartReplication ==
  /\ timer' = IntervalConfigured
  /\ UNCHANGED <<files, managed, nextSequence, database, wallClock, latest, wentBack>>
StopReplication ==
  /\ timer' = FALSE
  /\ UNCHANGED <<files, managed, nextSequence, database, wallClock, latest, wentBack>>

CloseDatabase ==
  /\ database' = "closed"
  /\ UNCHANGED <<files, managed, nextSequence, timer, wallClock, latest, wentBack>>

RestartReplicator ==
  /\ files' = Adopted(files).files /\ managed' = Adopted(files).managed
  /\ nextSequence' = HighestSequence(files)
  /\ timer' = (AutoStart /\ IntervalConfigured) /\ database' = "open"
  /\ UNCHANGED <<wallClock, latest, wentBack>>

SetClock ==
  /\ wallClock' \in 0..MaxClock
  /\ wentBack' = (wentBack \/ wallClock' < wallClock)
  /\ UNCHANGED <<files, managed, nextSequence, timer, database, latest>>

BackupNext ==
  \/ ReplicateNow \/ IntervalFires \/ StartReplication \/ StopReplication
  \/ CloseDatabase \/ RestartReplicator \/ SetClock

BackupSpec == BackupInit /\ [][BackupNext]_backupVars

------------------------------------------------------------------------------
BackupTypeOK ==
  /\ files \subseteq (0..MaxClock) \X (1..MaxSnapshots)
  /\ timer \in BOOLEAN /\ nextSequence \in 0..MaxSnapshots

\* The directory holds the snapshots that are managed, never more than the
\* limit, through failures and restarts; the last one taken is among them,
\* unless the clock was set back and a restart sorted it among the old ones.
LatestBackupIsKept ==
  /\ files = ToSet(managed) /\ Len(managed) <= RetentionMaxSnapshots
  /\ latest # <<0, 0>> /\ ~wentBack => latest \in files

\* Sequences are not used twice while a file that has one is there.
SequencesAreFresh == \A f \in files : f[2] <= nextSequence

BackupIsRight == LatestBackupIsKept /\ SequencesAreFresh
==============================================================================
