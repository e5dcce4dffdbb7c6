----------------------------- MODULE DaemonSync -----------------------------
(***************************************************************************)
(* One sync cycle of the local daemon (apps/ums/src/daemon-sync.ts):       *)
(* collect what the source files gained since their cursors, append it to  *)
(* the journal, checkpoint, deliver the journal to the memories,           *)
(* checkpoint again.  Cycles run in the daemon and in `ums sync`, one at a *)
(* time behind the sync lock; a cycle may end at any step, by a crash or   *)
(* an I/O error.  `ums sync-daemon` also rewrites the sync state outside   *)
(* the lock, to record its pid.                                            *)
(*                                                                         *)
(* A checkpoint exists twice: in the sync state file and in one file per   *)
(* source and per memory; whoever reads takes the higher value.  An event  *)
(* is a line of a tailed file, or a version of a plan file.  Lines without *)
(* content and the counters and timestamps of the state are left out.      *)
(***************************************************************************)
EXTENDS Integers, Sequences, FiniteSetsExt, Functions

CONSTANTS
  Tails,       \* the tailed source files, in the order they are read
  Plans,       \* the plan files, read after them
  Memory,      \* the configured memories
  RouteOf,     \* the memory that the events of a file are routed to
  NoMemory,    \* events that go to the review queue, or are dropped
  ReadOnly,    \* memories that refuse delivery
  Proc,        \* processes that run cycles: daemons,
  Updaters,    \* and CLI calls, which also rewrite the daemon pid
  MaxEvents,   \* maxEventsPerCycle
  MaxLength    \* bound: the lines or versions each file may get

TailFile == Range(Tails)
PlanFile == Range(Plans)
File == TailFile \cup PlanFile
Order == Tails \o Plans

ASSUME FileAssumption ==
  /\ Tails \in Seq(TailFile) /\ Plans \in Seq(PlanFile)
  /\ IsInjective(Order)
ASSUME RouteAssumption ==
  /\ NoMemory \notin Memory /\ RouteOf \in [File -> Memory \cup {NoMemory}]
  /\ ReadOnly \subseteq Memory
ASSUME LimitAssumption ==
  Updaters \subseteq Proc /\ MaxEvents \in Nat \ {0}
  /\ MaxLength \in [File -> Nat]

VARIABLES
  length,    \* lines of each tailed file, number of the version of each plan
  journal,   \* the lines of the journal, whose order does not matter: every
             \* reader sorts them
  saved,     \* the sync state file
  files,     \* the checkpoint files of the sources and of the memories
  ingested,  \* the events each memory has
  holders,   \* the processes inside the sync lock
  pc,        \* where each process is
  mem,       \* the sync state each process works on
  batch,     \* the entries a cycle collected
  todo       \* the memories a cycle has not served yet

vars == <<length, journal, saved, files, ingested, holders, pc, mem, batch, todo>>
disk == <<journal, saved, files>>

Lock == INSTANCE ExclusiveLock WITH Task <- Proc

Event == File \X Nat
Checkpoints == [cursor : [File -> Nat], delivered : [Memory -> Nat]]
SyncState == [next : Nat \ {0}, cursor : [File -> Nat], delivered : [Memory -> Nat]]
Entry == [seq : Nat \ {0}, event : Event, cursor : Nat]

\* The three saves of a cycle, and the one of a pid update, write the state file,
\* then the checkpoint files of the sources, then those of the memories.
Save == {"recovered", "journaled", "final", "status"}
PC == {<<"idle">>, <<"read">>, <<"append">>, <<"deliver">>, <<"leave">>}
      \cup {"collect"} \X (1..Len(Order) + 1)
      \cup Save \X {"state", "sources", "memories"}

NoCheckpoints ==
  [cursor |-> [f \in File |-> 0], delivered |-> [m \in Memory |-> 0]]
EmptySyncState ==
  [next |-> 1, cursor |-> [f \in File |-> 0], delivered |-> [m \in Memory |-> 0]]

Init ==
  /\ length = [f \in File |-> 0]
  /\ journal = {}
  /\ saved = EmptySyncState
  /\ files = NoCheckpoints
  /\ ingested = [m \in Memory |-> {}]
  /\ holders = {}
  /\ pc = [p \in Proc |-> <<"idle">>]
  /\ mem = [p \in Proc |-> EmptySyncState]
  /\ batch = [p \in Proc |-> {}]
  /\ todo = [p \in Proc |-> {}]

Goto(p, from, to) == pc[p] = from /\ pc' = [pc EXCEPT ![p] = to]

-----------------------------------------------------------------------------
(* What is read from the disk                                              *)

Larger(m, n) == IF m >= n THEN m ELSE n

\* readSyncState
Merged ==
  [next |-> saved.next,
   cursor |-> [f \in File |-> Larger(saved.cursor[f], files.cursor[f])],
   delivered |-> [m \in Memory |-> Larger(saved.delivered[m], files.delivered[m])]]

\* normalizeJournalEntries: of entries with one sequence number, the first in
\* the order of files and lines is kept.
FileIndex(f) == CHOOSE i \in DOMAIN Order : Order[i] = f
Precedes(d, e) ==
  LET i == FileIndex(d.event[1])  j == FileIndex(e.event[1])
  IN i < j \/ (i = j /\ d.event[2] <= e.event[2])
Normalized(entries) ==
  {e \in entries : \A d \in entries : d.seq = e.seq => Precedes(e, d)}

\* Faulty: only the sequence number, or only the cursors, are recovered.
ReconcileSequence(s, entries) ==
  [s EXCEPT !.next = Max({@} \cup {e.seq + 1 : e \in entries})]
ReconcileCursors(s, entries) ==
  [s EXCEPT !.cursor = [f \in File |->
     Max({@[f]} \cup {e.cursor : e \in {d \in entries : d.event[1] = f}})]]

\* reconcileSyncStateWithJournalEntries.  (Cursors of plans are digests, and the
\* later one wins: here, the higher version.)
Reconcile(s, entries) ==
  ReconcileCursors(ReconcileSequence(s, Normalized(entries)), Normalized(entries))

-----------------------------------------------------------------------------
(* collectSourceEvents reads one file after the other; they may grow in    *)
(* the meantime.                                                           *)

Room(p) == MaxEvents - Cardinality(batch[p])

\* The next n events of f, after the one numbered last, get the next sequence
\* numbers; each entry holds the cursor that its file has after this reading.
Gather(p, f, last, n, cursor) ==
  /\ batch' = [batch EXCEPT ![p] = @ \cup
       {[seq |-> mem[p].next + i - 1, event |-> <<f, last + i>>, cursor |-> cursor] :
          i \in 1..n}]
  /\ mem' = [mem EXCEPT ![p].next = @ + n, ![p].cursor[f] = cursor]

-----------------------------------------------------------------------------
(* Faulty variants of the steps below, which the properties must reject    *)

\* The sync lock does not exclude.
EnterShared(p) ==
  /\ Goto(p, <<"idle">>, <<"read">>)
  /\ holders' = holders \cup {p}
  /\ UNCHANGED <<length, disk, ingested, mem, batch, todo>>
\* The snapshot of a plan is taken whatever the limit.
CollectPlanUnlimited(p) ==
  /\ \E k \in DOMAIN Plans :
       LET f == Plans[k]
       IN /\ Goto(p, <<"collect", Len(Tails) + k>>, <<"collect", Len(Tails) + k + 1>>)
          /\ Gather(p, f, length[f] - 1, IF mem[p].cursor[f] # length[f] THEN 1 ELSE 0,
                    length[f])
  /\ UNCHANGED <<length, disk, ingested, holders, todo>>
\* The lock is released only by the cleanup of an error.
LeaveHolding(p) ==
  /\ Goto(p, <<"leave">>, <<"idle">>)
  /\ UNCHANGED <<length, disk, ingested, holders, mem, batch, todo>>
\* The state is saved before the journal is written.
CollectedSaving(p) ==
  /\ Goto(p, <<"collect", Len(Order) + 1>>, <<"append">>)
  /\ saved' = mem[p]
  /\ UNCHANGED <<length, journal, files, ingested, holders, mem, batch, todo>>

-----------------------------------------------------------------------------
(* The cycle                                                               *)

Enter(p) ==
  /\ Goto(p, <<"idle">>, <<"read">>)
  /\ Lock!Enter(p)
  /\ UNCHANGED <<length, disk, ingested, mem, batch, todo>>

\* A state that the journal is ahead of is saved first.
Read(p) ==
  /\ LET recovered == Reconcile(Merged, journal)
     IN /\ Goto(p, <<"read">>, IF recovered # Merged THEN <<"recovered", "state">>
                           ELSE <<"collect", 1>>)
        /\ mem' = [mem EXCEPT ![p] = recovered]
  /\ UNCHANGED <<length, disk, ingested, holders, batch, todo>>

\* tailCodexFile, tailClaudeFile: as many lines as the limit leaves room for.
CollectTail(p) ==
  /\ \E k \in DOMAIN Tails :
       LET f == Tails[k]
           at == mem[p].cursor[f]
           n == Min({length[f] - at, Room(p)})
       IN /\ Goto(p, <<"collect", k>>, <<"collect", k + 1>>)
          /\ Gather(p, f, at, n, at + n)
  /\ UNCHANGED <<length, disk, ingested, holders, todo>>

\* collectPlanEvents and appendWithLimit: the cursor records the digest of a
\* changed plan even when the limit leaves no room for its snapshot.
CollectPlan(p) ==
  /\ \E k \in DOMAIN Plans :
       LET f == Plans[k]
           changed == mem[p].cursor[f] # length[f]
       IN /\ k = 1 => Room(p) > 0
          /\ Goto(p, <<"collect", Len(Tails) + k>>, <<"collect", Len(Tails) + k + 1>>)
          /\ Gather(p, f, length[f] - 1, IF changed /\ Room(p) > 0 THEN 1 ELSE 0,
                    length[f])
  /\ UNCHANGED <<length, disk, ingested, holders, todo>>

\* The plans are not looked at when the tailed files exhausted the limit.
Collected(p) ==
  /\ \/ Goto(p, <<"collect", Len(Order) + 1>>, <<"append">>)
     \/ Room(p) = 0 /\ Goto(p, <<"collect", Len(Tails) + 1>>, <<"append">>)
  /\ UNCHANGED <<length, disk, ingested, holders, mem, batch, todo>>

\* appendJournalEntries; the journal is read again and reconciled with.
AppendJournal(p) ==
  /\ Goto(p, <<"append">>, <<"journaled", "state">>)
  /\ journal' = journal \cup batch[p]
  /\ mem' = [mem EXCEPT ![p] = Reconcile(@, journal')]
  /\ batch' = [batch EXCEPT ![p] = {}]
  /\ UNCHANGED <<length, saved, files, ingested, holders, todo>>

\* writeSyncState
SaveState(p) ==
  /\ \E s \in Save : Goto(p, <<s, "state">>, <<s, "sources">>)
  /\ saved' = mem[p]
  /\ UNCHANGED <<length, journal, files, ingested, holders, mem, batch, todo>>
SaveSources(p) ==
  /\ \E s \in Save : Goto(p, <<s, "sources">>, <<s, "memories">>)
  /\ files' = [files EXCEPT !.cursor = mem[p].cursor]
  /\ UNCHANGED <<length, journal, saved, ingested, holders, mem, batch, todo>>
SaveMemories(p) ==
  /\ \/ Goto(p, <<"recovered", "memories">>, <<"collect", 1>>) /\ UNCHANGED <<mem, todo>>
     \/ /\ Goto(p, <<"journaled", "memories">>, <<"deliver">>)
        /\ todo' = [todo EXCEPT ![p] = Memory]
        /\ UNCHANGED mem
     \/ Goto(p, <<"final", "memories">>, <<"leave">>) /\ UNCHANGED <<mem, todo>>
     \/ /\ Goto(p, <<"status", "memories">>, <<"idle">>)
        /\ mem' = [mem EXCEPT ![p] = EmptySyncState]
        /\ UNCHANGED todo
  /\ files' = [files EXCEPT !.delivered = mem[p].delivered]
  /\ UNCHANGED <<length, journal, saved, ingested, holders, batch>>

\* releaseSyncLock
Leave(p) ==
  /\ Goto(p, <<"leave">>, <<"idle">>)
  /\ Lock!Leave(p)
  /\ mem' = [mem EXCEPT ![p] = EmptySyncState]
  /\ UNCHANGED <<length, disk, ingested, batch, todo>>

-----------------------------------------------------------------------------
(* Delivery                                                                *)

Pending(p, m) ==
  {e \in Normalized(journal) :
     RouteOf[e.event[1]] = m /\ e.seq > mem[p].delivered[m]}
Ingest(m, entries) ==
  ingested' = [ingested EXCEPT ![m] = @ \cup {e.event : e \in entries}]
Served(p, m) == todo' = [todo EXCEPT ![p] = @ \ {m}]

\* Every chunk of the pending entries was accepted.
Deliver(p, m) ==
  /\ pc[p] = <<"deliver">> /\ m \in todo[p] /\ Served(p, m)
  /\ Pending(p, m) = {} \/ m \notin ReadOnly
  /\ Ingest(m, Pending(p, m))
  /\ mem' = [mem EXCEPT ![p].delivered[m] =
               Max({@} \cup {e.seq : e \in Pending(p, m)})]
  /\ UNCHANGED <<length, disk, holders, pc, batch>>

\* Faulty: chunks are sent at once; what was sent counts as delivered.
DeliverFailsUnordered(p, m) ==
  /\ pc[p] = <<"deliver">> /\ m \in todo[p] /\ Served(p, m)
  /\ \E sent \in SUBSET Pending(p, m) : Ingest(m, sent)
  /\ UNCHANGED <<length, disk, holders, pc, mem, batch>>
DeliverFailsAdvancing(p, m) ==
  /\ pc[p] = <<"deliver">> /\ m \in todo[p] /\ Served(p, m)
  /\ mem' = [mem EXCEPT ![p].delivered[m] =
               Max({@} \cup {e.seq : e \in Pending(p, m)})]
  /\ UNCHANGED <<length, disk, ingested, holders, pc, batch>>

\* A chunk was refused, or its answer lost: the chunks before it, and perhaps
\* the chunk itself, are ingested, and the checkpoint stays.
DeliverFails(p, m) ==
  /\ pc[p] = <<"deliver">> /\ m \in todo[p] /\ Served(p, m)
  /\ Pending(p, m) # {}
  /\ \E last \in {0} \cup {e.seq : e \in Pending(p, m)} :
       /\ m \in ReadOnly => last = 0
       /\ Ingest(m, {e \in Pending(p, m) : e.seq <= last})
  /\ UNCHANGED <<length, disk, holders, pc, mem, batch>>

Delivered(p) ==
  /\ todo[p] = {}
  /\ Goto(p, <<"deliver">>, <<"final", "state">>)
  /\ UNCHANGED <<length, disk, ingested, holders, mem, batch, todo>>

-----------------------------------------------------------------------------
(* Everything else                                                         *)

\* updateDaemonStatus, clearStaleDaemonPid: the state is read, and written back
\* with another daemon pid, outside the lock.
UpdateStatus(p) ==
  /\ p \in Updaters
  /\ Goto(p, <<"idle">>, <<"status", "state">>)
  /\ mem' = [mem EXCEPT ![p] = Merged]
  /\ UNCHANGED <<length, disk, ingested, holders, batch, todo>>

\* The process dies, or a step of it fails; its lock is released or reclaimed.
Abort(p) ==
  /\ pc[p] # <<"idle">>
  /\ pc' = [pc EXCEPT ![p] = <<"idle">>]
  /\ holders' = holders \ {p}
  /\ mem' = [mem EXCEPT ![p] = EmptySyncState]
  /\ batch' = [batch EXCEPT ![p] = {}]
  /\ todo' = [todo EXCEPT ![p] = {}]
  /\ UNCHANGED <<length, disk, ingested>>

\* A source gains a line, a plan is rewritten.
Grow(f) ==
  /\ length[f] < MaxLength[f]
  /\ length' = [length EXCEPT ![f] = @ + 1]
  /\ UNCHANGED <<disk, ingested, holders, pc, mem, batch, todo>>

-----------------------------------------------------------------------------
SaveStep(p) == SaveState(p) \/ SaveSources(p) \/ SaveMemories(p)
DeliverStep(p) ==
  Delivered(p) \/ \E m \in Memory : Deliver(p, m) \/ DeliverFails(p, m)
CollectStep(p) == CollectTail(p) \/ CollectPlan(p) \/ Collected(p)
CycleStep(p) ==
  Read(p) \/ CollectStep(p) \/ AppendJournal(p) \/ SaveStep(p) \/ DeliverStep(p)
  \/ Leave(p)

Next ==
  \/ \E p \in Proc : Enter(p) \/ CycleStep(p) \/ UpdateStatus(p) \/ Abort(p)
  \/ \E f \in File : Grow(f)

Spec == Init /\ [][Next]_vars

-----------------------------------------------------------------------------
TypeOK ==
  /\ length \in [File -> Nat]
  /\ journal \subseteq Entry
  /\ saved \in SyncState /\ files \in Checkpoints
  /\ ingested \in [Memory -> SUBSET Event]
  /\ holders \subseteq Proc
  /\ pc \in [Proc -> PC] /\ mem \in [Proc -> SyncState]
  /\ batch \in [Proc -> SUBSET Entry]
  /\ \A p \in Proc : Cardinality(batch[p]) <= MaxEvents
  /\ todo \in [Proc -> SUBSET Memory]

Journaled(f, i) == \E e \in Normalized(journal) : e.event = <<f, i>>
\* The state that the next cycle will start from, if all others end now.
Recovered == Reconcile(Merged, journal)

\* No cursor ever runs ahead of the journal: what the next cycle will not read
\* again, the journal has.
NothingSkipped ==
  /\ \A f \in TailFile : \A i \in 1..Recovered.cursor[f] : Journaled(f, i)
  /\ \A f \in PlanFile :
       Recovered.cursor[f] # 0 => Journaled(f, Recovered.cursor[f])

\* Two entries never have one sequence number, of which all readers would drop
\* one, nor one event: nothing is collected again after a crash.
JournaledOnce ==
  \A d, e \in journal : d.seq = e.seq \/ d.event = e.event => d = e

\* No delivery checkpoint runs ahead of the memory it is about.
AcknowledgedIsIngested ==
  \A m \in Memory : \A e \in Normalized(journal) :
    RouteOf[e.event[1]] = m /\ e.seq <= Recovered.delivered[m] =>
      e.event \in ingested[m]

\* A memory has the lines of a file in order, without gaps, and from its own
\* routes only.
IngestedInOrder ==
  \A m \in Memory : \A ev \in ingested[m] :
    /\ RouteOf[ev[1]] = m
    /\ ev[1] \in TailFile => \A i \in 1..ev[2] : <<ev[1], i>> \in ingested[m]

\* Crashes and errors end, and no destination refuses delivery for ever.
Recovers ==
  /\ <>[][\A p \in Proc : ~Abort(p)]_vars
  /\ <>[][\A p \in Proc, m \in Memory \ ReadOnly : ~DeliverFails(p, m)]_vars

\* Then every line reaches its memory.
EventuallyIngested ==
  Recovers =>
    []<>(\A f \in TailFile : \A i \in 1..length[f] :
           RouteOf[f] \in Memory \ ReadOnly => <<f, i>> \in ingested[RouteOf[f]])
=============================================================================
