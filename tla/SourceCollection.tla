-------------------------- MODULE SourceCollection --------------------------
(***************************************************************************)
(* What the collector reads, and how far (apps/ums/src/daemon-sync.ts):    *)
(* the roots a configuration opens to it, the adapters of tailed files,    *)
(* JSON documents and plan files, the three places a cursor is kept in,    *)
(* and the journal.  The programs that own the files append to them, leave *)
(* a last record half written, truncate or rewrite them; a cycle may be    *)
(* cut at any of its writes.  DaemonSync has the cycle's interleavings and *)
(* its deliveries; here a cycle under the sync lock is one step.           *)
(*                                                                         *)
(* A record is what a line or an array element says; NoText is one that   *)
(* the adapter has no content for.  Path hints and labels are left out.    *)
(***************************************************************************)
EXTENDS Integers, Sequences, FiniteSetsExt, SequencesExt, Functions

CONSTANTS
  Files,        \* the source files, in the order a cycle reads them
  RootOf,       \* the root (a directory or a file) each is found under
  SourceOf,     \* the source of each root
  DefaultRoot,  \* the roots of a source nobody configured
  Folder,       \* the plan roots that are no file: the working directory
  Said,         \* records that say something
  NoText,      \* a record that does not
  Fragment,     \* what the first half of a record reads as
  FirstContent, \* what the files say before the first cycle
  SourceSetups, \* configurations a user may write
  Discoveries,        \* the sets of roots a discovery finds
  CycleLimit,   \* maxEventsPerCycle
  RecordCap,    \* records taken from one JSON document (500)
  NoDigest, NoSrcCursor,
  MaxRecords, MaxEdits, MaxCycles  \* bounds

SrcFile == Range(Files)
SrcRoot == DOMAIN SourceOf
SourceName == {"codex", "claude", "json", "jsonl", "plan"}
DefaultSources == {"codex", "claude", "plan"}
BindingStatus == {"none", "pending", "approved", "ignored"}

FileRecords == Seq(Said \cup {NoText})
FileContent == [records : FileRecords, partial : BOOLEAN]
SourceCursor ==
  [cursor : Nat, digest : {NoDigest} \cup FileContent \cup FileRecords, at : Nat]
SourceSetup ==
  [enabled : SUBSET SourceName, roots : SUBSET SrcRoot, bindings : [SrcRoot -> BindingStatus]]

ASSUME FilesAssumption ==
  /\ Files \in Seq(SrcFile) /\ IsInjective(Files) /\ RootOf \in [SrcFile -> SrcRoot]
  /\ SourceOf \in [SrcRoot -> SourceName] /\ DefaultRoot \cup Folder \subseteq SrcRoot
  /\ {NoText, Fragment} \cap Said = {} /\ {CycleLimit, RecordCap} \subseteq Nat \ {0}
  /\ FirstContent \in [SrcFile -> FileRecords] /\ MaxRecords \in Nat
  /\ \A f \in SrcFile : Len(FirstContent[f]) <= MaxRecords
  /\ SourceSetups \subseteq SourceSetup /\ NoSrcCursor \notin SourceCursor

VARIABLES
  setup,     \* the configuration: the enabled sources, the roots, the bindings
  content,   \* each file: its records, and whether the last is half written
  srcNext,   \* nextSequence of the state file
  srcSaved,  \* the cursors of the state file
  spots,     \* the cursors of the checkpoint files
  srcJournal, \* the journal,
  srcTorn,   \* whether its last line is half written
  srcNow, edits,
  (* history *)
  refused,   \* the roots the user said no to since they were last approved
  strayed,   \* the refused roots a cycle read all the same
  replaced,  \* the files that changed other than by growing
  missed,    \* the files of which a cycle may lose something: read with half a
             \* record, appended in part, plans beyond the limit
  resting,   \* whether the last cycle read everything and nothing changed since
  noisy,     \* the files that a cycle journaled something of all the same
  srcSaidLast \* how the last cycle ended

sourceVars == <<setup, content, srcNext, srcSaved, spots, srcJournal, srcTorn, srcNow,
                edits, refused, strayed, replaced, missed, resting, noisy, srcSaidLast>>
srcState == <<srcNext, srcSaved, spots, srcJournal, srcTorn, srcNow>>

SourceKind(f) == SourceOf[RootOf[f]]
NoCursors == [f \in SrcFile |-> NoSrcCursor]

Unconfigured ==
  [enabled |-> SourceName, roots |-> {}, bindings |-> [r \in SrcRoot |-> "none"]]

SourceInit ==
  /\ setup \in SourceSetups \cup {Unconfigured}
  /\ content = [f \in SrcFile |-> [records |-> FirstContent[f], partial |-> FALSE]]
  /\ srcNext = 1 /\ srcSaved = NoCursors /\ spots = NoCursors
  /\ srcJournal = <<>> /\ srcTorn = FALSE /\ srcNow = 0 /\ edits = 0
  /\ refused = {r \in SrcRoot : setup.bindings[r] = "ignored"}
  /\ strayed = {} /\ replaced = {} /\ missed = {}
  /\ resting = FALSE /\ noisy = {} /\ srcSaidLast = "none"

------------------------------------------------------------------------------
(* The roots of a source.                                                     *)

ApprovedRoots(s) == {r \in SrcRoot : SourceOf[r] = s /\ setup.bindings[r] = "approved"}
HasManagedBindings(s) == \E r \in SrcRoot : SourceOf[r] = s /\ setup.bindings[r] # "none"

\* Faulty: a source whose bindings are all refused falls back to its defaults.
DefaultsAnyway(s) ==
  LET explicit == ApprovedRoots(s) \cup {r \in setup.roots : SourceOf[r] = s}
  IN IF s \notin setup.enabled THEN {}
     ELSE IF explicit # {} THEN explicit
     ELSE IF s \notin DefaultSources THEN {}
     ELSE {r \in DefaultRoot : SourceOf[r] = s}

SourceRootsFor(s) ==
  LET explicit == ApprovedRoots(s) \cup {r \in setup.roots : SourceOf[r] = s}
  IN IF s \notin setup.enabled THEN {}
     ELSE IF explicit # {} THEN explicit
     ELSE IF HasManagedBindings(s) \/ s \notin DefaultSources THEN {}
     ELSE {r \in DefaultRoot : SourceOf[r] = s}

\* Faulty: discovery proposes every root anew.
ProposedAnew(r) == IF SourceOf[r] \in DefaultSources THEN "approved" ELSE "pending"
\* What discovery proposes for a root it finds on the disk.
ProposedStatus(r) ==
  IF setup.bindings[r] # "none" THEN setup.bindings[r]
  ELSE IF SourceOf[r] \in DefaultSources THEN "approved" ELSE "pending"

------------------------------------------------------------------------------
(* Reading one file from its cursor.  at is when the cursor was written.       *)

Records(f) ==
  LET all == content[f].records
  IN IF SourceKind(f) = "json" THEN SubSeq(all, 1, Min({Len(all), RecordCap})) ELSE all
\* A structured source with one bad record gives nothing at all.
Unreadable(f) == SourceKind(f) \in {"json", "jsonl"} /\ content[f].partial
TextAt(f, i) ==
  IF content[f].partial /\ i = Len(content[f].records)
    THEN IF SourceKind(f) = "claude" THEN Fragment ELSE NoText
    ELSE content[f].records[i]

\* The record reading goes on from: the first one when the cursor is past the
\* end, or when a structured file that was read to its end has changed.
StartOf(f, c) ==
  IF c = NoSrcCursor \/ c.cursor > Len(Records(f)) THEN 0
  ELSE IF /\ SourceKind(f) \in {"json", "jsonl"}
          /\ c.digest \notin {NoDigest, content[f]} /\ c.cursor = Len(Records(f))
    THEN 0 ELSE c.cursor

\* The records after the first so many that an event is made of.
Telling(f, from, to) == {i \in from + 1 .. to : TextAt(f, i) # NoText}

\* Faulty: reading that stops at the limit counts the record it stopped at.
StopTooFar(f, from, room) ==
  LET over == {i \in from + 1 .. Len(Records(f)) : Cardinality(Telling(f, from, i - 1)) >= room}
  IN IF over = {} THEN Len(Records(f)) ELSE Min(over)
\* The last record that is read when there is room for so many events.
StopOf(f, from, room) ==
  LET over == {i \in from + 1 .. Len(Records(f)) : Cardinality(Telling(f, from, i - 1)) >= room}
  IN IF over = {} THEN Len(Records(f)) ELSE Min(over) - 1

\* The numbers of a set in their order.
Ascending(S) ==
  [k \in 1 .. Cardinality(S) |-> CHOOSE i \in S : Cardinality({j \in S : j <= i}) = k]

SourceEvent(f, line, text) == [file |-> f, line |-> line, text |-> text]
CursorAt(n, digest, at) == [cursor |-> n, digest |-> digest, at |-> at]

TailFile(f, c, room, at) ==
  LET from == StartOf(f, c)
      to == StopOf(f, from, room)
      lines == Ascending(Telling(f, from, to))
      digest == IF SourceKind(f) \in {"json", "jsonl"} THEN content[f] ELSE NoDigest
  IN IF Unreadable(f)
       THEN [events |-> <<>>,
             cursor |-> CursorAt(IF SourceKind(f) = "jsonl" THEN Len(Records(f)) ELSE 0,
                                 digest, at)]
       ELSE [events |-> [k \in DOMAIN lines |->
                           SourceEvent(f, lines[k], TextAt(f, lines[k]))],
             cursor |-> CursorAt(to, digest, at)]

\* A plan file is one event, whenever its content is not the one last seen.
SnapshotPlan(f, c, at) ==
  LET all == content[f].records
  IN [events |-> IF all = <<>> \/ (c # NoSrcCursor /\ c.digest = all) THEN <<>>
                 ELSE <<SourceEvent(f, 1, all)>>,
      cursor |-> IF all = <<>> THEN c ELSE CursorAt(0, all, at)]

------------------------------------------------------------------------------
(* A cycle.                                                                   *)

\* Faulty: of two cursors the later one wins.
LaterCursor(a, b) == IF a = NoSrcCursor \/ (b # NoSrcCursor /\ b.at > a.at) THEN b ELSE a
\* Of two cursors of a file the larger wins, then the later, then the digest.
MergedCursor(a, b) ==
  IF b = NoSrcCursor THEN a
  ELSE IF a = NoSrcCursor THEN b
  ELSE IF b.cursor # a.cursor THEN IF b.cursor > a.cursor THEN b ELSE a
  ELSE IF b.at # a.at THEN IF b.at > a.at THEN b ELSE a
  ELSE IF b.digest \notin {a.digest, NoDigest} THEN b ELSE a
MergedCursors(one, other) == [f \in SrcFile |-> MergedCursor(one[f], other[f])]

\* The journal raises the cursors and the next sequence it was ahead of.
Raised(state, e) ==
  [next |-> Max({state.next, e.seq + 1}),
   cursors |-> [state.cursors EXCEPT ![e.event.file] = MergedCursor(@, e.cursor)]]
CaughtUp(state, entries) ==
  LET after[n \in 0 .. Len(entries)] ==
        IF n = 0 THEN state ELSE Raised(after[n - 1], entries[n])
  IN after[Len(entries)]

Resumed ==
  CaughtUp([next |-> srcNext, cursors |-> MergedCursors(srcSaved, spots)], srcJournal)

\* The plan source is entered while there is room after the sources before it.
PlanEntered(events) ==
  Cardinality({i \in DOMAIN events : SourceKind(events[i].file) # "plan"}) < CycleLimit

\* The files a cycle reads: those of the open roots while there is room.  Plan
\* files are all read once the plan source is entered, room or not.
OpenFile(f) == RootOf[f] \in SourceRootsFor(SourceKind(f))
RoomAfter(c) == CycleLimit - Len(c.events)
Reached(c, f) ==
  OpenFile(f) /\ (IF SourceKind(f) = "plan" THEN PlanEntered(c.events) ELSE RoomAfter(c) > 0)
FileRead(f, cursor, room) ==
  IF SourceKind(f) = "plan" THEN SnapshotPlan(f, cursor, srcNow)
  ELSE TailFile(f, cursor, room, srcNow)
WithFile(c, f, cursor) ==
  LET read == FileRead(f, cursor, RoomAfter(c))
  IN IF ~Reached(c, f) THEN c
     ELSE [events |-> SubSeq(c.events \o read.events, 1,
                             Min({CycleLimit, Len(c.events) + Len(read.events)})),
           updates |-> [c.updates EXCEPT ![f] = read.cursor],
           read |-> c.read \cup {f},
           dropped |-> c.dropped \cup (IF Len(read.events) > RoomAfter(c) THEN {f} ELSE {})]
CollectedFrom(cursors) ==
  LET after[n \in 0 .. Len(Files)] ==
        IF n = 0 THEN [events |-> <<>>, updates |-> cursors, read |-> {}, dropped |-> {}]
        ELSE WithFile(after[n - 1], Files[n], cursors[Files[n]])
  IN after[Len(Files)]

\* The files that end before their cursor.
Shorter(cursors) ==
  {f \in SrcFile : cursors[f] # NoSrcCursor /\ cursors[f].cursor > Len(Records(f))}
\* The working directory, which the plan source reads by default, is no file.
ReadsAFolder == SourceRootsFor("plan") \cap Folder # {}

\* How far a cycle gets: how many entries its append writes, whether it leaves
\* half of one behind, and which of its saves come after.  (An append cut at the
\* end of a line leaves what MendJournal leaves.)
Endings(n) ==
  {[kept |-> n, torn |-> FALSE, saved |-> s] : s \in {"nothing", "state", "all"}}
  \cup {[kept |-> k, torn |-> TRUE, saved |-> "nothing"] : k \in 0 .. n - 1}

\* The files some of whose entries were appended and some were not.
CutApart(entries, kept) ==
  {entries[k].event.file : k \in 1 .. kept}
    \cap {entries[k].event.file : k \in kept + 1 .. Len(entries)}

Entries(start, got) ==
  [i \in DOMAIN got.events |->
     [seq |-> start.next + i - 1, event |-> got.events[i],
      cursor |-> got.updates[got.events[i].file]]]

\* The cycle ends so: what it appended, and what it saved after that.
AppendEntries(entries, how) ==
  /\ srcJournal' = srcJournal \o SubSeq(entries, 1, how.kept)
  /\ srcTorn' = how.torn
SaveState(start, after, how) ==
  /\ srcNext' = IF how.saved = "nothing" THEN start.next ELSE after.next
  /\ srcSaved' = IF how.saved = "nothing" THEN start.cursors ELSE after.cursors
  /\ spots' = IF how.saved = "all" THEN after.cursors ELSE start.cursors
  /\ srcSaidLast' = IF how.saved = "all" THEN "done" ELSE "cut"

EndCycle(start, got, entries) ==
  \E how \in Endings(Len(entries)) :
    /\ AppendEntries(entries, how)
    /\ SaveState(start, CaughtUp([next |-> start.next + Len(entries),
                                  cursors |-> got.updates], srcJournal'), how)
    /\ resting' = (how.saved = "all" /\ Len(entries) < CycleLimit)
    /\ strayed' = strayed \cup ({RootOf[f] : f \in got.read} \cap (refused \ setup.roots))
    /\ noisy' = noisy \cup
         IF resting THEN {e.event.file : e \in Range(entries)} \ Shorter(start.cursors)
         ELSE {}
    /\ missed' = missed \cup got.dropped \cup {f \in got.read : content[f].partial}
                 \cup CutApart(entries, how.kept)
FailCycle ==
  /\ srcSaidLast' = "failed"
  /\ UNCHANGED <<srcJournal, srcTorn, strayed, missed, resting, noisy>>
\* What the journal was ahead by is saved before the sources are read.
SaveStart(start) ==
  srcNext' = start.next /\ srcSaved' = start.cursors /\ spots' = start.cursors

\* A torn journal fails the cycle as it is read, a folder as it is read for plans.
RunCycle(start, got) ==
  IF srcTorn THEN FailCycle /\ UNCHANGED <<srcNext, srcSaved, spots>>
  ELSE IF ReadsAFolder /\ PlanEntered(got.events) THEN FailCycle /\ SaveStart(start)
  ELSE EndCycle(start, got, Entries(start, got))
RunCycleFrom(start) == RunCycle(start, CollectedFrom(start.cursors))

SyncCycle ==
  /\ srcNow < MaxCycles
  /\ srcNow' = srcNow + 1
  /\ RunCycleFrom(Resumed)
  /\ UNCHANGED <<setup, content, edits, replaced, refused>>

------------------------------------------------------------------------------
(* The programs that own the files, and the user.                             *)

Edited(f, now) ==
  /\ edits < MaxEdits /\ edits' = edits + 1
  /\ content' = [content EXCEPT ![f] = now]
  /\ resting' = FALSE
  /\ UNCHANGED <<setup, srcState, refused, strayed, missed, noisy, srcSaidLast>>

\* A program appends a record, or the first half of one.
Grow(f) ==
  \E r \in Said \cup {NoText}, half \in BOOLEAN :
    /\ ~content[f].partial /\ Len(content[f].records) < MaxRecords
    /\ r = NoText => ~half /\ SourceKind(f) # "plan"
    /\ SourceKind(f) = "plan" => ~half
    /\ Edited(f, [records |-> Append(content[f].records, r), partial |-> half])
    /\ UNCHANGED replaced
\* It writes the second half.
Complete(f) ==
  /\ content[f].partial
  /\ Edited(f, [content[f] EXCEPT !.partial = FALSE]) /\ UNCHANGED replaced
\* It starts the file anew, or changes its first record.
Rewrite(f) ==
  /\ content[f].records # <<>>
  /\ \E r \in Said, rest \in {<<>>, Tail(content[f].records)} :
       /\ Edited(f, [records |-> <<r>> \o rest, partial |-> FALSE])
       /\ replaced' = replaced \cup {f}

SetUp(now) ==
  /\ edits < MaxEdits /\ edits' = edits + 1 /\ setup' = now /\ resting' = FALSE
  /\ UNCHANGED <<content, srcState, strayed, replaced, missed, noisy, srcSaidLast>>
\* The user approves or ignores a binding,
SetStatus ==
  \E r \in SrcRoot, status \in {"approved", "ignored"} :
    /\ setup.bindings[r] # "none"
    /\ SetUp([setup EXCEPT !.bindings[r] = status])
    /\ refused' = IF status = "ignored" THEN refused \cup {r} ELSE refused \ {r}
\* or onboards what discovery finds.
Onboard ==
  \E found \in Discoveries :
    /\ SetUp([setup EXCEPT !.bindings =
         [r \in SrcRoot |-> IF r \in found THEN ProposedStatus(r)
                           ELSE setup.bindings[r]]])
    /\ UNCHANGED refused

\* The operator cuts the half line off the journal.
MendJournal ==
  /\ srcTorn /\ srcTorn' = FALSE
  /\ UNCHANGED <<setup, content, srcNext, srcSaved, spots, srcJournal, srcNow, edits,
                 refused, strayed, replaced, missed, resting, noisy, srcSaidLast>>

SourceNext ==
  \/ SyncCycle \/ SetStatus \/ Onboard \/ MendJournal
  \/ \E f \in SrcFile : Grow(f) \/ Complete(f) \/ Rewrite(f)

SourceSpec == SourceInit /\ [][SourceNext]_sourceVars

SourceTypeOK ==
  /\ setup.enabled \subseteq SourceName /\ setup.roots \subseteq SrcRoot
  /\ setup.bindings \in [SrcRoot -> BindingStatus]
  /\ \A f \in SrcFile : Len(content[f].records) <= MaxRecords
  /\ srcNext \in Nat \ {0} /\ srcTorn \in BOOLEAN
  /\ \A f \in SrcFile :
       srcSaved[f] = NoSrcCursor \/ srcSaved[f].cursor \in 0 .. MaxRecords
  /\ replaced \cup missed \subseteq SrcFile /\ refused \cup strayed \subseteq SrcRoot
  /\ srcSaidLast \in {"none", "failed", "done", "cut"}

------------------------------------------------------------------------------
\* Where the next cycle starts.
CursorOf(f) == Resumed.cursors[f]
Journaled(event) == \E i \in DOMAIN srcJournal : srcJournal[i].event = event
OverCap(f) == SourceKind(f) = "json" /\ Len(content[f].records) > RecordCap

\* A cursor never passes a record that is not in the journal, whatever cycles
\* were cut, unless the file did not only grow, was read with half a record in
\* it, had its entries cut from one another, or is a plan beyond the limit.
CursorsArePaidFor ==
  \A f \in SrcFile \ (replaced \cup missed) :
    LET c == CursorOf(f)
    IN c # NoSrcCursor =>
         IF SourceKind(f) = "plan" THEN Journaled(SourceEvent(f, 1, c.digest))
         ELSE \A i \in 1 .. c.cursor :
                TextAt(f, i) # NoText => Journaled(SourceEvent(f, i, TextAt(f, i)))

\* No event of a file that only grew is journaled twice, whatever cycles were
\* cut, except of a document with more records than are taken from one, and of a
\* file of JSON lines that was read with half a line: that cursor is at the end.
NothingTwice ==
  \A i, j \in DOMAIN srcJournal :
    i < j /\ srcJournal[i].event = srcJournal[j].event =>
      LET f == srcJournal[i].event.file
      IN f \in replaced \/ OverCap(f) \/ (SourceKind(f) = "jsonl" /\ f \in missed)

\* Two entries never share a sequence, and the journal is written in order.
SequencesRise ==
  \A i, j \in DOMAIN srcJournal : i < j => srcJournal[i].seq < srcJournal[j].seq

\* Nothing is read from a root that the user ignored and did not approve since,
\* however often the sources are onboarded again.
RefusalsHold == strayed = {}

\* A cycle that follows a complete one journals nothing while nothing changes,
\* but for the files shorter than their cursor, which are read anew each time.
CollectionSettles == noisy = {}

\* What cycles collect of files that only grow, but for the ones each part excepts:
\* everything they pass, once, in order, of the roots they may read.
SourcesAreRight ==
  /\ CursorsArePaidFor /\ NothingTwice /\ SequencesRise
  /\ RefusalsHold /\ CollectionSettles

\* The plan source reads a PLAN.md, whatever was configured: no cycle fails
\* while the journal is whole.
PlanIsSnapshotted == srcSaidLast = "failed" => srcTorn
==============================================================================
