-------------------------- MODULE DaemonSyncProofs --------------------------
(***************************************************************************)
(* Proofs about the sync cycle of DaemonSync, for any files, memories,     *)
(* routes, processes and limits, however cycles crash, fail and overlap    *)
(* with the pid updates that write stale states back.  The invariant says  *)
(* of every copy of a checkpoint, on disk or in a process, what the        *)
(* journal and the memories must have for it to be true.                   *)
(***************************************************************************)
EXTENDS DaemonSync, FiniteSetTheorems, WellFoundedInduction, TLAPS

-----------------------------------------------------------------------------
(* The inductive invariant                                                 *)

InCycle(p) == pc[p][1] \notin {"idle", "status"}
Collecting(p) == pc[p][1] \in {"collect", "append"}
\* The process has read the journal in this cycle.
Working(p) == pc[p][1] \notin {"idle", "status", "read"}

\* One cycle at a time; only a cycle that collects has entries of its own.
OneCycle ==
  \A p \in Proc :
    /\ InCycle(p) => holders = {p}
    /\ IsFiniteSet(batch[p])
    /\ ~Collecting(p) => batch[p] = {}

\* Entries are numbered and journaled once; the lines of a tailed file up to the
\* cursor of an entry are all there, and numbered in order.
Coherent(J) ==
  /\ \A d, e \in J : d.seq = e.seq \/ d.event = e.event => d = e
  /\ \A e \in J : e.event[1] \in TailFile =>
       /\ e.event[2] \in 1..e.cursor
       /\ \A i \in 1..e.cursor : \E d \in J : d.event = <<e.event[1], i>>
  /\ \A e \in J : e.event[1] \in PlanFile => e.event[2] = e.cursor
  /\ \A d, e \in J : d.event[1] = e.event[1] /\ d.event[2] < e.event[2] => d.seq < e.seq

\* No file is shorter than a cursor says.
Reached(J, len) == \A e \in J : e.cursor <= len[e.event[1]]
Within(cursor, len) == \A f \in File : cursor[f] <= len[f]

\* What a cursor has passed is in J.  A cycle that has no room for a plan's
\* snapshot records its digest all the same: of one plan this cannot happen.
Grounded(cursor, J) ==
  /\ \A f \in TailFile : \A i \in 1..cursor[f] : \E e \in J : e.event = <<f, i>>
  /\ Len(Plans) <= 1 =>
       \A f \in PlanFile : cursor[f] # 0 => \E e \in J : e.event = <<f, cursor[f]>>

\* What a delivery checkpoint has passed is in the journal, and in the memory.
Truthful(delivered, J, has) ==
  \A m \in Memory :
    /\ delivered[m] # 0 => \E e \in J : delivered[m] <= e.seq
    /\ \A e \in J :
         RouteOf[e.event[1]] = m /\ e.seq <= delivered[m] => e.event \in has[m]

\* A state numbers and reads on after the entries of J.
Ahead(s, J) == \A e \in J : e.seq < s.next /\ e.cursor <= s.cursor[e.event[1]]

Sound(s, J, len, has) ==
  Within(s.cursor, len) /\ Grounded(s.cursor, J) /\ Truthful(s.delivered, J, has)

JournalIsCoherent ==
  /\ Coherent(journal) /\ Reached(journal, length)
  /\ \E n \in Nat : \A e \in journal : e.seq <= n

\* A process works on entries that continue the journal.
CycleIsSound(p) ==
  LET J == journal \cup batch[p]
  IN /\ Coherent(J) /\ Reached(J, length)
     /\ \A d \in journal, e \in batch[p] : d.seq < e.seq
     /\ Within(mem[p].cursor, length) /\ Grounded(mem[p].cursor, J)
     /\ Truthful(mem[p].delivered, journal, ingested)
     /\ Working(p) => Ahead(mem[p], J)

IInv ==
  /\ TypeOK /\ OneCycle /\ JournalIsCoherent
  /\ Sound(saved, journal, length, ingested) /\ Sound(files, journal, length, ingested)
  /\ \A p \in Proc : CycleIsSound(p)
  /\ IngestedInOrder

-----------------------------------------------------------------------------
(* Maxima, and what is read from the disk                                  *)

\* A bounded set of numbers has a largest one: its least upper bound.
LEMMA MaxOfBounded ==
  ASSUME NEW S \in SUBSET Nat, S # {}, NEW n \in Nat, \A x \in S : x <= n
  PROVE  Max(S) \in S /\ \A x \in S : x <= Max(S)
<1> DEFINE Bounds == {b \in Nat : \A x \in S : x <= b}
           R == OpToRel(<, Nat)
<1>1. IsWellFoundedOn(R, Nat) /\ Bounds \subseteq Nat /\ n \in Bounds
  BY NatLessThanWellFounded
<1>2. PICK b \in Bounds : \A c \in Bounds : ~(<<c, b>> \in R)
  <2> HIDE DEF R, Bounds
  <2> QED
    BY <1>1, WFMin
<1>3. \A c \in Bounds : b <= c
  <2> SUFFICES ASSUME NEW c \in Bounds, c < b PROVE FALSE
    OBVIOUS
  <2>1. <<c, b>> \in R
    BY DEF OpToRel
  <2> QED
    BY <1>2, <2>1
<1>4. b \in S
  <2> SUFFICES ASSUME b \notin S PROVE FALSE
    OBVIOUS
  <2>1. \A x \in S : x <= b - 1
    OBVIOUS
  <2>2. PICK x \in S : TRUE
    OBVIOUS
  <2>3. b - 1 \in Nat /\ b - 1 < b
    BY <2>1, <2>2
  <2> QED
    BY <1>3, <2>1, <2>3
<1>5. \E m \in S : \A x \in S : m >= x
  BY <1>4
<1> QED
  BY <1>5 DEF Max

\* Of two numbers, the smaller.
LEMMA MinOfTwo ==
  ASSUME NEW a \in Int, NEW b \in Int
  PROVE  Min({a, b}) \in Int /\ Min({a, b}) <= a /\ Min({a, b}) <= b
         /\ (Min({a, b}) = a \/ Min({a, b}) = b)
<1>1. \E x \in {a, b} : \A y \in {a, b} : x <= y
  OBVIOUS
<1> QED
  BY <1>1 DEF Min

\* A tailed file is no plan.
LEMMA FilesAreApart ==
  /\ TailFile \cap PlanFile = {}
  /\ \A k \in DOMAIN Tails : Tails[k] \in TailFile
  /\ \A k \in DOMAIN Plans : Plans[k] \in PlanFile
<1>1. Tails \in Seq(TailFile) /\ Plans \in Seq(PlanFile) /\ IsInjective(Tails \o Plans)
  BY FileAssumption DEF Order
<1>2. ASSUME NEW i \in DOMAIN Tails, NEW j \in DOMAIN Plans, Tails[i] = Plans[j]
      PROVE  FALSE
  <2>1. /\ i \in 1..Len(Tails) /\ j \in 1..Len(Plans)
        /\ Len(Tails) \in Nat /\ Len(Plans) \in Nat
    BY <1>1
  <2>2. /\ i \in DOMAIN (Tails \o Plans) /\ Len(Tails) + j \in DOMAIN (Tails \o Plans)
        /\ (Tails \o Plans)[i] = Tails[i]
        /\ (Tails \o Plans)[Len(Tails) + j] = Plans[j]
    BY <1>1, <2>1
  <2> QED
    BY <1>1, <1>2, <2>1, <2>2 DEF IsInjective
<1> QED
  BY <1>2 DEF TailFile, PlanFile, Range

\* With unique numbers no entry is dropped.
LEMMA NothingNormalizedAway ==
  ASSUME NEW J \in SUBSET Entry, Coherent(J)
  PROVE  Normalized(J) = J
<1>1. ASSUME NEW e \in J PROVE Precedes(e, e)
  BY DEF Precedes, Entry, Event
<1> QED
  BY <1>1 DEF Normalized, Coherent

\* reconcileSyncStateWithJournalEntries moves a state past the entries it is given,
\* and each of its cursors stays or becomes that of an entry.
LEMMA ReconcileMovesPast ==
  ASSUME TypeOK, NEW s \in SyncState, NEW J \in SUBSET Entry, Coherent(J), Reached(J, length),
         NEW n \in Nat, \A e \in J : e.seq <= n
  PROVE  /\ Reconcile(s, J) \in SyncState
         /\ Reconcile(s, J).delivered = s.delivered
         /\ Ahead(Reconcile(s, J), J)
         /\ \A f \in File :
              \/ Reconcile(s, J).cursor[f] = s.cursor[f]
              \/ \E e \in J : e.event[1] = f /\ Reconcile(s, J).cursor[f] = e.cursor
<1> DEFINE nexts == {s.next} \cup {e.seq + 1 : e \in J}
           cursors(f) == {s.cursor[f]} \cup {e.cursor : e \in {d \in J : d.event[1] = f}}
           r == [s EXCEPT !.next = Max(nexts)]
           moved == [f \in File |-> Max(cursors(f))]
<1>1. /\ s.next \in Nat \ {0} /\ s.cursor \in [File -> Nat]
      /\ \A e \in J : e.seq \in Nat /\ e.cursor \in Nat /\ e.event[1] \in File
      /\ \A f \in File : length[f] \in Nat
  BY DEF SyncState, Entry, Event, TypeOK
<1>2. Max(nexts) \in Nat \ {0} /\ \A e \in J : e.seq < Max(nexts)
  <2>1. nexts \in SUBSET Nat /\ 0 \notin nexts /\ nexts # {}
    BY <1>1
  <2>2. s.next + n + 1 \in Nat /\ \A x \in nexts : x <= s.next + n + 1
    BY <1>1
  <2>3. Max(nexts) \in nexts /\ \A x \in nexts : x <= Max(nexts)
    <3> HIDE DEF nexts
    <3> QED
      BY <2>1, <2>2, MaxOfBounded
  <2>4. \A e \in J : e.seq + 1 \in nexts
    OBVIOUS
  <2>5. Max(nexts) \in Nat \ {0}
    BY <2>1, <2>3
  <2> HIDE DEF nexts
  <2> QED
    BY <1>1, <2>3, <2>4, <2>5
<1>3. ASSUME NEW f \in File
      PROVE  /\ Max(cursors(f)) \in Nat /\ Max(cursors(f)) \in cursors(f)
             /\ \A x \in cursors(f) : x <= Max(cursors(f))
  <2>1. cursors(f) \in SUBSET Nat /\ cursors(f) # {}
    BY <1>1
  <2>2. s.cursor[f] + length[f] \in Nat /\ \A x \in cursors(f) : x <= s.cursor[f] + length[f]
    BY <1>1 DEF Reached
  <2> HIDE DEF cursors
  <2> QED
    BY <2>1, <2>2, MaxOfBounded
<1>4. Reconcile(s, J) = [r EXCEPT !.cursor = moved]
  <2>1. Normalized(J) = J
    BY NothingNormalizedAway
  <2>2. ReconcileSequence(s, J) = r
    BY DEF ReconcileSequence
  <2>3. r.cursor = s.cursor
    BY DEF SyncState
  <2>4. ReconcileCursors(r, J) = [r EXCEPT !.cursor = moved]
    BY <2>3 DEF ReconcileCursors
  <2> HIDE DEF r, moved
  <2> QED
    BY <2>1, <2>2, <2>4 DEF Reconcile
<1>5. moved \in [File -> Nat] /\ \A f \in File : moved[f] = Max(cursors(f))
  BY <1>3
<1> HIDE DEF moved, nexts
<1>6. /\ Reconcile(s, J) \in SyncState /\ Reconcile(s, J).next = Max(nexts)
      /\ Reconcile(s, J).cursor = moved /\ Reconcile(s, J).delivered = s.delivered
  BY <1>2, <1>4, <1>5 DEF SyncState
<1>7. Ahead(Reconcile(s, J), J)
  <2>1. ASSUME NEW e \in J PROVE e.cursor <= moved[e.event[1]]
    <3>1. e.event[1] \in File /\ e.cursor \in cursors(e.event[1])
      BY <1>1
    <3> QED
      BY <1>3, <1>5, <3>1
  <2> QED
    BY <1>2, <1>6, <2>1 DEF Ahead
<1>8. ASSUME NEW f \in File
      PROVE  \/ moved[f] = s.cursor[f]
             \/ \E e \in J : e.event[1] = f /\ moved[f] = e.cursor
  BY <1>3, <1>5
<1> QED
  BY <1>6, <1>7, <1>8

\* What the result has passed is in the journal still.
LEMMA ReconcileIsGrounded ==
  ASSUME TypeOK, NEW s \in SyncState, NEW J \in SUBSET Entry, Coherent(J), Reached(J, length),
         NEW n \in Nat, \A e \in J : e.seq <= n,
         Within(s.cursor, length), Grounded(s.cursor, J)
  PROVE  Within(Reconcile(s, J).cursor, length) /\ Grounded(Reconcile(s, J).cursor, J)
<1> DEFINE c == Reconcile(s, J).cursor
<1>1. \A f \in File : c[f] = s.cursor[f] \/ \E e \in J : e.event[1] = f /\ c[f] = e.cursor
  BY ReconcileMovesPast
<1>2. \A e \in J : e.event = <<e.event[1], e.event[2]>>
  BY DEF Entry, Event
<1> HIDE DEF c
<1>3. Within(c, length)
  BY <1>1 DEF Within, Reached
<1>4. ASSUME NEW f \in TailFile, NEW i \in 1..c[f] PROVE \E e \in J : e.event = <<f, i>>
  <2>1. f \in File
    BY DEF File
  <2>2. CASE c[f] = s.cursor[f]
    BY <2>2 DEF Grounded
  <2>3. ASSUME NEW e \in J, e.event[1] = f, c[f] = e.cursor
        PROVE  \E d \in J : d.event = <<f, i>>
    BY <2>3 DEF Coherent
  <2> QED
    BY <1>1, <2>1, <2>2, <2>3
<1>5. ASSUME Len(Plans) <= 1, NEW f \in PlanFile, c[f] # 0
      PROVE  \E e \in J : e.event = <<f, c[f]>>
  <2>1. f \in File
    BY DEF File
  <2> QED
    BY <1>1, <1>2, <1>5, <2>1 DEF Coherent, Grounded
<1> QED
  BY <1>3, <1>4, <1>5 DEF Grounded, c

\* readSyncState takes the higher of two checkpoints, of which both are true.
LEMMA MergedIsSound ==
  ASSUME IInv
  PROVE  Merged \in SyncState /\ Sound(Merged, journal, length, ingested)
<1>1. saved \in SyncState /\ files \in Checkpoints
  BY DEF IInv, TypeOK
<1>2. /\ \A f \in File : Merged.cursor[f] \in {saved.cursor[f], files.cursor[f]}
      /\ \A m \in Memory : Merged.delivered[m] \in {saved.delivered[m], files.delivered[m]}
  BY DEF Merged, Larger
<1>3. Merged \in SyncState
  BY <1>1 DEF Merged, Larger, SyncState, Checkpoints
<1>4. Within(Merged.cursor, length)
  BY <1>2 DEF IInv, Sound, Within
<1>5. Grounded(Merged.cursor, journal)
  <2>1. \A f \in TailFile \cup PlanFile : f \in File
    BY DEF File
  <2>2. Grounded(saved.cursor, journal) /\ Grounded(files.cursor, journal)
    BY DEF IInv, Sound
  <2> DEFINE c == Merged.cursor
  <2>3. \A f \in File : c[f] = saved.cursor[f] \/ c[f] = files.cursor[f]
    BY <1>2
  <2> HIDE DEF c
  <2>4. ASSUME NEW f \in TailFile, NEW i \in 1..c[f] PROVE \E e \in journal : e.event = <<f, i>>
    <3>1. CASE c[f] = saved.cursor[f]
      BY ONLY <2>2, <2>4, <3>1 DEF Grounded
    <3>2. CASE c[f] = files.cursor[f]
      BY ONLY <2>2, <2>4, <3>2 DEF Grounded
    <3> QED
      BY <2>1, <2>3, <3>1, <3>2
  <2>5. ASSUME Len(Plans) <= 1, NEW f \in PlanFile, c[f] # 0
        PROVE  \E e \in journal : e.event = <<f, c[f]>>
    BY <2>1, <2>2, <2>3, <2>5 DEF Grounded
  <2> QED
    BY <2>4, <2>5 DEF Grounded, c
<1>6. Truthful(Merged.delivered, journal, ingested)
  <2>1. Truthful(saved.delivered, journal, ingested)
       /\ Truthful(files.delivered, journal, ingested)
    BY DEF IInv, Sound
  <2> QED
    BY <1>2, <2>1 DEF Truthful
<1> QED
  BY <1>3, <1>4, <1>5, <1>6 DEF Sound

\* The state a cycle starts from.
LEMMA RecoveredIsSound ==
  ASSUME IInv
  PROVE  Recovered \in SyncState /\ Sound(Recovered, journal, length, ingested) /\ Ahead(Recovered, journal)
<1>1. Merged \in SyncState /\ Sound(Merged, journal, length, ingested)
  BY MergedIsSound
<1>2. /\ TypeOK /\ journal \in SUBSET Entry /\ Coherent(journal) /\ Reached(journal, length)
  BY DEF IInv, TypeOK, JournalIsCoherent
<1>3. PICK n \in Nat : \A e \in journal : e.seq <= n
  BY DEF IInv, JournalIsCoherent
<1>4. Within(Merged.cursor, length) /\ Grounded(Merged.cursor, journal) /\ Truthful(Merged.delivered, journal, ingested)
  BY <1>1 DEF Sound
<1> HIDE DEF Merged
<1>5. /\ Reconcile(Merged, journal) \in SyncState
      /\ Reconcile(Merged, journal).delivered = Merged.delivered
      /\ Ahead(Reconcile(Merged, journal), journal)
  BY <1>1, <1>2, <1>3, ReconcileMovesPast
<1>6. /\ Within(Reconcile(Merged, journal).cursor, length)
      /\ Grounded(Reconcile(Merged, journal).cursor, journal)
  BY <1>1, <1>2, <1>3, <1>4, ReconcileIsGrounded
<1> QED
  BY <1>4, <1>5, <1>6 DEF Recovered, Sound

-----------------------------------------------------------------------------
(* What a reading adds                                                     *)

Lines(s, f, last, n, cursor) ==
  {[seq |-> s.next + i - 1, event |-> <<f, last + i>>, cursor |-> cursor] : i \in 1..n}

LEMMA GatherStores ==
  ASSUME TypeOK, NEW p \in Proc, NEW f \in File, NEW last \in Int, NEW n \in Nat,
         NEW cursor \in Nat, Gather(p, f, last, n, cursor)
  PROVE  /\ mem' \in [Proc -> SyncState]
         /\ mem'[p].next = mem[p].next + n
         /\ mem'[p].cursor = [mem[p].cursor EXCEPT ![f] = cursor]
         /\ mem'[p].delivered = mem[p].delivered
         /\ batch'[p] = batch[p] \cup Lines(mem[p], f, last, n, cursor)
         /\ DOMAIN batch' = Proc
         /\ \A q \in Proc \ {p} : mem'[q] = mem[q] /\ batch'[q] = batch[q]
<1> DEFINE moved == [mem[p].cursor EXCEPT ![f] = cursor]
           next == mem[p].next + n
           now == [mem[p] EXCEPT !.next = next, !.cursor = moved]
<1>1. /\ mem[p] \in SyncState /\ mem \in [Proc -> SyncState]
      /\ mem[p].cursor \in [File -> Nat] /\ mem[p].next \in Nat \ {0}
  BY DEF TypeOK, SyncState
<1>2. moved \in [File -> Nat] /\ next \in Nat \ {0}
  BY <1>1
<1>3. mem' = [mem EXCEPT ![p] = now]
  BY <1>1 DEF Gather, SyncState
<1> HIDE DEF moved, next
<1>4. /\ now \in SyncState /\ now.next = next
      /\ now.cursor = moved /\ now.delivered = mem[p].delivered
  BY <1>1, <1>2 DEF SyncState
<1> HIDE DEF now
<1>5. /\ batch'[p] = batch[p] \cup Lines(mem[p], f, last, n, cursor)
      /\ DOMAIN batch' = Proc
      /\ \A q \in Proc \ {p} : batch'[q] = batch[q]
  BY DEF Gather, Lines, TypeOK
<1> QED
  BY <1>1, <1>3, <1>4, <1>5 DEF moved, next

\* At most n entries.
LEMMA LinesAreFew ==
  ASSUME NEW s, NEW f, NEW last, NEW n \in Nat, NEW cursor
  PROVE  /\ IsFiniteSet(Lines(s, f, last, n, cursor))
         /\ Cardinality(Lines(s, f, last, n, cursor)) <= n
<1> DEFINE L == Lines(s, f, last, n, cursor)
           g == [i \in 1..n |->
                  [seq |-> s.next + i - 1, event |-> <<f, last + i>>, cursor |-> cursor]]
<1>1. g \in Surjection(1..n, L)
  BY DEF Lines, Surjection
<1>2. IsFiniteSet(1..n) /\ Cardinality(1..n) = n
  BY FS_Interval
<1> HIDE DEF g, L
<1> QED
  BY <1>1, <1>2, FS_Surjection DEF L

LEMMA LinesAreEntries ==
  ASSUME NEW s \in SyncState, NEW f \in File, NEW last \in Int, NEW n \in Nat,
         n > 0 => last >= 0, NEW cursor \in Nat
  PROVE  Lines(s, f, last, n, cursor) \subseteq Entry
BY DEF Lines, Entry, Event, SyncState

\* A reading of f goes on where the cursor stands: a tailed file by its next lines,
\* a plan by its version, if that is another.
Continues(s, len, f, last, n, cursor) ==
  \/ f \in TailFile /\ last = s.cursor[f] /\ cursor = last + n /\ cursor <= len[f]
  \/ /\ f \in PlanFile /\ last = len[f] - 1 /\ cursor = len[f] /\ n \in {0, 1}
     /\ n = 1 => s.cursor[f] # cursor
     /\ s.cursor[f] # cursor /\ Len(Plans) <= 1 => n = 1

\* Then its entries continue what was collected before.
LEMMA LinesContinue ==
  ASSUME NEW J \in SUBSET Entry, NEW s \in SyncState, NEW len \in [File -> Nat],
         NEW f \in File, NEW last \in Int, NEW n \in Nat, NEW cursor \in Nat,
         Continues(s, len, f, last, n, cursor),
         Coherent(J), Within(s.cursor, len), Grounded(s.cursor, J), Ahead(s, J)
  PROVE  /\ Coherent(J \cup Lines(s, f, last, n, cursor))
         /\ \A d \in J, e \in Lines(s, f, last, n, cursor) : d.seq < e.seq
<1> DEFINE L == Lines(s, f, last, n, cursor)
           K == J \cup L
<1>1. /\ s.next \in Nat \ {0} /\ s.cursor \in [File -> Nat]
      /\ \A e \in J : /\ e.seq \in Nat /\ e.cursor \in Nat
                      /\ e.event[1] \in File /\ e.event[2] \in Nat
                      /\ e.event = <<e.event[1], e.event[2]>>
  BY DEF SyncState, Entry, Event
<1>2. \A x \in L : \E i \in 1..n :
        /\ x = [seq |-> s.next + i - 1, event |-> <<f, last + i>>, cursor |-> cursor]
        /\ x.seq = s.next + i - 1 /\ x.event = <<f, last + i>> /\ x.cursor = cursor
        /\ x.event[1] = f /\ x.event[2] = last + i
  BY DEF Lines
<1>3. \A e \in J : e.seq < s.next /\ (n > 0 /\ e.event[1] = f => e.event[2] <= last)
  <2> SUFFICES ASSUME NEW e \in J
               PROVE  e.seq < s.next /\ (n > 0 /\ e.event[1] = f => e.event[2] <= last)
    OBVIOUS
  <2>1. e.seq < s.next /\ e.cursor <= s.cursor[e.event[1]]
    BY DEF Ahead
  <2>2. CASE f \in TailFile
    <3>1. last = s.cursor[f]
      BY <2>2, FilesAreApart DEF Continues
    <3>2. e.event[1] = f => e.event[2] <= e.cursor
      BY <1>1, <2>2 DEF Coherent
    <3> QED
      BY <1>1, <2>1, <3>1, <3>2
  <2>3. CASE f \in PlanFile
    <3>1. n > 0 => last = len[f] - 1 /\ s.cursor[f] # len[f]
      BY <2>3, FilesAreApart DEF Continues
    <3>2. e.event[1] = f => e.event[2] = e.cursor
      BY <2>3 DEF Coherent
    <3>3. s.cursor[f] <= len[f] /\ s.cursor[f] \in Nat /\ len[f] \in Nat
      BY <1>1 DEF Within
    <3> QED
      BY <1>1, <2>1, <3>1, <3>2, <3>3
  <2> QED
    BY <2>2, <2>3 DEF File
<1>4. \A d \in J, x \in L :
        d.seq < x.seq /\ (d.event[1] = f => d.event[2] < x.event[2])
  BY <1>1, <1>2, <1>3
<1>5. ASSUME NEW d \in K, NEW e \in K, d.seq = e.seq \/ d.event = e.event PROVE d = e
  <2>1. CASE d \in J /\ e \in J
    BY <1>5, <2>1 DEF Coherent
  <2>2. CASE d \in L /\ e \in L
    BY <1>1, <1>2, <1>5, <2>2
  <2>3. CASE d \in J /\ e \in L
    <3>1. d.seq # e.seq /\ d.event # e.event
      BY <1>1, <1>2, <1>4, <2>3
    <3> QED
      BY <1>5, <3>1
  <2>4. CASE d \in L /\ e \in J
    <3>1. d.seq # e.seq /\ d.event # e.event
      BY <1>1, <1>2, <1>4, <2>4
    <3> QED
      BY <1>5, <3>1
  <2> QED
    BY <2>1, <2>2, <2>3, <2>4
<1>6. ASSUME NEW d \in K, NEW e \in K, d.event[1] = e.event[1], d.event[2] < e.event[2]
      PROVE  d.seq < e.seq
  <2>1. CASE d \in J /\ e \in J
    BY <1>6, <2>1 DEF Coherent
  <2>2. CASE d \in L /\ e \in L
    BY <1>1, <1>2, <1>6, <2>2
  <2>3. CASE d \in J /\ e \in L
    BY <1>4, <2>3
  <2>4. CASE d \in L /\ e \in J
    <3>1. e.event[2] < d.event[2] /\ e.event[2] \in Int /\ d.event[2] \in Int
      BY <1>1, <1>2, <1>4, <1>6, <2>4
    <3> QED
      BY <1>6, <3>1
  <2> QED
    BY <2>1, <2>2, <2>3, <2>4
<1>7. ASSUME NEW e \in K, e.event[1] \in TailFile
      PROVE  /\ e.event[2] \in 1..e.cursor
             /\ \A i \in 1..e.cursor : \E d \in K : d.event = <<e.event[1], i>>
  <2>1. CASE e \in J
    BY <1>7, <2>1 DEF Coherent
  <2>2. CASE e \in L
    <3>1. e.event[1] = f /\ e.cursor = cursor /\ last = s.cursor[f] /\ cursor = last + n
      BY <1>2, <1>7, <2>2, FilesAreApart DEF Continues
    <3>2. last \in Nat /\ e.event[2] \in 1..e.cursor
      BY <1>1, <1>2, <2>2, <3>1
    <3>3. ASSUME NEW i \in 1..cursor PROVE \E d \in K : d.event = <<f, i>>
      <4>1. CASE i <= last
        <5>1. i \in 1..s.cursor[f] /\ f \in TailFile
          BY <1>7, <3>1, <3>2, <4>1
        <5> QED
          BY <5>1 DEF Grounded
      <4>2. CASE i > last
        <5> DEFINE j == i - last
        <5>1. j \in 1..n /\ last + j = i
          BY <3>1, <3>2, <4>2
        <5> HIDE DEF j
        <5>2. [seq |-> s.next + j - 1, event |-> <<f, last + j>>, cursor |-> cursor] \in L
          BY <5>1 DEF Lines
        <5> QED
          BY <5>1, <5>2
      <4> QED
        BY <3>2, <4>1, <4>2
    <3> QED
      BY <3>1, <3>2, <3>3
  <2> QED
    BY <2>1, <2>2
<1>8. ASSUME NEW e \in K, e.event[1] \in PlanFile PROVE e.event[2] = e.cursor
  <2>1. CASE e \in J
    BY <1>8, <2>1 DEF Coherent
  <2>2. CASE e \in L
    <3>1. f \in PlanFile
      BY <1>2, <1>8, <2>2
    <3>2. last = len[f] - 1 /\ cursor = len[f] /\ n \in {0, 1} /\ len[f] \in Nat
      BY <3>1, FilesAreApart DEF Continues
    <3> QED
      BY <1>2, <2>2, <3>2
  <2> QED
    BY <2>1, <2>2
<1> HIDE DEF L
<1>9. Coherent(K)
  BY <1>5, <1>6, <1>7, <1>8 DEF Coherent
<1> QED
  BY <1>4, <1>9 DEF L

\* And the state that has advanced over them is sound again.
LEMMA GatherIsSound ==
  ASSUME NEW J \in SUBSET Entry, NEW s \in SyncState, NEW len \in [File -> Nat],
         NEW f \in File, NEW last \in Int, NEW n \in Nat, NEW cursor \in Nat,
         Continues(s, len, f, last, n, cursor),
         Reached(J, len), Within(s.cursor, len), Grounded(s.cursor, J), Ahead(s, J),
         NEW t \in SyncState, t.next = s.next + n,
         t.cursor = [s.cursor EXCEPT ![f] = cursor]
  PROVE  /\ Reached(J \cup Lines(s, f, last, n, cursor), len)
         /\ Within(t.cursor, len)
         /\ Grounded(t.cursor, J \cup Lines(s, f, last, n, cursor))
         /\ Ahead(t, J \cup Lines(s, f, last, n, cursor))
<1> DEFINE L == Lines(s, f, last, n, cursor)
           K == J \cup L
<1>1. /\ s.next \in Nat \ {0} /\ s.cursor \in [File -> Nat]
      /\ \A e \in J : e.seq \in Nat /\ e.cursor \in Nat /\ e.event[1] \in File
  BY DEF SyncState, Entry, Event
<1>2. \A x \in L : \E i \in 1..n :
        x.seq = s.next + i - 1 /\ x.event = <<f, last + i>> /\ x.cursor = cursor
  BY DEF Lines
<1>3. ASSUME NEW i \in 1..n PROVE \E x \in L : x.event = <<f, last + i>>
  <2> DEFINE x == [seq |-> s.next + i - 1, event |-> <<f, last + i>>, cursor |-> cursor]
  <2>1. x \in L
    BY DEF Lines
  <2>2. x.event = <<f, last + i>>
    OBVIOUS
  <2> QED
    BY <2>1, <2>2
<1>4. \A g \in File : t.cursor[g] = IF g = f THEN cursor ELSE s.cursor[g]
  BY <1>1
<1>5. cursor <= len[f] /\ s.cursor[f] <= cursor /\ len[f] \in Nat /\ s.cursor[f] \in Nat
  BY <1>1 DEF Continues, Within
<1> HIDE DEF L
<1>6. Reached(K, len)
  BY <1>2, <1>5 DEF Reached
<1>7. Within(t.cursor, len)
  BY <1>4, <1>5 DEF Within
<1>8. Ahead(t, K)
  <2>1. ASSUME NEW e \in J PROVE e.seq < t.next /\ e.cursor <= t.cursor[e.event[1]]
    <3>1. e.seq < s.next /\ e.cursor <= s.cursor[e.event[1]]
      BY DEF Ahead
    <3> QED
      BY <1>1, <1>4, <1>5, <3>1
  <2>2. ASSUME NEW e \in L PROVE e.seq < t.next /\ e.cursor <= t.cursor[e.event[1]]
    BY <1>1, <1>2, <1>4
  <2> QED
    BY <2>1, <2>2 DEF Ahead
<1>9. ASSUME NEW g \in TailFile, NEW i \in 1..t.cursor[g]
      PROVE  \E e \in K : e.event = <<g, i>>
  <2>1. CASE g # f \/ i <= s.cursor[f]
    <3>1. g \in File
      BY DEF File
    <3>2. i \in 1..s.cursor[g]
      BY <1>1, <1>4, <2>1, <3>1
    <3> QED
      BY <3>2 DEF Grounded
  <2>2. CASE g = f /\ i > s.cursor[f]
    <3>1. last = s.cursor[f] /\ cursor = last + n /\ i \in 1..cursor
      BY <1>4, <2>2, FilesAreApart DEF Continues
    <3>2. i - last \in 1..n /\ last + (i - last) = i
      BY <1>1, <2>2, <3>1
    <3> QED
      BY <1>3, <2>2, <3>2
  <2> QED
    BY <1>5, <2>1, <2>2
<1>10. ASSUME Len(Plans) <= 1, NEW g \in PlanFile, t.cursor[g] # 0
       PROVE  \E e \in K : e.event = <<g, t.cursor[g]>>
  <2>1. g \in File
    BY DEF File
  <2>2. CASE g # f \/ s.cursor[f] = cursor
    BY <1>4, <1>10, <2>1, <2>2 DEF Grounded
  <2>3. CASE g = f /\ s.cursor[f] # cursor
    <3>1. n = 1 /\ cursor = last + 1
      BY <1>10, <2>3, FilesAreApart DEF Continues
    <3> QED
      BY <1>3, <1>4, <2>1, <2>3, <3>1
  <2> QED
    BY <2>2, <2>3
<1>11. Grounded(t.cursor, K)
  BY <1>9, <1>10 DEF Grounded
<1> QED
  BY <1>6, <1>7, <1>8, <1>11 DEF L

-----------------------------------------------------------------------------
(* The steps                                                               *)

\* Files grow, memories gain events: what was true of a state remains so.
LEMMA SoundStays ==
  ASSUME NEW s, s.cursor \in [File -> Nat], NEW J, NEW len \in [File -> Nat],
         NEW len2 \in [File -> Nat], \A f \in File : len[f] <= len2[f],
         NEW has, NEW has2, \A m \in Memory : has[m] \subseteq has2[m],
         Sound(s, J, len, has)
  PROVE  Sound(s, J, len2, has2)
<1>1. Within(s.cursor, len2)
  BY DEF Sound, Within
<1>2. Truthful(s.delivered, J, has2)
  BY DEF Sound, Truthful
<1> QED
  BY <1>1, <1>2 DEF Sound

\* A process that does not step.
LEMMA OthersStay ==
  ASSUME IInv, UNCHANGED journal, length' \in [File -> Nat],
         \A f \in File : length[f] <= length'[f],
         \A m \in Memory : ingested[m] \subseteq ingested'[m],
         NEW q \in Proc, mem'[q] = mem[q], batch'[q] = batch[q], Working(q)' => Working(q)
  PROVE  CycleIsSound(q)'
<1> DEFINE J == journal \cup batch[q]
<1>1. /\ mem[q].cursor \in [File -> Nat] /\ length \in [File -> Nat]
      /\ \A e \in J : e.cursor \in Nat /\ e.event[1] \in File
  BY DEF IInv, TypeOK, SyncState, Entry, Event
<1>2. /\ Coherent(J) /\ Reached(J, length)
      /\ \A d \in journal, e \in batch[q] : d.seq < e.seq
      /\ Within(mem[q].cursor, length) /\ Grounded(mem[q].cursor, J)
      /\ Truthful(mem[q].delivered, journal, ingested)
      /\ Working(q) => Ahead(mem[q], J)
  BY DEF IInv, CycleIsSound
<1> HIDE DEF J
<1>3. Reached(J, length') /\ Within(mem[q].cursor, length')
  BY <1>1, <1>2 DEF Reached, Within
<1>4. Truthful(mem[q].delivered, journal, ingested')
  BY <1>2 DEF Truthful
<1> QED
  BY <1>2, <1>3, <1>4 DEF CycleIsSound, J

\* A step of p that leaves the journal and the files alone.
LEMMA LocalStep ==
  ASSUME IInv, NEW p \in Proc, TypeOK', OneCycle', IngestedInOrder',
         UNCHANGED <<journal, length>>,
         \A m \in Memory : ingested[m] \subseteq ingested'[m],
         Sound(saved', journal, length, ingested), Sound(files', journal, length, ingested),
         \A q \in Proc \ {p} : mem'[q] = mem[q] /\ batch'[q] = batch[q] /\ pc'[q] = pc[q],
         CycleIsSound(p)'
  PROVE  IInv'
<1>1. /\ length \in [File -> Nat]
      /\ saved'.cursor \in [File -> Nat] /\ files'.cursor \in [File -> Nat]
  BY DEF IInv, TypeOK, SyncState, Checkpoints
<1>2. Sound(saved', journal, length, ingested') /\ Sound(files', journal, length, ingested')
  BY <1>1, SoundStays
<1>3. \A q \in Proc \ {p} : CycleIsSound(q)'
  BY <1>1, OthersStay DEF Working
<1> QED
  BY <1>2, <1>3 DEF IInv, JournalIsCoherent

\* A step of p goes on in its cycle, or ends it.
LEMMA OneCycleStays ==
  ASSUME IInv, NEW p \in Proc, NEW to, pc' = [pc EXCEPT ![p] = to],
         \/ holders' = holders /\ (to[1] \notin {"idle", "status"} => InCycle(p))
         \/ holders' = holders \ {p} /\ to[1] = "idle",
         IsFiniteSet(batch'[p]), to[1] \notin {"collect", "append"} => batch'[p] = {},
         \A q \in Proc \ {p} : batch'[q] = batch[q]
  PROVE  OneCycle'
<1>1. pc'[p] = to /\ \A q \in Proc \ {p} : pc'[q] = pc[q]
  BY DEF IInv, TypeOK
<1>2. ASSUME NEW q \in Proc, InCycle(q)' PROVE holders' = {q}
  <2>1. CASE q = p
    BY <1>1, <1>2, <2>1 DEF IInv, OneCycle, InCycle
  <2>2. CASE q # p
    BY <1>1, <1>2, <2>2 DEF IInv, OneCycle, InCycle
  <2> QED
    BY <2>1, <2>2
<1>3. ASSUME NEW q \in Proc PROVE IsFiniteSet(batch'[q]) /\ (~Collecting(q)' => batch'[q] = {})
  BY <1>1 DEF IInv, OneCycle, Collecting
<1> QED
  BY <1>2, <1>3 DEF OneCycle

\* A step that changes no state of a process, but where it is.
LEMMA EnterStep == ASSUME IInv, NEW p \in Proc, Enter(p) PROVE IInv'
<1>1. /\ pc[p] = <<"idle">> /\ pc' = [pc EXCEPT ![p] = <<"read">>]
      /\ holders = {} /\ holders' = {p}
      /\ UNCHANGED <<length, journal, saved, files, ingested, mem, batch, todo>>
  BY DEF Enter, Goto, Lock!Enter, disk
<1>2. TypeOK'
  BY <1>1 DEF IInv, TypeOK, PC
<1>3. pc'[p] = <<"read">> /\ \A q \in Proc \ {p} : pc'[q] = pc[q]
  BY <1>1 DEF IInv, TypeOK
<1>4. OneCycle'
  BY <1>1, <1>3 DEF IInv, OneCycle, InCycle, Collecting
<1>5. CycleIsSound(p)'
  BY <1>1, <1>3, OthersStay DEF Working, IInv, TypeOK
<1> QED
  BY <1>1, <1>2, <1>3, <1>4, <1>5, LocalStep DEF IInv, IngestedInOrder

LEMMA ReadStep == ASSUME IInv, NEW p \in Proc, Read(p) PROVE IInv'
<1>1. PICK to \in {<<"recovered", "state">>, <<"collect", 1>>} :
        /\ pc[p] = <<"read">> /\ pc' = [pc EXCEPT ![p] = to]
        /\ mem' = [mem EXCEPT ![p] = Recovered]
        /\ UNCHANGED <<length, journal, saved, files, ingested, holders, batch, todo>>
  BY DEF Read, Goto, Recovered, disk
<1>2. /\ Recovered \in SyncState
      /\ Sound(Recovered, journal, length, ingested) /\ Ahead(Recovered, journal)
  BY RecoveredIsSound
<1>3. Len(Order) \in Nat
  BY FileAssumption DEF Order
<1>4. to \in PC
  BY <1>3 DEF PC, Save
<1>5. TypeOK'
  BY <1>1, <1>2, <1>4 DEF IInv, TypeOK
<1>6. /\ mem'[p] = Recovered
      /\ \A q \in Proc \ {p} : mem'[q] = mem[q] /\ pc'[q] = pc[q]
  BY <1>1 DEF IInv, TypeOK
<1>7. batch[p] = {}
  BY <1>1 DEF IInv, OneCycle, Collecting
<1>8. OneCycle'
  <2>1. InCycle(p)
    BY <1>1 DEF InCycle
  <2>2. IsFiniteSet(batch[p])
    BY DEF IInv, OneCycle
  <2> QED
    BY <1>1, <1>7, <2>1, <2>2, OneCycleStays
<1>9. CycleIsSound(p)'
  <2>1. journal \cup batch[p] = journal
    BY <1>7
  <2> QED
    BY <1>1, <1>2, <1>6, <1>7, <2>1
    DEF CycleIsSound, Sound, IInv, JournalIsCoherent
<1> QED
  BY <1>1, <1>5, <1>6, <1>8, <1>9, LocalStep DEF IInv, IngestedInOrder

\* A reading, whatever the file.
LEMMA GatherStep ==
  ASSUME IInv, NEW p \in Proc, NEW f \in File, NEW last \in Int, NEW n \in Nat,
         NEW cursor \in Nat, n <= Room(p), Continues(mem[p], length, f, last, n, cursor),
         Gather(p, f, last, n, cursor), pc[p][1] = "collect",
         NEW to \in PC, to[1] = "collect", pc' = [pc EXCEPT ![p] = to],
         UNCHANGED <<length, journal, saved, files, ingested, holders, todo>>
  PROVE  IInv'
<1> DEFINE J == journal \cup batch[p]
           L == Lines(mem[p], f, last, n, cursor)
<1>1. /\ mem' \in [Proc -> SyncState]
      /\ mem'[p].next = mem[p].next + n
      /\ mem'[p].cursor = [mem[p].cursor EXCEPT ![f] = cursor]
      /\ mem'[p].delivered = mem[p].delivered
      /\ batch'[p] = batch[p] \cup L /\ DOMAIN batch' = Proc
      /\ \A q \in Proc \ {p} : mem'[q] = mem[q] /\ batch'[q] = batch[q]
  BY GatherStores DEF IInv
<1>2. /\ J \in SUBSET Entry /\ mem[p] \in SyncState /\ mem'[p] \in SyncState
      /\ length \in [File -> Nat] /\ MaxEvents \in Nat
      /\ Cardinality(batch[p]) <= MaxEvents /\ IsFiniteSet(batch[p])
  BY <1>1, LimitAssumption DEF IInv, TypeOK, OneCycle
<1>3. /\ Coherent(J) /\ Reached(J, length)
      /\ \A d \in journal, e \in batch[p] : d.seq < e.seq
      /\ Within(mem[p].cursor, length) /\ Grounded(mem[p].cursor, J)
      /\ Truthful(mem[p].delivered, journal, ingested)
      /\ Ahead(mem[p], J)
  BY DEF IInv, CycleIsSound, Working
<1>4. n > 0 => last >= 0
  <2>1. /\ mem[p].cursor[f] \in Nat /\ length[f] \in Nat
        /\ mem[p].cursor[f] <= length[f]
    BY <1>2, <1>3 DEF SyncState, Within
  <2>2. CASE f \in TailFile
    BY <2>1, <2>2, FilesAreApart DEF Continues
  <2>3. CASE f \in PlanFile
    <3>1. last = length[f] - 1 /\ (n > 0 => mem[p].cursor[f] # length[f])
      BY <2>3, FilesAreApart DEF Continues
    <3> QED
      BY <2>1, <3>1
  <2> QED
    BY <2>2, <2>3 DEF File
<1>5. L \subseteq Entry /\ IsFiniteSet(L) /\ Cardinality(L) <= n
  BY <1>2, <1>4, LinesAreEntries, LinesAreFew
<1> HIDE DEF J, L
<1>6. IsFiniteSet(batch'[p]) /\ Cardinality(batch'[p]) <= MaxEvents
  <2>1. /\ IsFiniteSet(batch[p] \cup L)
        /\ Cardinality(batch[p] \cup L) =
             Cardinality(batch[p]) + Cardinality(L) - Cardinality(batch[p] \cap L)
    BY <1>2, <1>5, FS_Union
  <2>2. IsFiniteSet(batch[p] \cap L)
    BY <1>2, FS_Intersection
  <2>3. /\ Cardinality(batch[p]) \in Nat /\ Cardinality(L) \in Nat
        /\ Cardinality(batch[p] \cap L) \in Nat
    BY <1>2, <1>5, <2>2, FS_CardinalityType
  <2> QED
    BY <1>1, <1>2, <1>5, <2>1, <2>3 DEF Room
<1>7. batch' \in [Proc -> SUBSET Entry] /\ \A q \in Proc : Cardinality(batch'[q]) <= MaxEvents
  <2>1. \A q \in Proc : batch'[q] \in SUBSET Entry
    BY <1>1, <1>5 DEF IInv, TypeOK
  <2>2. batch' = [q \in DOMAIN batch' |-> batch'[q]]
    BY DEF Gather, IInv, TypeOK
  <2> QED
    BY <1>1, <1>6, <2>1, <2>2 DEF IInv, TypeOK
<1>8. TypeOK'
  BY <1>1, <1>7 DEF IInv, TypeOK
<1>9. OneCycle'
  BY <1>1, <1>6, OneCycleStays DEF InCycle
<1>10. /\ Coherent(J \cup L) /\ \A d \in J, e \in L : d.seq < e.seq
       /\ Reached(J \cup L, length) /\ Within(mem'[p].cursor, length)
       /\ Grounded(mem'[p].cursor, J \cup L) /\ Ahead(mem'[p], J \cup L)
  <2>1. Coherent(J \cup L) /\ \A d \in J, e \in L : d.seq < e.seq
    BY <1>2, <1>3, LinesContinue DEF L
  <2> DEFINE s == mem[p]
             t == mem'[p]
  <2>2. /\ s \in SyncState /\ t \in SyncState /\ Continues(s, length, f, last, n, cursor)
        /\ t.next = s.next + n /\ t.cursor = [s.cursor EXCEPT ![f] = cursor]
        /\ Reached(J, length) /\ Within(s.cursor, length)
        /\ Grounded(s.cursor, J) /\ Ahead(s, J)
    BY <1>1, <1>2, <1>3
  <2>3. L = Lines(s, f, last, n, cursor)
    BY DEF L
  <2> HIDE DEF s, t
  <2>4. J \in SUBSET Entry /\ length \in [File -> Nat]
    BY <1>2
  <2>5. /\ Reached(J \cup Lines(s, f, last, n, cursor), length)
        /\ Within(t.cursor, length)
        /\ Grounded(t.cursor, J \cup Lines(s, f, last, n, cursor))
        /\ Ahead(t, J \cup Lines(s, f, last, n, cursor))
    BY <2>2, <2>4, GatherIsSound, Zenon
  <2> QED
    BY <2>1, <2>3, <2>5 DEF t
<1>11. CycleIsSound(p)'
  <2>1. journal' \cup batch'[p] = J \cup L
    BY <1>1 DEF J
  <2>2. \A d \in journal', e \in batch'[p] : d.seq < e.seq
    BY <1>1, <1>3, <1>10 DEF J
  <2> QED
    BY <1>1, <1>3, <1>10, <2>1, <2>2 DEF CycleIsSound
<1>12. \A q \in Proc \ {p} : mem'[q] = mem[q] /\ batch'[q] = batch[q] /\ pc'[q] = pc[q]
  BY <1>1 DEF IInv, TypeOK
<1> QED
  BY <1>8, <1>9, <1>11, <1>12, LocalStep DEF IInv, IngestedInOrder

\* The lengths of the orders, and the limit's room.
LEMMA Sizes ==
  ASSUME IInv, NEW p \in Proc
  PROVE  /\ Len(Tails) \in Nat /\ Len(Plans) \in Nat
         /\ Len(Order) = Len(Tails) + Len(Plans)
         /\ DOMAIN Tails = 1..Len(Tails) /\ DOMAIN Plans = 1..Len(Plans)
         /\ Room(p) \in Nat
<1>1. Tails \in Seq(TailFile) /\ Plans \in Seq(PlanFile)
  BY FileAssumption
<1>2. Len(Order) = Len(Tails) + Len(Plans)
  BY <1>1 DEF Order
<1>3. Cardinality(batch[p]) \in Nat
  BY FS_CardinalityType DEF IInv, OneCycle
<1>4. Cardinality(batch[p]) <= MaxEvents /\ MaxEvents \in Nat
  BY LimitAssumption DEF IInv, TypeOK
<1> QED
  BY <1>1, <1>2, <1>3, <1>4 DEF Room

LEMMA CollectTailStep == ASSUME IInv, NEW p \in Proc, CollectTail(p) PROVE IInv'
<1>1. PICK k \in DOMAIN Tails :
        LET f == Tails[k]
            at == mem[p].cursor[f]
            n == Min({length[f] - at, Room(p)})
        IN /\ pc[p] = <<"collect", k>> /\ pc' = [pc EXCEPT ![p] = <<"collect", k + 1>>]
           /\ Gather(p, f, at, n, at + n)
  BY DEF CollectTail, Goto
<1>2. UNCHANGED <<length, journal, saved, files, ingested, holders, todo>>
  BY DEF CollectTail, disk
<1> DEFINE f == Tails[k]
           at == mem[p].cursor[f]
           n == Min({length[f] - at, Room(p)})
           cursor == at + n
           to == <<"collect", k + 1>>
<1>3. f \in TailFile /\ f \in File
  BY FilesAreApart DEF File
<1>4. at \in Nat /\ length[f] \in Nat /\ at <= length[f] /\ Room(p) \in Nat
  <2>1. mem[p].cursor \in [File -> Nat] /\ length \in [File -> Nat]
    BY DEF IInv, TypeOK, SyncState
  <2>2. Room(p) \in Nat
    BY Sizes
  <2>3. Within(mem[p].cursor, length)
    BY DEF IInv, CycleIsSound
  <2> QED
    BY ONLY <1>3, <2>1, <2>2, <2>3 DEF Within
<1>5. n \in Nat /\ n <= length[f] - at /\ n <= Room(p)
  <2>1. length[f] - at \in Nat /\ length[f] - at \in Int /\ Room(p) \in Int
    BY ONLY <1>4
  <2>2. /\ n <= length[f] - at /\ n <= Room(p)
        /\ n = length[f] - at \/ n = Room(p)
    BY ONLY <2>1, MinOfTwo, Zenon
  <2> HIDE DEF n
  <2> QED
    BY ONLY <1>4, <2>1, <2>2
<1>6. Gather(p, f, at, n, cursor)
  BY <1>1
<1>7. to \in PC /\ to[1] = "collect"
  BY Sizes DEF PC
<1> HIDE DEF n
<1>8. at \in Int /\ cursor \in Nat /\ cursor <= length[f]
  BY <1>4, <1>5
<1>9. Continues(mem[p], length, f, at, n, cursor)
  BY <1>3, <1>8 DEF Continues
<1>10. pc[p][1] = "collect" /\ pc' = [pc EXCEPT ![p] = to]
  BY <1>1
<1> HIDE DEF f, at, cursor, to
<1> QED
  BY <1>2, <1>3, <1>5, <1>6, <1>7, <1>8, <1>9, <1>10, GatherStep, Zenon

LEMMA CollectPlanStep == ASSUME IInv, NEW p \in Proc, CollectPlan(p) PROVE IInv'
<1>1. PICK k \in DOMAIN Plans :
        LET f == Plans[k]
            changed == mem[p].cursor[f] # length[f]
        IN /\ k = 1 => Room(p) > 0
           /\ pc[p] = <<"collect", Len(Tails) + k>>
           /\ pc' = [pc EXCEPT ![p] = <<"collect", Len(Tails) + k + 1>>]
           /\ Gather(p, f, length[f] - 1, IF changed /\ Room(p) > 0 THEN 1 ELSE 0, length[f])
  BY DEF CollectPlan, Goto
<1>2. UNCHANGED <<length, journal, saved, files, ingested, holders, todo>>
  BY DEF CollectPlan, disk
<1> DEFINE f == Plans[k]
           n == IF mem[p].cursor[f] # length[f] /\ Room(p) > 0 THEN 1 ELSE 0
           last == length[f] - 1
           cursor == length[f]
           to == <<"collect", Len(Tails) + k + 1>>
<1>3. f \in PlanFile /\ f \in File
  BY FilesAreApart DEF File
<1>4. cursor \in Nat /\ last \in Int /\ Room(p) \in Nat
  BY <1>3, Sizes DEF IInv, TypeOK
<1>5. n \in {0, 1} /\ n \in Nat /\ n <= Room(p) /\ (n = 1 => mem[p].cursor[f] # cursor)
  BY <1>4
<1>6. mem[p].cursor[f] # cursor /\ Len(Plans) <= 1 => n = 1
  BY <1>1, Sizes
<1>7. Gather(p, f, last, n, cursor)
  BY <1>1
<1>8. to \in PC /\ to[1] = "collect"
  BY Sizes DEF PC
<1>9. Continues(mem[p], length, f, last, n, cursor)
  BY <1>3, <1>5, <1>6 DEF Continues
<1>10. pc[p][1] = "collect" /\ pc' = [pc EXCEPT ![p] = to]
  BY <1>1
<1> HIDE DEF f, n, last, cursor, to
<1> QED
  BY <1>2, <1>3, <1>4, <1>5, <1>7, <1>8, <1>9, <1>10, GatherStep, Zenon

LEMMA CollectedStep == ASSUME IInv, NEW p \in Proc, Collected(p) PROVE IInv'
<1>1. /\ pc[p][1] = "collect" /\ pc' = [pc EXCEPT ![p] = <<"append">>]
      /\ UNCHANGED <<length, journal, saved, files, ingested, holders, mem, batch, todo>>
  BY DEF Collected, Goto, disk
<1>2. TypeOK'
  BY <1>1 DEF IInv, TypeOK, PC
<1>3. OneCycle'
  BY <1>1, OneCycleStays DEF IInv, OneCycle, InCycle
<1>4. \A q \in Proc \ {p} : pc'[q] = pc[q]
  BY <1>1 DEF IInv, TypeOK
<1>5. CycleIsSound(p)'
  BY <1>1, OthersStay DEF Working, IInv, TypeOK
<1> QED
  BY <1>1, <1>2, <1>3, <1>4, <1>5, LocalStep DEF IInv, IngestedInOrder

\* Entries that continue the journal take nothing from what was true of it.
LEMMA JournalGrows ==
  ASSUME NEW J, NEW K, K \subseteq Entry, \A d \in J, e \in K : d.seq < e.seq,
         J \subseteq Entry, NEW s, s.delivered \in [Memory -> Nat], NEW len, NEW has,
         Sound(s, J, len, has)
  PROVE  Sound(s, J \cup K, len, has)
<1>1. Grounded(s.cursor, J \cup K)
  BY DEF Sound, Grounded
<1>2. ASSUME NEW m \in Memory, NEW e \in K PROVE ~(e.seq <= s.delivered[m])
  <2>1. e.seq \in Nat \ {0} /\ s.delivered[m] \in Nat /\ \A d \in J : d.seq \in Nat
    BY DEF Entry
  <2>2. s.delivered[m] # 0 => \E d \in J : s.delivered[m] <= d.seq
    BY DEF Sound, Truthful
  <2> QED
    BY <2>1, <2>2
<1>3. Truthful(s.delivered, J \cup K, has)
  BY <1>2 DEF Sound, Truthful
<1> QED
  BY <1>1, <1>3 DEF Sound

LEMMA AppendStep == ASSUME IInv, NEW p \in Proc, AppendJournal(p) PROVE IInv'
<1> DEFINE J == journal \cup batch[p]
           now == Reconcile(mem[p], J)
           to == <<"journaled", "state">>
<1>1. /\ pc[p] = <<"append">> /\ pc' = [pc EXCEPT ![p] = to]
      /\ journal' = J /\ mem' = [mem EXCEPT ![p] = now]
      /\ batch' = [batch EXCEPT ![p] = {}]
      /\ UNCHANGED <<length, saved, files, ingested, holders, todo>>
  BY DEF AppendJournal, Goto
<1>2. /\ TypeOK /\ J \in SUBSET Entry /\ batch[p] \subseteq Entry /\ journal \subseteq Entry
      /\ mem[p] \in SyncState /\ saved \in SyncState /\ files \in Checkpoints
  BY DEF IInv, TypeOK
<1>3. /\ Coherent(J) /\ Reached(J, length)
      /\ \A d \in journal, e \in batch[p] : d.seq < e.seq
      /\ Within(mem[p].cursor, length) /\ Grounded(mem[p].cursor, J)
      /\ Truthful(mem[p].delivered, journal, ingested) /\ Ahead(mem[p], J)
  BY <1>1 DEF IInv, CycleIsSound, Working
<1>4. mem[p].next \in Nat /\ \A e \in J : e.seq <= mem[p].next
  BY <1>2, <1>3 DEF Ahead, SyncState, Entry
<1> HIDE DEF J
<1>5. now \in SyncState /\ now.delivered = mem[p].delivered /\ Ahead(now, J)
  BY <1>2, <1>3, <1>4, ReconcileMovesPast
<1>6. Within(now.cursor, length) /\ Grounded(now.cursor, J)
  BY <1>2, <1>3, <1>4, ReconcileIsGrounded
<1> HIDE DEF now
<1>7. ASSUME NEW s, s.delivered \in [Memory -> Nat], Sound(s, journal, length, ingested)
      PROVE  Sound(s, J, length, ingested)
  BY <1>2, <1>3, <1>7, JournalGrows DEF J
<1>8. Sound(saved, J, length, ingested) /\ Sound(files, J, length, ingested)
  BY <1>2, <1>7 DEF IInv, SyncState, Checkpoints
<1>9. TypeOK'
  <2>1. to \in PC
    BY DEF PC, Save
  <2>2. Cardinality({}) = 0 /\ MaxEvents \in Nat
    BY FS_EmptySet, LimitAssumption
  <2> HIDE DEF to
  <2> QED
    BY <1>1, <1>2, <1>5, <2>1, <2>2 DEF TypeOK
<1>10. /\ pc'[p] = to /\ mem'[p] = now /\ batch'[p] = {}
       /\ \A q \in Proc \ {p} : pc'[q] = pc[q] /\ mem'[q] = mem[q] /\ batch'[q] = batch[q]
  BY <1>1, <1>2 DEF TypeOK
<1>11. OneCycle'
  <2>1. InCycle(p) /\ to[1] = "journaled"
    BY <1>1 DEF InCycle
  <2>2. IsFiniteSet(batch'[p]) /\ batch'[p] = {}
    BY <1>10, FS_EmptySet
  <2> HIDE DEF to
  <2> QED
    BY <1>1, <1>10, <2>1, <2>2, OneCycleStays
<1>12. JournalIsCoherent'
  BY <1>1, <1>3, <1>4 DEF JournalIsCoherent
<1>13. Truthful(now.delivered, J, ingested)
  <2> DEFINE s == [cursor |-> files.cursor, delivered |-> mem[p].delivered]
  <2>1. Sound(s, journal, length, ingested) /\ s.delivered \in [Memory -> Nat]
    BY <1>2, <1>3 DEF IInv, Sound, SyncState
  <2> HIDE DEF s
  <2>2. Sound(s, J, length, ingested)
    BY <1>7, <2>1
  <2> QED
    BY <1>5, <2>2 DEF Sound, s
<1>14. CycleIsSound(p)'
  <2>1. journal' \cup batch'[p] = J
    BY <1>1, <1>10
  <2> QED
    BY <1>1, <1>3, <1>5, <1>6, <1>10, <1>13, <2>1 DEF CycleIsSound
<1>15. ASSUME NEW q \in Proc \ {p} PROVE CycleIsSound(q)'
  <2>1. ~InCycle(q) /\ batch[q] = {} /\ ~Working(q)
    BY <1>1 DEF IInv, OneCycle, InCycle, Collecting, Working
  <2>2. ~Working(q)'
    BY <1>10, <2>1 DEF Working
  <2>3. journal' \cup batch'[q] = J /\ batch'[q] = {}
    BY <1>1, <1>10, <2>1
  <2>4. Sound(mem[q], journal, length, ingested) /\ mem[q].delivered \in [Memory -> Nat]
    <3>1. journal \cup batch[q] = journal
      BY <2>1
    <3> QED
      BY <3>1 DEF IInv, CycleIsSound, Sound, TypeOK, SyncState
  <2>5. Sound(mem[q], J, length, ingested)
    BY <1>7, <2>4
  <2> QED
    BY <1>1, <1>3, <1>10, <2>2, <2>3, <2>5 DEF CycleIsSound, Sound
<1> QED
  BY <1>1, <1>8, <1>9, <1>11, <1>12, <1>14, <1>15 DEF IInv, IngestedInOrder

\* A checkpoint is written by a process that holds no entries back.
LEMMA WrittenIsSound ==
  ASSUME IInv, NEW p \in Proc, ~Collecting(p)
  PROVE  mem[p] \in SyncState /\ Sound(mem[p], journal, length, ingested)
<1>1. batch[p] = {}
  BY DEF IInv, OneCycle
<1>2. journal \cup batch[p] = journal
  BY <1>1
<1> QED
  BY <1>2 DEF IInv, TypeOK, CycleIsSound, Sound

LEMMA SaveStateStep == ASSUME IInv, NEW p \in Proc, SaveState(p) PROVE IInv'
<1>1. PICK s \in Save :
        pc[p] = <<s, "state">> /\ pc' = [pc EXCEPT ![p] = <<s, "sources">>]
  BY DEF SaveState, Goto
<1>2. /\ saved' = mem[p]
      /\ UNCHANGED <<length, journal, files, ingested, holders, mem, batch, todo>>
  BY DEF SaveState
<1>3. mem[p] \in SyncState /\ Sound(mem[p], journal, length, ingested)
  BY <1>1, WrittenIsSound DEF Collecting, Save
<1>4. TypeOK'
  BY <1>1, <1>2, <1>3 DEF IInv, TypeOK, PC
<1>5. OneCycle'
  BY <1>1, <1>2, OneCycleStays DEF IInv, OneCycle, InCycle, Collecting, Save
<1>6. pc'[p] = <<s, "sources">> /\ \A q \in Proc \ {p} : pc'[q] = pc[q]
  BY <1>1 DEF IInv, TypeOK
<1>7. CycleIsSound(p)'
  BY <1>1, <1>2, <1>6, OthersStay DEF Working, IInv, TypeOK
<1> QED
  BY <1>2, <1>3, <1>4, <1>5, <1>6, <1>7, LocalStep DEF IInv, IngestedInOrder

LEMMA SaveSourcesStep == ASSUME IInv, NEW p \in Proc, SaveSources(p) PROVE IInv'
<1>1. PICK s \in Save :
        pc[p] = <<s, "sources">> /\ pc' = [pc EXCEPT ![p] = <<s, "memories">>]
  BY DEF SaveSources, Goto
<1>2. /\ files' = [files EXCEPT !.cursor = mem[p].cursor]
      /\ UNCHANGED <<length, journal, saved, ingested, holders, mem, batch, todo>>
  BY DEF SaveSources
<1>3. mem[p] \in SyncState /\ Sound(mem[p], journal, length, ingested)
  BY <1>1, WrittenIsSound DEF Collecting, Save
<1>4. /\ files' \in Checkpoints /\ files'.cursor = mem[p].cursor
      /\ files'.delivered = files.delivered
  BY <1>2, <1>3 DEF IInv, TypeOK, Checkpoints, SyncState
<1>5. Sound(files', journal, length, ingested)
  BY <1>3, <1>4 DEF IInv, Sound
<1>6. TypeOK'
  BY <1>1, <1>2, <1>4 DEF IInv, TypeOK, PC
<1>7. OneCycle'
  BY <1>1, <1>2, OneCycleStays DEF IInv, OneCycle, InCycle, Collecting, Save
<1>8. pc'[p] = <<s, "memories">> /\ \A q \in Proc \ {p} : pc'[q] = pc[q]
  BY <1>1 DEF IInv, TypeOK
<1>9. CycleIsSound(p)'
  BY <1>1, <1>2, <1>8, OthersStay DEF Working, IInv, TypeOK
<1> QED
  BY <1>2, <1>5, <1>6, <1>7, <1>8, <1>9, LocalStep DEF IInv, IngestedInOrder

\* A process that starts from nothing again claims nothing.
LEMMA ResetIsSound ==
  ASSUME IInv, NEW p \in Proc, UNCHANGED <<journal, length, ingested>>,
         mem'[p] = EmptySyncState, batch'[p] = {}, ~Working(p)'
  PROVE  EmptySyncState \in SyncState /\ CycleIsSound(p)'
<1> DEFINE s == EmptySyncState
<1>1. /\ s \in SyncState /\ \A f \in File : s.cursor[f] = 0
      /\ \A m \in Memory : s.delivered[m] = 0
  BY DEF EmptySyncState, SyncState
<1>2. /\ length \in [File -> Nat] /\ \A e \in journal : e.seq \in Nat \ {0}
      /\ TailFile \subseteq File /\ PlanFile \subseteq File
  BY DEF IInv, TypeOK, Entry, File
<1> HIDE DEF s
<1>3. Within(s.cursor, length)
  BY <1>1, <1>2 DEF Within
<1>4. Grounded(s.cursor, journal)
  BY <1>1, <1>2 DEF Grounded
<1>5. Truthful(s.delivered, journal, ingested)
  BY <1>1, <1>2 DEF Truthful
<1>6. journal' \cup batch'[p] = journal
  OBVIOUS
<1>7. mem'[p] = s
  BY DEF s
<1>8. Coherent(journal) /\ Reached(journal, length)
  BY DEF IInv, JournalIsCoherent
<1>9. CycleIsSound(p)'
  BY <1>3, <1>4, <1>5, <1>6, <1>7, <1>8 DEF CycleIsSound
<1> QED
  BY <1>1, <1>9 DEF s

LEMMA SaveMemoriesStep == ASSUME IInv, NEW p \in Proc, SaveMemories(p) PROVE IInv'
<1>1. PICK to \in {<<"collect", 1>>, <<"deliver">>, <<"leave">>, <<"idle">>} :
        /\ pc' = [pc EXCEPT ![p] = to]
        /\ to = <<"idle">> => mem' = [mem EXCEPT ![p] = EmptySyncState]
        /\ to # <<"idle">> => mem' = mem /\ InCycle(p) /\ Working(p)
  BY DEF SaveMemories, Goto, InCycle, Working
<1>2. /\ \E s \in Save : pc[p] = <<s, "memories">>
      /\ todo' = todo \/ todo' = [todo EXCEPT ![p] = Memory]
      /\ files' = [files EXCEPT !.delivered = mem[p].delivered]
      /\ UNCHANGED <<length, journal, saved, ingested, holders, batch>>
  BY DEF SaveMemories, Goto, Save
<1>3. mem[p] \in SyncState /\ Sound(mem[p], journal, length, ingested)
  BY <1>2, WrittenIsSound DEF Collecting, Save
<1>4. /\ files' \in Checkpoints /\ files'.cursor = files.cursor
      /\ files'.delivered = mem[p].delivered
  BY <1>2, <1>3 DEF IInv, TypeOK, Checkpoints, SyncState
<1>5. Sound(files', journal, length, ingested)
  BY <1>3, <1>4 DEF IInv, Sound
<1>6. EmptySyncState \in SyncState
  BY DEF EmptySyncState, SyncState
<1>7. to \in PC
  BY Sizes DEF PC
<1>8. TypeOK'
  BY <1>1, <1>2, <1>4, <1>6, <1>7 DEF IInv, TypeOK
<1>9. batch[p] = {} /\ IsFiniteSet(batch[p])
  BY <1>2 DEF IInv, OneCycle, Collecting, Save
<1>10. OneCycle'
  BY <1>1, <1>2, <1>9, OneCycleStays
<1>11. pc'[p] = to
       /\ \A q \in Proc \ {p} : mem'[q] = mem[q] /\ batch'[q] = batch[q] /\ pc'[q] = pc[q]
  BY <1>1, <1>2 DEF IInv, TypeOK
<1>12. CycleIsSound(p)'
  <2>1. CASE to = <<"idle">>
    <3>1. mem'[p] = EmptySyncState /\ batch'[p] = {} /\ ~Working(p)'
      BY <1>1, <1>2, <1>9, <1>11, <2>1 DEF Working, IInv, TypeOK
    <3> QED
      BY <1>2, <3>1, ResetIsSound
  <2>2. CASE to # <<"idle">>
    BY <1>1, <1>2, <2>2, OthersStay DEF IInv, TypeOK
  <2> QED
    BY <2>1, <2>2
<1> QED
  BY <1>2, <1>3, <1>5, <1>8, <1>10, <1>11, <1>12, LocalStep DEF IInv, IngestedInOrder

\* A cycle, or whatever was going on, ends: by its release of the lock, or early.
LEMMA EndStep ==
  ASSUME IInv, NEW p \in Proc, pc' = [pc EXCEPT ![p] = <<"idle">>],
         holders' = holders \ {p}, mem' = [mem EXCEPT ![p] = EmptySyncState],
         batch'[p] = {}, batch' \in [Proc -> SUBSET Entry],
         \A q \in Proc \ {p} : batch'[q] = batch[q], todo' \in [Proc -> SUBSET Memory],
         UNCHANGED <<length, journal, saved, files, ingested>>
  PROVE  IInv'
<1>1. /\ pc'[p] = <<"idle">> /\ mem'[p] = EmptySyncState
      /\ \A q \in Proc \ {p} : pc'[q] = pc[q] /\ mem'[q] = mem[q]
  BY DEF IInv, TypeOK
<1>2. EmptySyncState \in SyncState /\ CycleIsSound(p)'
  BY <1>1, ResetIsSound DEF Working
<1>3. MaxEvents \in Nat /\ Cardinality({}) = 0 /\ IsFiniteSet({})
  BY LimitAssumption, FS_EmptySet
<1>4. TypeOK'
  <2>1. pc' \in [Proc -> PC] /\ holders' \subseteq Proc
    BY DEF IInv, TypeOK, PC
  <2>2. mem' \in [Proc -> SyncState]
    BY <1>2 DEF IInv, TypeOK
  <2>3. ASSUME NEW q \in Proc PROVE Cardinality(batch'[q]) <= MaxEvents
    <3>1. batch'[q] = batch[q] \/ batch'[q] = {}
      OBVIOUS
    <3>2. Cardinality(batch[q]) <= MaxEvents
      BY DEF IInv, TypeOK
    <3>3. 0 <= MaxEvents
      BY <1>3
    <3> QED
      BY <1>3, <3>1, <3>2, <3>3
  <2> QED
    BY <2>1, <2>2, <2>3 DEF IInv, TypeOK
<1>5. OneCycle'
  BY <1>3, OneCycleStays
<1> QED
  BY <1>1, <1>2, <1>4, <1>5, LocalStep DEF IInv, IngestedInOrder

LEMMA LeaveStep == ASSUME IInv, NEW p \in Proc, Leave(p) PROVE IInv'
<1>1. /\ pc[p] = <<"leave">> /\ pc' = [pc EXCEPT ![p] = <<"idle">>]
      /\ holders' = holders \ {p} /\ mem' = [mem EXCEPT ![p] = EmptySyncState]
      /\ UNCHANGED <<length, journal, saved, files, ingested, batch, todo>>
  BY DEF Leave, Goto, Lock!Leave, disk
<1>2. batch[p] = {}
  BY <1>1 DEF IInv, OneCycle, Collecting
<1> QED
  BY <1>1, <1>2, EndStep DEF IInv, TypeOK

LEMMA AbortStep == ASSUME IInv, NEW p \in Proc, Abort(p) PROVE IInv'
BY EndStep DEF Abort, disk, IInv, TypeOK

\* Entries are ingested in the order of their numbers: the lines before a line are
\* there already, or among them.
LEMMA IngestKeepsOrder ==
  ASSUME IInv, NEW p \in Proc, NEW m \in Memory, NEW last \in Nat,
         ingested' = [ingested EXCEPT ![m] = @ \cup
           {e.event : e \in {d \in Pending(p, m) : d.seq <= last}}]
  PROVE  /\ ingested' \in [Memory -> SUBSET Event] /\ IngestedInOrder'
         /\ \A k \in Memory : ingested[k] \subseteq ingested'[k]
<1>1. Normalized(journal) = journal /\ journal \subseteq Entry /\ Coherent(journal)
  BY NothingNormalizedAway DEF IInv, TypeOK, JournalIsCoherent
<1>2. /\ ingested \in [Memory -> SUBSET Event]
      /\ \A e \in journal : /\ e.seq \in Nat /\ e.event \in Event /\ e.cursor \in Nat
                            /\ e.event = <<e.event[1], e.event[2]>>
  BY <1>1 DEF IInv, TypeOK, Entry, Event
<1>3. \A e : e \in Pending(p, m) <=>
        e \in journal /\ RouteOf[e.event[1]] = m /\ e.seq > mem[p].delivered[m]
  BY <1>1 DEF Pending
<1>4. /\ \A k \in Memory \ {m} : ingested'[k] = ingested[k]
      /\ ingested[m] \subseteq ingested'[m]
      /\ \A e \in Pending(p, m) : e.seq <= last => e.event \in ingested'[m]
      /\ \A ev \in ingested'[m] :
           ev \in ingested[m] \/ \E e \in Pending(p, m) : e.seq <= last /\ ev = e.event
  BY <1>2
<1>5. ingested' \in [Memory -> SUBSET Event]
  BY <1>2, <1>3
<1>6. mem[p].delivered[m] \in Nat /\ Truthful(mem[p].delivered, journal, ingested)
  BY DEF IInv, CycleIsSound, TypeOK, SyncState
<1>7. ASSUME NEW ev \in ingested'[m]
      PROVE  /\ RouteOf[ev[1]] = m
             /\ ev[1] \in TailFile => \A i \in 1..ev[2] : <<ev[1], i>> \in ingested'[m]
  <2>1. CASE ev \in ingested[m]
    BY <1>4, <2>1 DEF IInv, IngestedInOrder
  <2>2. ASSUME NEW e \in Pending(p, m), e.seq <= last, ev = e.event
        PROVE  /\ RouteOf[ev[1]] = m
               /\ ev[1] \in TailFile => \A i \in 1..ev[2] : <<ev[1], i>> \in ingested'[m]
    <3>1. e \in journal /\ RouteOf[ev[1]] = m
      BY <1>3, <2>2
    <3> SUFFICES ASSUME ev[1] \in TailFile, NEW i \in 1..ev[2]
                 PROVE  <<ev[1], i>> \in ingested'[m]
      BY <3>1
    <3>2. ev[2] \in 1..e.cursor /\ ev = <<ev[1], ev[2]>>
      BY <1>1, <1>2, <2>2, <3>1 DEF Coherent
    <3>3. i \in 1..e.cursor
      BY <1>2, <3>1, <3>2
    <3>4. PICK d \in journal : d.event = <<ev[1], i>>
      BY <1>1, <2>2, <3>1, <3>3 DEF Coherent
    <3>5. d.seq <= e.seq
      <4>1. CASE i = ev[2]
        BY <1>1, <1>2, <2>2, <3>1, <3>2, <3>4, <4>1 DEF Coherent
      <4>2. CASE i # ev[2]
        <5>1. d.event[1] = e.event[1] /\ d.event[2] < e.event[2]
          BY <2>2, <3>2, <3>4, <4>2
        <5> QED
          BY <1>1, <1>2, <3>1, <5>1 DEF Coherent
      <4> QED
        BY <4>1, <4>2
    <3>6. RouteOf[d.event[1]] = m /\ d.seq <= last
      BY <1>2, <2>2, <3>1, <3>4, <3>5
    <3>7. CASE d.seq <= mem[p].delivered[m]
      BY <1>4, <1>6, <3>4, <3>6, <3>7 DEF Truthful
    <3>8. CASE d.seq > mem[p].delivered[m]
      BY <1>3, <1>4, <3>4, <3>6, <3>8
    <3> QED
      BY <1>2, <1>6, <3>7, <3>8
  <2> QED
    BY <1>4, <2>1, <2>2
<1>8. IngestedInOrder'
  BY <1>4, <1>7 DEF IngestedInOrder, IInv
<1> QED
  BY <1>4, <1>5, <1>8

LEMMA DeliverStepKeeps == ASSUME IInv, NEW p \in Proc, NEW m \in Memory, Deliver(p, m) PROVE IInv'
<1> DEFINE seqs == {mem[p].delivered[m]} \cup {e.seq : e \in Pending(p, m)}
           top == Max(seqs)
           now == [mem[p] EXCEPT !.delivered[m] = top]
<1>1. /\ pc[p] = <<"deliver">> /\ todo' = [todo EXCEPT ![p] = @ \ {m}]
      /\ ingested' = [ingested EXCEPT ![m] = @ \cup {e.event : e \in Pending(p, m)}]
      /\ mem' = [mem EXCEPT ![p] = now]
      /\ UNCHANGED <<length, journal, saved, files, holders, pc, batch>>
  BY DEF Deliver, Served, Ingest, disk, IInv, TypeOK, SyncState
<1>2. PICK n \in Nat : \A e \in journal : e.seq <= n
  BY DEF IInv, JournalIsCoherent
<1>3. Normalized(journal) = journal /\ journal \subseteq Entry
  BY NothingNormalizedAway DEF IInv, TypeOK, JournalIsCoherent
<1>4. /\ mem[p] \in SyncState /\ mem \in [Proc -> SyncState]
      /\ mem[p].delivered \in [Memory -> Nat] /\ mem[p].delivered[m] \in Nat
      /\ \A e \in journal : e.seq \in Nat
  BY <1>3 DEF IInv, TypeOK, SyncState, Entry
<1>5. \A e : e \in Pending(p, m) <=>
        e \in journal /\ RouteOf[e.event[1]] = m /\ e.seq > mem[p].delivered[m]
  BY <1>3 DEF Pending
<1>6. top \in Nat /\ top \in seqs /\ \A x \in seqs : x <= top
  <2>1. seqs \in SUBSET Nat /\ seqs # {} /\ mem[p].delivered[m] + n \in Nat
        /\ \A x \in seqs : x <= mem[p].delivered[m] + n
    BY <1>2, <1>4, <1>5
  <2> HIDE DEF seqs
  <2> QED
    BY <2>1, MaxOfBounded
<1>7. top = mem[p].delivered[m] \/ \E e \in journal : top = e.seq
  BY <1>4, <1>5, <1>6
<1>8. mem[p].delivered[m] <= top /\ \A e \in Pending(p, m) : e.seq <= top
  BY <1>6
<1> HIDE DEF top
<1>9. now \in SyncState /\ now.next = mem[p].next /\ now.cursor = mem[p].cursor
      /\ now.delivered = [mem[p].delivered EXCEPT ![m] = top]
  BY <1>4, <1>6 DEF SyncState
<1> HIDE DEF now
<1>10. {d \in Pending(p, m) : d.seq <= top} = Pending(p, m)
  BY <1>8
<1>11. /\ ingested' \in [Memory -> SUBSET Event] /\ IngestedInOrder'
       /\ \A k \in Memory : ingested[k] \subseteq ingested'[k]
  BY <1>1, <1>6, <1>10, IngestKeepsOrder
<1>12. todo' \in [Proc -> SUBSET Memory]
  BY <1>1 DEF IInv, TypeOK
<1>13. TypeOK'
  BY <1>1, <1>4, <1>9, <1>11, <1>12 DEF IInv, TypeOK
<1>14. OneCycle'
  BY <1>1 DEF IInv, OneCycle, InCycle, Collecting
<1>15. mem'[p] = now /\ \A q \in Proc \ {p} : mem'[q] = mem[q]
  BY <1>1, <1>4
<1>16. Truthful(now.delivered, journal, ingested')
  <2>1. Truthful(mem[p].delivered, journal, ingested)
    BY DEF IInv, CycleIsSound
  <2>2. \A k \in Memory \ {m} : now.delivered[k] = mem[p].delivered[k]
    BY <1>4, <1>9
  <2>3. now.delivered[m] = top
    BY <1>4, <1>9
  <2>4. ASSUME NEW k \in Memory \ {m}
        PROVE  /\ now.delivered[k] # 0 => \E e \in journal : now.delivered[k] <= e.seq
               /\ \A e \in journal : RouteOf[e.event[1]] = k /\ e.seq <= now.delivered[k]
                    => e.event \in ingested'[k]
    BY <1>11, <2>1, <2>2 DEF Truthful
  <2>5. top # 0 => \E e \in journal : top <= e.seq
    BY <1>4, <1>7, <2>1 DEF Truthful
  <2>6. ASSUME NEW e \in journal, RouteOf[e.event[1]] = m, e.seq <= top
        PROVE  e.event \in ingested'[m]
    <3>1. CASE e.seq <= mem[p].delivered[m]
      BY <1>11, <2>1, <2>6, <3>1 DEF Truthful
    <3>2. CASE e.seq > mem[p].delivered[m]
      BY <1>1, <1>5, <2>6, <3>2 DEF IInv, TypeOK
    <3> QED
      BY <1>4, <3>1, <3>2
  <2> QED
    BY <2>3, <2>4, <2>5, <2>6 DEF Truthful
<1>17. CycleIsSound(p)'
  <2>1. Working(p) /\ Working(p)'
    BY <1>1 DEF Working
  <2> QED
    BY <1>1, <1>9, <1>15, <1>16, <2>1 DEF IInv, CycleIsSound, Ahead
<1> QED
  BY <1>1, <1>11, <1>13, <1>14, <1>15, <1>17, LocalStep DEF IInv

LEMMA DeliverFailsStep ==
  ASSUME IInv, NEW p \in Proc, NEW m \in Memory, DeliverFails(p, m) PROVE IInv'
<1>1. /\ todo' = [todo EXCEPT ![p] = @ \ {m}]
      /\ UNCHANGED <<length, journal, saved, files, holders, pc, mem, batch>>
  BY DEF DeliverFails, Served, disk
<1>2. PICK last \in {0} \cup {e.seq : e \in Pending(p, m)} :
        Ingest(m, {e \in Pending(p, m) : e.seq <= last})
  BY DEF DeliverFails
<1>3. last \in Nat
  BY DEF Pending, Normalized, IInv, TypeOK, Entry
<1>4. ingested' = [ingested EXCEPT ![m] = @ \cup
        {e.event : e \in {d \in Pending(p, m) : d.seq <= last}}]
  BY <1>2 DEF Ingest
<1>5. /\ ingested' \in [Memory -> SUBSET Event] /\ IngestedInOrder'
      /\ \A k \in Memory : ingested[k] \subseteq ingested'[k]
  BY <1>3, <1>4, IngestKeepsOrder
<1>6. todo' \in [Proc -> SUBSET Memory]
  BY <1>1 DEF IInv, TypeOK
<1>7. TypeOK'
  BY <1>1, <1>5, <1>6 DEF IInv, TypeOK
<1>8. OneCycle'
  BY <1>1 DEF IInv, OneCycle, InCycle, Collecting
<1>9. CycleIsSound(p)'
  BY <1>1, <1>5, OthersStay DEF Working, IInv, TypeOK
<1> QED
  BY <1>1, <1>5, <1>7, <1>8, <1>9, LocalStep DEF IInv

LEMMA DeliveredStep == ASSUME IInv, NEW p \in Proc, Delivered(p) PROVE IInv'
<1>1. /\ pc[p] = <<"deliver">> /\ pc' = [pc EXCEPT ![p] = <<"final", "state">>]
      /\ UNCHANGED <<length, journal, saved, files, ingested, holders, mem, batch, todo>>
  BY DEF Delivered, Goto, disk
<1>2. TypeOK'
  BY <1>1 DEF IInv, TypeOK, PC, Save
<1>3. OneCycle'
  BY <1>1, OneCycleStays DEF IInv, OneCycle, InCycle, Collecting
<1>4. \A q \in Proc \ {p} : pc'[q] = pc[q]
  BY <1>1 DEF IInv, TypeOK
<1>5. CycleIsSound(p)'
  BY <1>1, OthersStay DEF Working, IInv, TypeOK
<1> QED
  BY <1>1, <1>2, <1>3, <1>4, <1>5, LocalStep DEF IInv, IngestedInOrder

\* What a pid update writes back may be stale, but it is true.
LEMMA UpdateStatusStep == ASSUME IInv, NEW p \in Proc, UpdateStatus(p) PROVE IInv'
<1> DEFINE to == <<"status", "state">>
<1>1. /\ pc[p] = <<"idle">> /\ pc' = [pc EXCEPT ![p] = to]
      /\ mem' = [mem EXCEPT ![p] = Merged]
      /\ UNCHANGED <<length, journal, saved, files, ingested, holders, batch, todo>>
  BY DEF UpdateStatus, Goto, disk
<1>2. Merged \in SyncState /\ Sound(Merged, journal, length, ingested)
  BY MergedIsSound
<1>3. to \in PC /\ to[1] = "status"
  BY DEF PC, Save
<1> HIDE DEF to
<1>4. TypeOK'
  BY <1>1, <1>2, <1>3 DEF IInv, TypeOK
<1>5. batch[p] = {} /\ IsFiniteSet(batch[p])
  BY <1>1 DEF IInv, OneCycle, Collecting
<1>6. OneCycle'
  BY <1>1, <1>3, <1>5, OneCycleStays
<1>7. /\ pc'[p] = to /\ mem'[p] = Merged
      /\ \A q \in Proc \ {p} : mem'[q] = mem[q] /\ pc'[q] = pc[q]
  BY <1>1 DEF IInv, TypeOK
<1>8. CycleIsSound(p)'
  <2>1. journal \cup batch[p] = journal
    BY <1>5
  <2>2. ~Working(p)'
    BY <1>3, <1>7 DEF Working
  <2> QED
    BY <1>1, <1>2, <1>5, <1>7, <2>1, <2>2
    DEF CycleIsSound, Sound, IInv, JournalIsCoherent
<1> QED
  BY <1>1, <1>4, <1>6, <1>7, <1>8, LocalStep DEF IInv, IngestedInOrder

LEMMA GrowStep == ASSUME IInv, NEW f \in File, Grow(f) PROVE IInv'
<1>1. /\ length' = [length EXCEPT ![f] = @ + 1]
      /\ UNCHANGED <<journal, saved, files, ingested, holders, pc, mem, batch, todo>>
  BY DEF Grow, disk
<1>2. /\ length \in [File -> Nat] /\ length' \in [File -> Nat]
      /\ \A g \in File : length[g] <= length'[g]
  BY <1>1 DEF IInv, TypeOK
<1>3. TypeOK' /\ OneCycle' /\ IngestedInOrder'
  BY <1>1, <1>2
  DEF IInv, TypeOK, OneCycle, InCycle, Collecting, IngestedInOrder
<1>4. JournalIsCoherent'
  <2>1. \A e \in journal : e.cursor \in Nat /\ e.event[1] \in File
    BY DEF IInv, TypeOK, Entry, Event
  <2> QED
    BY <1>1, <1>2, <2>1 DEF IInv, JournalIsCoherent, Reached
<1>5. saved.cursor \in [File -> Nat] /\ files.cursor \in [File -> Nat]
  BY DEF IInv, TypeOK, SyncState, Checkpoints
<1>6. /\ Sound(saved, journal, length', ingested)
      /\ Sound(files, journal, length', ingested)
  BY <1>2, <1>5, SoundStays DEF IInv
<1>7. \A q \in Proc : CycleIsSound(q)'
  BY <1>1, <1>2, OthersStay DEF Working
<1> QED
  BY <1>1, <1>3, <1>4, <1>6, <1>7 DEF IInv

-----------------------------------------------------------------------------
(* The theorems                                                            *)

\* The invariant: true when nothing is collected yet, and kept by every step.
THEOREM SyncInductive == Spec => []IInv
<1>1. Init => IInv
  <2> SUFFICES ASSUME Init PROVE IInv
    OBVIOUS
  <2>1. EmptySyncState \in SyncState
    BY DEF EmptySyncState, SyncState
  <2>2. MaxEvents \in Nat /\ Cardinality({}) = 0 /\ IsFiniteSet({})
    BY LimitAssumption, FS_EmptySet
  <2>3. TypeOK
    BY <2>1, <2>2 DEF Init, TypeOK, NoCheckpoints, Checkpoints, PC
  <2>4. OneCycle
    BY <2>2 DEF Init, OneCycle, InCycle
  <2>5. JournalIsCoherent
    BY DEF Init, JournalIsCoherent, Coherent, Reached
  <2>6. ASSUME NEW s, s.cursor = [f \in File |-> 0], s.delivered = [m \in Memory |-> 0]
        PROVE  /\ Within(s.cursor, length) /\ Grounded(s.cursor, {})
               /\ Truthful(s.delivered, {}, ingested)
    <3>1. \A f \in TailFile \cup PlanFile : s.cursor[f] = 0
      BY <2>6 DEF File
    <3> QED
      BY <2>6, <3>1 DEF Init, Within, Grounded, Truthful
  <2>7. /\ saved.cursor = [f \in File |-> 0] /\ saved.delivered = [m \in Memory |-> 0]
        /\ files.cursor = [f \in File |-> 0] /\ files.delivered = [m \in Memory |-> 0]
    BY DEF Init, EmptySyncState, NoCheckpoints
  <2>8. Sound(saved, journal, length, ingested) /\ Sound(files, journal, length, ingested)
    BY <2>6, <2>7 DEF Init, Sound
  <2>9. ASSUME NEW p \in Proc PROVE CycleIsSound(p)
    <3>1. mem[p] = saved /\ batch[p] = {} /\ journal = {} /\ journal \cup batch[p] = {}
      BY DEF Init
    <3>2. ~Working(p)
      BY DEF Init, Working
    <3> QED
      BY <2>5, <2>6, <2>7, <3>1, <3>2 DEF CycleIsSound, JournalIsCoherent
  <2> QED
    BY <2>3, <2>4, <2>5, <2>8, <2>9 DEF Init, IInv, IngestedInOrder
<1>2. IInv /\ [Next]_vars => IInv'
  <2> SUFFICES ASSUME IInv, [Next]_vars PROVE IInv'
    OBVIOUS
  <2>1. CASE UNCHANGED vars
    BY <2>1 DEF vars, IInv, TypeOK, OneCycle, InCycle, Collecting, JournalIsCoherent,
       CycleIsSound, Working, IngestedInOrder
  <2>2. ASSUME NEW p \in Proc, Enter(p) PROVE IInv'
    BY <2>2, EnterStep
  <2>3. ASSUME NEW p \in Proc, Read(p) PROVE IInv'
    BY <2>3, ReadStep
  <2>4. ASSUME NEW p \in Proc, CollectStep(p) PROVE IInv'
    BY <2>4, CollectTailStep, CollectPlanStep, CollectedStep DEF CollectStep
  <2>5. ASSUME NEW p \in Proc, AppendJournal(p) PROVE IInv'
    BY <2>5, AppendStep
  <2>6. ASSUME NEW p \in Proc, SaveStep(p) PROVE IInv'
    BY <2>6, SaveStateStep, SaveSourcesStep, SaveMemoriesStep DEF SaveStep
  <2>7. ASSUME NEW p \in Proc, DeliverStep(p) PROVE IInv'
    BY <2>7, DeliveredStep, DeliverStepKeeps, DeliverFailsStep DEF DeliverStep
  <2>8. ASSUME NEW p \in Proc, Leave(p) PROVE IInv'
    BY <2>8, LeaveStep
  <2>9. ASSUME NEW p \in Proc, UpdateStatus(p) PROVE IInv'
    BY <2>9, UpdateStatusStep
  <2>10. ASSUME NEW p \in Proc, Abort(p) PROVE IInv'
    BY <2>10, AbortStep
  <2>11. ASSUME NEW f \in File, Grow(f) PROVE IInv'
    BY <2>11, GrowStep
  <2> QED
    BY <2>1, <2>2, <2>3, <2>4, <2>5, <2>6, <2>7, <2>8, <2>9, <2>10, <2>11
    DEF Next, CycleStep
<1> QED
  BY <1>1, <1>2, PTL DEF Spec

\* Every variable keeps its type, and no cycle collects more than the limit.
THEOREM SyncTypeCorrect == Spec => []TypeOK
BY SyncInductive, PTL DEF IInv

\* No two entries of the journal have one number or one event, whatever cycles were
\* cut short and whatever stale state a pid update wrote back.
THEOREM JournaledOnceHolds == Spec => []JournaledOnce
<1>1. IInv => JournaledOnce
  BY DEF IInv, JournalIsCoherent, Coherent, JournaledOnce
<1> QED
  BY <1>1, SyncInductive, PTL

\* Every line of a tailed file that the next cycle will not read again is in the
\* journal; with one plan file, so is the version of the plan its cursor names.
THEOREM NothingSkippedHolds ==
  /\ Spec => [](\A f \in TailFile : \A i \in 1..Recovered.cursor[f] : Journaled(f, i))
  /\ Len(Plans) <= 1 => (Spec => []NothingSkipped)
<1>1. ASSUME IInv
      PROVE  /\ \A f \in TailFile : \A i \in 1..Recovered.cursor[f] : Journaled(f, i)
             /\ Len(Plans) <= 1 => NothingSkipped
  <2>1. Normalized(journal) = journal
    BY <1>1, NothingNormalizedAway DEF IInv, TypeOK, JournalIsCoherent
  <2>2. Grounded(Recovered.cursor, journal)
    BY <1>1, RecoveredIsSound DEF Sound
  <2> QED
    BY <2>1, <2>2 DEF Grounded, Journaled, NothingSkipped
<1>2. Spec => [](\A f \in TailFile : \A i \in 1..Recovered.cursor[f] : Journaled(f, i))
  BY <1>1, SyncInductive, PTL
<1>3. ASSUME Len(Plans) <= 1 PROVE Spec => []NothingSkipped
  <2>1. IInv => NothingSkipped
    BY <1>1, <1>3
  <2> QED
    BY <2>1, SyncInductive, PTL
<1> QED
  BY <1>2, <1>3

\* No delivery checkpoint, of which the higher of two is believed, runs ahead of
\* the memory it is about.
THEOREM AcknowledgedIsIngestedHolds == Spec => []AcknowledgedIsIngested
<1>1. ASSUME IInv PROVE AcknowledgedIsIngested
  <2>1. Normalized(journal) = journal
    BY <1>1, NothingNormalizedAway DEF IInv, TypeOK, JournalIsCoherent
  <2>2. Truthful(Recovered.delivered, journal, ingested)
    BY <1>1, RecoveredIsSound DEF Sound
  <2> QED
    BY <2>1, <2>2 DEF Truthful, AcknowledgedIsIngested
<1> QED
  BY <1>1, SyncInductive, PTL

\* However deliveries fail and are repeated, a memory has the lines of a file
\* without gaps, and nothing that was routed elsewhere.
THEOREM IngestedInOrderHolds == Spec => []IngestedInOrder
BY SyncInductive, PTL DEF IInv
=============================================================================
