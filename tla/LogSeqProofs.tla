---------------------------- MODULE LogSeqProofs ----------------------------
(* Proofs about LogSeq, for every set of labels, size of the history,       *)
(* count_bits and width of a word: the numbers it keeps fit into their      *)
(* fields, every entry of the history names a label, and the history is     *)
(* the end of the trace of marks.                                           *)
EXTENDS LogSeq, SequenceTheorems, FiniteSetTheorems, TLAPS

\* The ring of LogSeq: one of at least one slot.
LEMMA OneRing ==
  /\ history!Buffers = {0}
  /\ history!buflength \in Nat \ {0}
  /\ history!Slots = 0 .. history!buflength - 1
BY NumbersAssumption
   DEF history!Buffers, history!bufcount, history!buflength, history!Slots,
       LOGSEQ_DEFAULT_HISTORY_SIZE

Cells == [idx : Int, n : Int]

\* The ring's fields, as far as the proof needs their types.
RingShape ==
  /\ nodes \in [{0} -> [history!Slots -> Cells]]
  /\ counts \in [{0} -> Nat]
  /\ points_r \in [{0} -> history!Slots]

\* No two labels are equal.
LabelsDiffer == \A j, k \in 1 .. Len(labels) : labels[j] = labels[k] => j = k

\* Used or not, a slot holds 0, as it does at first, or the number of a label.
SlotsNumbered == \A p \in history!Slots : nodes[0][p].idx = 0 \/ nodes[0][p].idx < Len(labels)

\* A history with entries has labels.
LabelsFirst == labels = <<>> => counts[0] = 0

IInv ==
  /\ labels \in Seq(Names)
  /\ RingShape
  /\ LabelsDiffer
  /\ SlotsNumbered
  /\ LabelsFirst

-----------------------------------------------------------------------------
\* A position of the ring, whatever is added to the read position.
LEMMA SlotOf ==
  ASSUME RingShape, NEW c \in Nat
  PROVE  (points_r[0] + c) % history!buflength \in history!Slots
<1>1. points_r[0] + c \in Nat
  BY OneRing DEF RingShape
<1> QED
  BY <1>1, OneRing

\* Storing changes one slot at most.
LEMMA StoreOne ==
  ASSUME RingShape, NEW pos \in history!Slots, NEW e \in Cells, history!Store(0, pos, e)
  PROVE  /\ nodes' \in [{0} -> [history!Slots -> Cells]]
         /\ \A p \in history!Slots : nodes'[0][p] \in {nodes[0][p], e}
BY DEF RingShape, history!Store

\* What the operations of the ring that LogSeq uses do to its slots.
LEMMA RingStep ==
  ASSUME RingShape, NEW e \in Cells,
         history!Produce(e, 0) \/ history!SetLast(e, 0) \/ UNCHANGED ringVars
  PROVE  /\ RingShape'
         /\ \A p \in history!Slots : nodes'[0][p] \in {nodes[0][p], e}
<1> DEFINE Goal == /\ RingShape'
                   /\ \A p \in history!Slots : nodes'[0][p] \in {nodes[0][p], e}
<1>1. CASE UNCHANGED <<nodes, counts, points_r>>
  BY <1>1 DEF RingShape
<1>2. ASSUME NEW pos \in history!Slots, history!Store(0, pos, e),
             counts' = counts \/ counts' = [counts EXCEPT ![0] = @ + 1],
             points_r' = points_r \/ points_r' = [points_r EXCEPT ![0] = history!NextPos(0)]
      PROVE  Goal
  <2>1. history!NextPos(0) \in history!Slots
    BY SlotOf DEF history!NextPos
  <2>2. counts' \in [{0} -> Nat] /\ points_r' \in [{0} -> history!Slots]
    BY <1>2, <2>1 DEF RingShape
  <2> QED
    BY <1>2, <2>2, StoreOne DEF RingShape
<1>3. CASE history!Produce(e, 0)
  <2>1. points_r[0] \in history!Slots /\ (points_r[0] + counts[0]) % history!buflength \in history!Slots
    BY SlotOf DEF RingShape
  <2>2. \/ /\ history!Store(0, (points_r[0] + counts[0]) % history!buflength, e)
           /\ counts' = [counts EXCEPT ![0] = @ + 1]
           /\ points_r' = points_r
        \/ /\ history!Store(0, points_r[0], e)
           /\ points_r' = [points_r EXCEPT ![0] = history!NextPos(0)]
           /\ counts' = counts
        \/ UNCHANGED <<nodes, counts, points_r>>
    BY <1>3, OneRing DEF history!Produce, history!OverwriteOldest, history!Refuse, history!RunWild
  <2> QED
    BY <1>1, <1>2, <2>1, <2>2
<1>4. CASE history!SetLast(e, 0)
  <2>1. history!LastPos(0) \in history!Slots
    <3>1. counts[0] + history!buflength - 1 \in Nat /\ points_r[0] \in Nat
      BY OneRing DEF RingShape
    <3>2. points_r[0] + (counts[0] + history!buflength - 1) = points_r[0] + counts[0] + history!buflength - 1
      BY <3>1, OneRing DEF RingShape
    <3> QED
      BY <3>1, <3>2, SlotOf DEF history!LastPos
  <2>2. \/ /\ history!Store(0, history!LastPos(0), e)
           /\ UNCHANGED <<counts, points_r>>
        \/ UNCHANGED <<nodes, counts, points_r>>
    BY <1>4, OneRing DEF history!SetLast, history!SetEnd, history!Refuse, history!RunWild
  <2> QED
    BY <1>1, <1>2, <2>1, <2>2
<1>5. CASE UNCHANGED ringVars
  BY <1>1, <1>5 DEF ringVars
<1> QED
  BY <1>3, <1>4, <1>5

\* What getLast passes back is a cell.
LEMMA LastIsCell ==
  ASSUME RingShape, history!getLast(0) # NoValue
  PROVE  history!getLast(0) \in Cells
<1>1. counts[0] + history!buflength - 1 \in Nat /\ points_r[0] \in Nat
  BY OneRing DEF RingShape
<1>2. points_r[0] + (counts[0] + history!buflength - 1) = points_r[0] + counts[0] + history!buflength - 1
  BY <1>1, OneRing DEF RingShape
<1>3. history!LastPos(0) \in history!Slots
  BY <1>1, <1>2, SlotOf DEF history!LastPos
<1> QED
  BY <1>3 DEF history!getLast, RingShape

\* The number of a label is a position of the table, or the one after it.
LEMMA NumberRange ==
  ASSUME labels \in Seq(Names), NEW name
  PROVE  /\ Number(name) \in 0 .. Len(labels)
         /\ Known(name) => Number(name) < Len(labels)
         /\ ~Known(name) => Number(name) = Len(labels)
<1>1. Len(labels) \in Nat
  OBVIOUS
<1>2. CASE Known(name)
  <2> DEFINE k == CHOOSE k \in 1 .. Len(labels) : labels[k] = name
  <2>1. k \in 1 .. Len(labels)
    BY <1>2 DEF Known
  <2>2. Number(name) = k - 1
    BY <1>2 DEF Number
  <2> QED
    BY <1>1, <1>2, <2>1, <2>2
<1>3. CASE ~Known(name)
  BY <1>1, <1>3 DEF Number
<1> QED
  BY <1>2, <1>3

\* Recording the number i writes no other number.
LEMMA RecordOne ==
  ASSUME RingShape, NEW i \in Int, Record(i)
  PROVE  /\ RingShape'
         /\ \A p \in history!Slots : nodes'[0][p].idx \in {nodes[0][p].idx, i}
<1> DEFINE last == history!getLast(0)
<1>1. ASSUME NEW n \in Int,
             history!Produce(Entry(i, n), 0) \/ history!SetLast(Entry(i, n), 0) \/ UNCHANGED ringVars
      PROVE  /\ RingShape'
             /\ \A p \in history!Slots : nodes'[0][p].idx \in {nodes[0][p].idx, i}
  <2>1. Entry(i, n) \in Cells /\ Entry(i, n).idx = i
    BY DEF Entry, Cells
  <2> QED
    BY <1>1, <2>1, RingStep
<1>2. CASE history!Produce(Entry(i, 0), 0) \/ history!Produce(Entry(i, 1), 0)
  BY <1>1, <1>2
<1>3. CASE last # NoValue /\ CountUp(i, last)
  <2>1. last.n + 1 \in Int
    BY <1>3, LastIsCell DEF Cells
  <2>2. history!SetLast(Entry(i, last.n + 1), 0) \/ UNCHANGED ringVars
    BY <1>3 DEF CountUp
  <2> QED
    BY <1>1, <2>1, <2>2
<1> QED
  BY <1>2, <1>3 DEF Record

-----------------------------------------------------------------------------
\* A new object satisfies the invariant.
LEMMA FreshRing ==
  /\ history!DefaultNodes \in [{0} -> [history!Slots -> Cells]]
  /\ \A p \in history!Slots : history!DefaultNodes[0][p].idx = 0
  /\ history!Zeros \in [{0} -> Nat] /\ history!Zeros[0] = 0
  /\ history!Zeros \in [{0} -> history!Slots]
<1>1. Entry(0, 0) \in Cells /\ Entry(0, 0).idx = 0
  BY DEF Entry, Cells
<1>2. 0 \in history!Slots
  BY OneRing
<1> QED
  BY <1>1, <1>2, OneRing DEF history!DefaultNodes, history!Zeros

LEMMA InvInit == Init => IInv
<1> SUFFICES ASSUME Init PROVE IInv
  OBVIOUS
<1>1. labels = <<>> /\ nodes = history!DefaultNodes /\ counts = history!Zeros /\ points_r = history!Zeros
  BY DEF Init, history!Init
<1> QED
  BY <1>1, FreshRing DEF IInv, RingShape, LabelsDiffer, SlotsNumbered, LabelsFirst

LEMMA InvRenew == Renew => IInv'
<1> SUFFICES ASSUME Renew PROVE IInv'
  OBVIOUS
<1>1. labels' = <<>> /\ nodes' = history!DefaultNodes /\ counts' = history!Zeros /\ points_r' = history!Zeros
  BY DEF Renew
<1> QED
  BY <1>1, FreshRing DEF IInv, RingShape, LabelsDiffer, SlotsNumbered, LabelsFirst

\* The table grows by a label it did not have, or not at all.
LEMMA LearnOne ==
  ASSUME labels \in Seq(Names), LabelsDiffer, NEW name \in Names, Learn(name)
  PROVE  /\ labels' \in Seq(Names) /\ LabelsDiffer'
         /\ Len(labels) <= Len(labels')
         /\ Numbered(Number(name)) => Number(name) < Len(labels')
         /\ labels' = labels \/ Numbered(Number(name))
<1>1. CASE ~Known(name) /\ Len(labels) < max_label_count
  <2>1. labels' = Append(labels, name)
    BY <1>1 DEF Learn
  <2>2. /\ labels' \in Seq(Names) /\ Len(labels') = Len(labels) + 1
        /\ \A k \in 1 .. Len(labels) : labels'[k] = labels[k]
        /\ labels'[Len(labels) + 1] = name
    BY <2>1
  <2>3. LabelsDiffer'
    BY <1>1, <2>2 DEF LabelsDiffer, Known
  <2>4. Number(name) = Len(labels)
    BY <1>1, NumberRange
  <2> QED
    BY <1>1, <2>2, <2>3, <2>4 DEF Numbered
<1>2. CASE Known(name) \/ ~(Len(labels) < max_label_count)
  <2>1. labels' = labels
    BY <1>2 DEF Learn
  <2>2. Numbered(Number(name)) => Number(name) < Len(labels)
    BY <1>2, NumberRange DEF Numbered
  <2> QED
    BY <2>1, <2>2 DEF LabelsDiffer
<1> QED
  BY <1>1, <1>2

LEMMA InvMark ==
  ASSUME IInv, NEW name \in Names, Mark(name)
  PROVE  IInv'
<1> DEFINE i == Number(name)
<1>1. /\ labels' \in Seq(Names) /\ LabelsDiffer'
      /\ Len(labels) <= Len(labels') /\ Len(labels) \in Nat /\ Len(labels') \in Nat
      /\ Numbered(i) => i < Len(labels')
      /\ labels' = labels \/ Numbered(i)
  BY LearnOne DEF IInv, Mark
<1>2. i \in Nat
  BY NumberRange DEF IInv
<1>3. CASE Numbered(i) /\ Record(i)
  <2>1. /\ RingShape'
        /\ \A p \in history!Slots : nodes'[0][p].idx \in {nodes[0][p].idx, i}
    BY <1>2, <1>3, RecordOne DEF IInv
  <2>2. \A p \in history!Slots : nodes[0][p].idx \in Int
    BY DEF IInv, RingShape, Cells
  <2>3. SlotsNumbered'
    BY <1>1, <1>2, <1>3, <2>1, <2>2 DEF IInv, SlotsNumbered
  <2>4. LabelsFirst'
    BY <1>1, <1>2, <1>3 DEF LabelsFirst
  <2> QED
    BY <1>1, <2>1, <2>3, <2>4 DEF IInv
<1>4. CASE ~Numbered(i) /\ UNCHANGED ringVars
  <2>1. labels' = labels /\ UNCHANGED <<nodes, counts, points_r>>
    BY <1>1, <1>4 DEF ringVars
  <2> QED
    BY <1>1, <2>1 DEF IInv, RingShape, SlotsNumbered, LabelsFirst
<1> QED
  BY <1>3, <1>4 DEF Mark

LEMMA InvStep == IInv /\ [Next]_vars => IInv'
<1> SUFFICES ASSUME IInv, [Next]_vars PROVE IInv'
  OBVIOUS
<1>1. CASE Renew
  BY <1>1, InvRenew
<1>2. ASSUME NEW name \in Names, Mark(name) PROVE IInv'
  BY <1>2, InvMark
<1>3. CASE UNCHANGED vars
  BY <1>3 DEF vars, ringVars, IInv, RingShape, LabelsDiffer, SlotsNumbered, LabelsFirst
<1> QED
  BY <1>1, <1>2, <1>3 DEF Next, Logseq_init, Logseq_destroy

\* The history holds slots of the ring, and only if there are labels.
LEMMA InvImplies == IInv => EntriesHaveLabels
<1> SUFFICES ASSUME IInv PROVE EntriesHaveLabels
  OBVIOUS
<1>1. counts[0] \in Nat
  BY DEF IInv, RingShape
<1>2. Len(History) = counts[0]
  BY <1>1 DEF History, history!getAll
<1>3. ASSUME NEW k \in 1 .. counts[0] PROVE History[k].idx < Len(labels)
  <2>1. History[k] = nodes[0][(points_r[0] + k - 1) % history!buflength]
    BY <1>3 DEF History, history!getAll
  <2>2. points_r[0] + (k - 1) = points_r[0] + k - 1 /\ k - 1 \in Nat
    BY <1>1, OneRing DEF IInv, RingShape
  <2>3. (points_r[0] + k - 1) % history!buflength \in history!Slots
    BY <2>2, SlotOf DEF IInv
  <2>4. Len(labels) \in Nat /\ Len(labels) # 0
    <3>1. counts[0] # 0
      BY <1>1
    <3> QED
      BY <3>1 DEF IInv, LabelsFirst
  <2> QED
    BY <2>1, <2>3, <2>4 DEF IInv, SlotsNumbered
<1> QED
  BY <1>2, <1>3 DEF EntriesHaveLabels, IInv, LabelsDiffer

\* Whatever is marked in whatever order, every number in the history is that of
\* exactly one label.
THEOREM EveryEntryHasLabel == Spec => []EntriesHaveLabels
BY InvInit, InvStep, InvImplies, PTL DEF Spec

-----------------------------------------------------------------------------
(* The history as a sequence of entries.                                   *)

\* The slot of the k-th entry, if p is the slot of the oldest.
Place(p, k) == (p + k - 1) % history!buflength

\* The k-th entry.
EntryAt(k) == nodes[0][Place(points_r[0], k)]

\* The ring is not overfull and overwrites its oldest entry when it is full.
RingFits == counts[0] <= history!buflength /\ strategies[0] = "OVERWRITE"

\* Addresses are reduced modulo a length they exceed less than twice.
LEMMA Wrap ==
  ASSUME NEW n \in Nat \ {0}, NEW x \in 0 .. n + n - 1
  PROVE  x % n = IF x < n THEN x ELSE x - n
<1>1. CASE x < n
  BY <1>1
<1>2. CASE x >= n
  BY <1>2
<1> QED
  BY <1>1, <1>2

LEMMA LapIs ==
  ASSUME NEW n \in Nat \ {0}, NEW y \in 0 .. n + n - 1
  PROVE  (y + n) % n = y % n
<1>1. PICK q \in Int, r \in 0 .. n - 1 : y = n * q + r
  <2>1. CASE y < n
    <3>1. y \in 0 .. n - 1 /\ y = n * 0 + y /\ 0 \in Int
      BY <2>1
    <3> QED
      BY <3>1
  <2>2. CASE ~(y < n)
    <3>1. y - n \in 0 .. n - 1 /\ y = n * 1 + (y - n) /\ 1 \in Int
      BY <2>2
    <3> QED
      BY <3>1
  <2> QED
    BY <2>1, <2>2
<1>2. y + n = n * (q + 1) + r
  BY <1>1
<1> QED
  BY <1>1, <1>2

LEMMA PlaceIs ==
  ASSUME NEW p \in history!Slots, NEW k \in 1 .. history!buflength + 1
  PROVE  /\ Place(p, k) = IF p + k - 1 < history!buflength THEN p + k - 1
                          ELSE p + k - 1 - history!buflength
         /\ Place(p, k) \in history!Slots
<1>1. PICK n \in Nat \ {0} : n = history!buflength
  BY OneRing
<1>2. p \in 0 .. n - 1 /\ k \in 1 .. n + 1
  BY <1>1, OneRing
<1> DEFINE x == p + k - 1
<1>3. x \in 0 .. n + n - 1
  BY <1>2
<1>4. x % n = IF x < n THEN x ELSE x - n
  BY <1>3, Wrap
<1> QED
  BY <1>1, <1>2, <1>3, <1>4, OneRing DEF Place

LEMMA PlacesDiffer ==
  ASSUME NEW p \in history!Slots, NEW j \in 1 .. history!buflength, NEW k \in 1 .. history!buflength,
         j # k
  PROVE  Place(p, j) # Place(p, k)
<1>1. PICK n \in Nat \ {0} : n = history!buflength
  BY OneRing
<1>2. p \in 0 .. n - 1 /\ j \in 1 .. n + 1 /\ k \in 1 .. n + 1 /\ j \in 1 .. n /\ k \in 1 .. n
  BY <1>1, OneRing
<1>3. /\ Place(p, j) = IF p + j - 1 < n THEN p + j - 1 ELSE p + j - 1 - n
      /\ Place(p, k) = IF p + k - 1 < n THEN p + k - 1 ELSE p + k - 1 - n
  BY <1>1, <1>2, PlaceIs
<1> QED
  BY <1>2, <1>3

\* When the oldest entry has gone, the next one is the oldest.
LEMMA PlaceShifts ==
  ASSUME NEW p \in history!Slots, NEW k \in 1 .. history!buflength
  PROVE  /\ (p + 1) % history!buflength \in history!Slots
         /\ Place((p + 1) % history!buflength, k) = Place(p, k + 1)
<1>1. PICK n \in Nat \ {0} : n = history!buflength
  BY OneRing
<1>2. p \in 0 .. n - 1 /\ k \in 1 .. n /\ k \in 1 .. n + 1 /\ k + 1 \in 1 .. n + 1
  BY <1>1, OneRing
<1>3. PICK q : q = (p + 1) % n
  OBVIOUS
<1>4. q = IF p + 1 < n THEN p + 1 ELSE 0
  <2>1. p + 1 \in 0 .. n + n - 1
    BY <1>2
  <2>2. (p + 1) % n = IF p + 1 < n THEN p + 1 ELSE (p + 1) - n
    BY <2>1, Wrap
  <2> QED
    BY <1>2, <1>3, <2>2
<1>5. q \in 0 .. n - 1
  BY <1>2, <1>4
<1>6. /\ Place(q, k) = IF q + k - 1 < n THEN q + k - 1 ELSE q + k - 1 - n
      /\ Place(p, k + 1) = IF p + (k + 1) - 1 < n THEN p + (k + 1) - 1 ELSE p + (k + 1) - 1 - n
  BY <1>1, <1>2, <1>5, PlaceIs, OneRing
<1>7. Place(q, k) = Place(p, k + 1)
  BY <1>2, <1>4, <1>5, <1>6
<1> QED
  BY <1>1, <1>3, <1>5, <1>7, OneRing

\* getLast and setLast add buflength - 1 rather than subtract 1.
LEMMA LastPlace ==
  ASSUME RingShape, counts[0] \in 1 .. history!buflength
  PROVE  history!LastPos(0) = Place(points_r[0], counts[0])
<1>1. PICK n \in Nat \ {0} : n = history!buflength
  BY OneRing
<1>2. points_r[0] \in 0 .. n - 1 /\ counts[0] \in 1 .. n
  BY <1>1, OneRing DEF RingShape
<1> DEFINE x == points_r[0] + counts[0] - 1
<1>3. x \in Nat /\ points_r[0] + counts[0] + n - 1 = x + n
  BY <1>2
<1>4. PICK y \in 0 .. n + n - 1 : y = x
  BY <1>2
<1>5. (y + n) % n = y % n
  BY LapIs
<1> QED
  BY <1>1, <1>3, <1>4, <1>5 DEF Place, history!LastPos

-----------------------------------------------------------------------------
(* What the operations do to the history.                                  *)

\* e is the last entry now, and none is lost.
Appended(e) ==
  /\ counts[0] < history!buflength /\ counts'[0] = counts[0] + 1
  /\ \A k \in 1 .. counts[0] : EntryAt(k)' = EntryAt(k)
  /\ EntryAt(counts[0])' = e

\* The oldest entry is lost.
Shifted(e) ==
  /\ counts[0] = history!buflength /\ counts'[0] = counts[0]
  /\ \A k \in 1 .. counts[0] - 1 : EntryAt(k)' = EntryAt(k + 1)
  /\ EntryAt(counts[0])' = e

\* e replaces the last entry.
Replaced(e) ==
  /\ counts[0] = history!buflength /\ counts'[0] = counts[0]
  /\ \A k \in 1 .. counts[0] - 1 : EntryAt(k)' = EntryAt(k)
  /\ EntryAt(counts[0])' = e

LEMMA ProduceIs ==
  ASSUME RingShape, RingFits, NEW e \in Cells, history!Produce(e, 0)
  PROVE  (Appended(e) \/ Shifted(e)) /\ RingFits'
<1>1. PICK n \in Nat \ {0} : n = history!buflength
  BY OneRing
<1>2. PICK p \in history!Slots, c \in Nat : p = points_r[0] /\ c = counts[0] /\ c <= n
  BY <1>1 DEF RingShape, RingFits
<1>3. p \in 0 .. n - 1 /\ history!Slots = 0 .. n - 1
  BY <1>1, OneRing
<1>4. /\ history!getStatus(0) = history!StatusOf(counts[0])
      /\ history!getStatus(0) \in {"EMPTY", "PARTLY"} <=> c < n
      /\ history!getStatus(0) = "FULL" <=> c = n
      /\ history!getStatus(0) \notin {"INCONSISTENT", "OUTOFRANGE"}
  <2>1. history!getStatus(0) = history!StatusOf(counts[0])
    BY OneRing DEF history!getStatus
  <2> QED
    BY <1>1, <1>2, <2>1 DEF history!StatusOf
<1>5. \/ /\ c < n
         /\ history!Store(0, (points_r[0] + counts[0]) % history!buflength, e)
         /\ counts' = [counts EXCEPT ![0] = @ + 1]
         /\ points_r' = points_r
      \/ /\ c = n
         /\ history!Store(0, points_r[0], e)
         /\ points_r' = [points_r EXCEPT ![0] = history!NextPos(0)]
         /\ counts' = counts
  BY <1>4, OneRing DEF history!Produce, history!OverwriteOldest, RingFits
<1>6. strategies' = strategies
  BY <1>4, OneRing DEF history!Produce, history!Refuse, history!RunWild
<1>7. CASE /\ c < n
           /\ history!Store(0, (points_r[0] + counts[0]) % history!buflength, e)
           /\ counts' = [counts EXCEPT ![0] = @ + 1]
           /\ points_r' = points_r
  <2>1. (p + c) % n = Place(p, c + 1)
    BY <1>1, <1>2, <1>3 DEF Place
  <2>2. c + 1 \in 1 .. n /\ c + 1 \in 1 .. n + 1
    BY <1>1, <1>2, <1>7
  <2>3. Place(p, c + 1) \in history!Slots
    BY <1>1, <2>2, PlaceIs
  <2>4. nodes' = [nodes EXCEPT ![0][Place(p, c + 1)] = e]
    BY <1>1, <1>2, <1>7, <2>1 DEF history!Store
  <2>5. /\ nodes'[0][Place(p, c + 1)] = e
        /\ \A q \in history!Slots : q # Place(p, c + 1) => nodes'[0][q] = nodes[0][q]
    BY <2>3, <2>4 DEF RingShape
  <2>6. points_r'[0] = p /\ counts'[0] = c + 1
    BY <1>2, <1>7 DEF RingShape
  <2>7. ASSUME NEW k \in 1 .. c PROVE EntryAt(k)' = EntryAt(k)
    <3>1. k \in 1 .. n /\ k \in 1 .. n + 1 /\ k # c + 1
      BY <1>1, <1>2
    <3>2. Place(p, k) # Place(p, c + 1)
      BY <1>1, <2>2, <3>1, PlacesDiffer
    <3>3. Place(p, k) \in history!Slots
      BY <1>1, <3>1, PlaceIs
    <3>4. nodes'[0][Place(p, k)] = nodes[0][Place(p, k)]
      BY <2>5, <3>2, <3>3
    <3> QED
      BY <1>2, <2>6, <3>4 DEF EntryAt, Place
  <2>8. EntryAt(c + 1)' = e
    BY <2>5, <2>6 DEF EntryAt, Place
  <2>9. Appended(e)
    BY <1>1, <1>2, <1>7, <2>6, <2>7, <2>8 DEF Appended
  <2>10. c + 1 <= n
    BY <1>1, <1>2, <1>7
  <2> QED
    BY <1>1, <1>6, <2>6, <2>9, <2>10 DEF RingFits, history!buflength
<1>8. CASE /\ c = n
           /\ history!Store(0, points_r[0], e)
           /\ points_r' = [points_r EXCEPT ![0] = history!NextPos(0)]
           /\ counts' = counts
  <2>1. PICK q : q = (p + 1) % history!buflength
    OBVIOUS
  <2>2. q \in history!Slots /\ \A k \in 1 .. n : Place(q, k) = Place(p, k + 1)
    BY <1>1, <2>1, PlaceShifts
  <2>3. points_r'[0] = q /\ counts'[0] = c
    BY <1>2, <1>8, <2>1 DEF RingShape, history!NextPos
  <2>4. nodes' = [nodes EXCEPT ![0][p] = e]
    BY <1>2, <1>8 DEF history!Store
  <2>5. /\ nodes'[0][p] = e
        /\ \A r \in history!Slots : r # p => nodes'[0][r] = nodes[0][r]
    BY <2>4 DEF RingShape
  <2>6. Place(p, n + 1) = p /\ Place(p, 1) = p
    <3>1. n + 1 \in 1 .. n + 1 /\ 1 \in 1 .. n + 1
      OBVIOUS
    <3>2. /\ Place(p, n + 1) = IF p + (n + 1) - 1 < n THEN p + (n + 1) - 1 ELSE p + (n + 1) - 1 - n
          /\ Place(p, 1) = IF p + 1 - 1 < n THEN p + 1 - 1 ELSE p + 1 - 1 - n
      BY <1>1, <3>1, PlaceIs
    <3> QED
      BY <1>3, <3>2
  <2>7. ASSUME NEW k \in 1 .. c - 1 PROVE EntryAt(k)' = EntryAt(k + 1)
    <3>1. k \in 1 .. n /\ k + 1 \in 1 .. n /\ k + 1 \in 1 .. n + 1 /\ k + 1 # 1 /\ 1 \in 1 .. n
      BY <1>1, <1>2, <1>8
    <3>2. Place(q, k) = Place(p, k + 1)
      BY <2>2, <3>1
    <3>3. Place(p, k + 1) # p
      <4>1. Place(p, k + 1) # Place(p, 1)
        BY <1>1, <3>1, PlacesDiffer
      <4> QED
        BY <2>6, <4>1
    <3>4. Place(p, k + 1) \in history!Slots
      BY <1>1, <3>1, PlaceIs
    <3>5. nodes'[0][Place(q, k)] = nodes[0][Place(p, k + 1)]
      BY <2>5, <3>2, <3>3, <3>4
    <3> QED
      BY <1>2, <2>3, <3>5 DEF EntryAt, Place
  <2>8. EntryAt(c)' = e
    <3>1. c \in 1 .. n
      BY <1>1, <1>2, <1>8
    <3>2. Place(q, c) = p
      BY <1>8, <2>2, <2>6, <3>1
    <3> QED
      BY <2>3, <2>5, <3>2 DEF EntryAt, Place
  <2>9. Shifted(e)
    BY <1>1, <1>2, <1>8, <2>3, <2>7, <2>8 DEF Shifted
  <2> QED
    BY <1>1, <1>2, <1>6, <2>3, <2>9 DEF RingFits, history!buflength
<1> QED
  BY <1>5, <1>7, <1>8

\* The last entry can be read and changed when the ring is full only.
LEMMA LastIs ==
  ASSUME RingShape, RingFits, history!getLast(0) # NoValue
  PROVE  /\ counts[0] = history!buflength
         /\ history!getLast(0) = EntryAt(counts[0])
         /\ history!EndsReachable(0)
<1>1. PICK n \in Nat \ {0} : n = history!buflength
  BY OneRing
<1>2. history!EndsReachable(0)
  BY DEF history!getLast
<1>3. history!getStatus(0) = history!StatusOf(counts[0]) /\ history!getStatus(0) = "FULL"
  BY <1>2, OneRing DEF history!getStatus, history!EndsReachable
<1>4. counts[0] = history!buflength
  BY <1>3 DEF history!StatusOf
<1>5. history!LastPos(0) = Place(points_r[0], counts[0])
  <2>1. counts[0] \in 1 .. history!buflength
    BY <1>1, <1>4
  <2> QED
    BY <2>1, LastPlace
<1> QED
  BY <1>2, <1>4, <1>5 DEF history!getLast, EntryAt

LEMMA SetLastIs ==
  ASSUME RingShape, RingFits, history!getLast(0) # NoValue, NEW e \in Cells, history!SetLast(e, 0)
  PROVE  Replaced(e) /\ RingFits'
<1>1. PICK n \in Nat \ {0} : n = history!buflength
  BY OneRing
<1>2. counts[0] = n /\ history!EndsReachable(0)
  BY <1>1, LastIs
<1>3. PICK p \in history!Slots : p = points_r[0]
  BY DEF RingShape
<1>4. history!LastPos(0) = Place(p, n)
  <2>1. counts[0] \in 1 .. history!buflength
    BY <1>1, <1>2
  <2> QED
    BY <1>2, <1>3, <2>1, LastPlace
<1>5. /\ history!Store(0, Place(p, n), e)
      /\ counts' = counts /\ points_r' = points_r /\ strategies' = strategies
  BY <1>2, <1>4, OneRing DEF history!SetLast, history!SetEnd
<1>6. n \in 1 .. n /\ n \in 1 .. n + 1
  OBVIOUS
<1>7. Place(p, n) \in history!Slots
  BY <1>1, <1>6, PlaceIs
<1>8. /\ nodes'[0][Place(p, n)] = e
      /\ \A r \in history!Slots : r # Place(p, n) => nodes'[0][r] = nodes[0][r]
  BY <1>5, <1>7 DEF RingShape, history!Store
<1>9. ASSUME NEW k \in 1 .. n - 1 PROVE EntryAt(k)' = EntryAt(k)
  <2>1. k \in 1 .. n /\ k # n /\ k \in 1 .. n + 1
    OBVIOUS
  <2>2. Place(p, k) # Place(p, n)
    BY <1>1, <1>6, <2>1, PlacesDiffer
  <2>3. Place(p, k) \in history!Slots
    BY <1>1, <2>1, PlaceIs
  <2>4. nodes'[0][Place(p, k)] = nodes[0][Place(p, k)]
    BY <1>8, <2>2, <2>3
  <2> QED
    BY <1>3, <1>5, <2>4 DEF EntryAt, Place
<1>10. EntryAt(n)' = e
  BY <1>3, <1>5, <1>8 DEF EntryAt, Place
<1>11. Replaced(e)
  BY <1>1, <1>2, <1>5, <1>9, <1>10 DEF Replaced
<1> QED
  BY <1>5, <1>11 DEF RingFits, history!buflength

-----------------------------------------------------------------------------
(* The stretches of the trace.                                             *)

\* A stretch of len marks fits entry e.
FitsEntry(e, len) ==
  CASE count_reserve = 0 -> len = 1
    [] count_reserve > 0 /\ e.n < count_mask -> len = e.n
    [] OTHER -> len >= e.n

\* end cuts the trace into a stretch for each entry.
IsCutAt(end) ==
  /\ end \in [0 .. counts[0] -> 0 .. Len(trace)]
  /\ end[counts[0]] = Len(trace)
  /\ counts[0] < history!buflength => end[0] = 0
  /\ \A k \in 1 .. counts[0] :
       /\ end[k - 1] < end[k]
       /\ FitsEntry(EntryAt(k), end[k] - end[k - 1])
       /\ \A p \in end[k - 1] + 1 .. end[k] : trace[p] = EntryAt(k).idx

\* The inductive invariant of HistoryTellsTrace.
TraceIsCut ==
  /\ trace \in Seq(Nat) /\ count_reserve \in Nat
  /\ \E end : IsCutAt(end)

\* A mark is one stretch more.
LEMMA StretchAppended ==
  ASSUME RingShape, RingShape', RingFits, TraceIsCut, NEW i \in Nat, NEW e \in Cells,
         Appended(e) \/ Shifted(e), e.idx = i, FitsEntry(e, 1),
         trace' = Append(trace, i), count_reserve' = count_reserve
  PROVE  TraceIsCut'
<1>1. PICK n \in Nat \ {0} : n = history!buflength /\ n = history!buflength'
  BY OneRing DEF history!buflength
<1>2. PICK c \in Nat : c = counts[0] /\ c <= n
  BY <1>1 DEF RingShape, RingFits
<1>3. PICK d \in Nat : d = counts'[0]
  BY DEF RingShape
<1>4. PICK end : IsCutAt(end)
  BY DEF TraceIsCut
<1>5. PICK l \in Nat : l = Len(trace)
  BY DEF TraceIsCut
<1>6. /\ trace' \in Seq(Nat) /\ Len(trace') = l + 1
      /\ \A p \in 1 .. l : trace'[p] = trace[p]
      /\ trace'[l + 1] = i
  BY <1>5 DEF TraceIsCut
<1>7. /\ end \in [0 .. c -> 0 .. l] /\ end[c] = l
      /\ c < n => end[0] = 0
      /\ \A k \in 1 .. c :
           /\ end[k - 1] < end[k]
           /\ FitsEntry(EntryAt(k), end[k] - end[k - 1])
           /\ \A p \in end[k - 1] + 1 .. end[k] : trace[p] = EntryAt(k).idx
  BY <1>1, <1>2, <1>4, <1>5 DEF IsCutAt
<1>8. \A x, y : FitsEntry(x, y)' <=> FitsEntry(x, y)
  BY DEF FitsEntry, count_mask
<1>9. ASSUME NEW s \in {0, 1}, d = c + 1 - s, s = 1 => c = n,
             NEW f \in [0 .. d -> 0 .. l + 1], f[d] = l + 1,
             \A k \in 0 .. d - 1 : f[k] = end[k + s],
             \A k \in 1 .. d - 1 : EntryAt(k)' = EntryAt(k + s),
             EntryAt(d)' = e, d < n => s = 0
      PROVE  IsCutAt(f)'
  <2>1. d >= 1
    BY <1>1, <1>9
  <2>2. d < n => f[0] = 0
    <3>1. 0 \in 0 .. d - 1
      BY <2>1
    <3> QED
      BY <1>2, <1>7, <1>9, <3>1
  <2>3. ASSUME NEW k \in 1 .. d
        PROVE  /\ f[k - 1] < f[k]
               /\ FitsEntry(EntryAt(k)', f[k] - f[k - 1])
               /\ \A p \in f[k - 1] + 1 .. f[k] : trace'[p] = EntryAt(k)'.idx
    <3>1. CASE k = d
      <4>1. f[k] = l + 1 /\ f[k - 1] = l
        <5>1. k - 1 \in 0 .. d - 1 /\ k - 1 + s = c
          BY <1>9, <3>1
        <5> QED
          BY <1>7, <1>9, <3>1, <5>1
      <4>2. (l + 1) - l = 1 /\ \A p \in l + 1 .. l + 1 : p = l + 1
        OBVIOUS
      <4> QED
        BY <1>6, <1>9, <3>1, <4>1, <4>2
    <3>2. CASE k # d
      <4>1. /\ k \in 0 .. d - 1 /\ k - 1 \in 0 .. d - 1 /\ k \in 1 .. d - 1
            /\ (k - 1) + s = (k + s) - 1 /\ k + s \in 1 .. c /\ k + s \in 0 .. c /\ (k + s) - 1 \in 0 .. c
        BY <1>9, <3>2
      <4>2. f[k] = end[k + s] /\ f[k - 1] = end[(k + s) - 1] /\ EntryAt(k)' = EntryAt(k + s)
        BY <1>9, <4>1
      <4>3. /\ end[(k + s) - 1] < end[k + s]
            /\ FitsEntry(EntryAt(k + s), end[k + s] - end[(k + s) - 1])
            /\ \A p \in end[(k + s) - 1] + 1 .. end[k + s] : trace[p] = EntryAt(k + s).idx
        BY <1>7, <4>1
      <4>4. PICK a \in 0 .. l, b \in 0 .. l : a = end[(k + s) - 1] /\ b = end[k + s]
        BY <1>7, <4>1
      <4>5. \A p \in a + 1 .. b : trace'[p] = trace[p]
        <5>1. \A p \in a + 1 .. b : p \in 1 .. l
          BY <4>4, SMTT(30)
        <5> QED
          BY <1>6, <5>1
      <4> QED
        BY <4>2, <4>3, <4>4, <4>5
    <3> QED
      BY <3>1, <3>2
  <2> QED
    BY <1>1, <1>3, <1>6, <1>8, <1>9, <2>2, <2>3 DEF IsCutAt
<1>10. \E f : IsCutAt(f)'
  <2>1. CASE Appended(e)
    <3> DEFINE f == [k \in 0 .. c + 1 |-> IF k = c + 1 THEN l + 1 ELSE end[k]]
    <3>1. /\ c < n /\ d = c + 1
          /\ \A k \in 1 .. c : EntryAt(k)' = EntryAt(k)
          /\ EntryAt(d)' = e
      BY <1>1, <1>2, <1>3, <2>1 DEF Appended
    <3>2. f \in [0 .. d -> 0 .. l + 1]
      <4>1. \A k \in 0 .. c + 1 : k # c + 1 => k \in 0 .. c
        OBVIOUS
      <4>2. \A k \in 0 .. c : end[k] \in 0 .. l + 1
        BY <1>7
      <4> QED
        BY <3>1, <4>1, <4>2
    <3>3. f[d] = l + 1 /\ \A k \in 0 .. d - 1 : f[k] = end[k + 0]
      BY <3>1
    <3>4. \A k \in 1 .. d - 1 : EntryAt(k)' = EntryAt(k + 0)
      <4>1. ASSUME NEW k \in 1 .. d - 1 PROVE EntryAt(k)' = EntryAt(k + 0)
        <5>1. k \in 1 .. c /\ k + 0 = k
          BY <3>1
        <5> QED
          BY <3>1, <5>1
      <4> QED
        BY <4>1
    <3>5. 0 \in {0, 1} /\ d = c + 1 - 0
      BY <3>1
    <3> HIDE DEF f
    <3>6. IsCutAt(f)'
      BY <1>9, <3>1, <3>2, <3>3, <3>4, <3>5
    <3> QED
      BY <3>6
  <2>2. CASE Shifted(e)
    <3> DEFINE f == [k \in 0 .. c |-> IF k = c THEN l + 1 ELSE end[k + 1]]
    <3>1. /\ c = n /\ d = c
          /\ \A k \in 1 .. c - 1 : EntryAt(k)' = EntryAt(k + 1)
          /\ EntryAt(d)' = e
      BY <1>1, <1>2, <1>3, <2>2 DEF Shifted
    <3>2. f \in [0 .. d -> 0 .. l + 1]
      <4>1. \A k \in 0 .. c : k # c => k + 1 \in 0 .. c
        OBVIOUS
      <4>2. \A k \in 0 .. c : end[k] \in 0 .. l + 1
        BY <1>7
      <4> QED
        BY <3>1, <4>1, <4>2
    <3>3. f[d] = l + 1 /\ \A k \in 0 .. d - 1 : f[k] = end[k + 1]
      BY <3>1
    <3>4. \A k \in 1 .. d - 1 : EntryAt(k)' = EntryAt(k + 1)
      BY <3>1
    <3>5. 1 \in {0, 1} /\ d = c + 1 - 1 /\ ~(d < n)
      BY <3>1
    <3> HIDE DEF f
    <3>6. IsCutAt(f)'
      BY <1>9, <3>1, <3>2, <3>3, <3>4, <3>5
    <3> QED
      BY <3>6
  <2> QED
    BY <2>1, <2>2
<1> QED
  BY <1>6, <1>10 DEF TraceIsCut

\* A mark of the last label makes the last stretch longer.
LEMMA StretchGrows ==
  ASSUME RingShape, RingShape', RingFits, TraceIsCut, NEW i \in Nat, NEW e \in Cells,
         counts[0] = history!buflength,
         counts'[0] = counts[0],
         \A k \in 1 .. counts[0] - 1 : EntryAt(k)' = EntryAt(k),
         EntryAt(counts[0])' = e,
         e.idx = i, EntryAt(counts[0]).idx = i,
         \A len \in Nat : FitsEntry(EntryAt(counts[0]), len) => FitsEntry(e, len + 1),
         trace' = Append(trace, i), count_reserve' = count_reserve
  PROVE  TraceIsCut'
<1>1. PICK c \in Nat \ {0} : c = history!buflength /\ c = counts[0] /\ c = counts'[0]
  BY OneRing
<1>2. PICK end : IsCutAt(end)
  BY DEF TraceIsCut
<1>3. PICK l \in Nat : l = Len(trace)
  BY DEF TraceIsCut
<1>4. /\ trace' \in Seq(Nat) /\ Len(trace') = l + 1
      /\ \A p \in 1 .. l : trace'[p] = trace[p]
      /\ trace'[l + 1] = i
  BY <1>3 DEF TraceIsCut
<1>5. /\ end \in [0 .. c -> 0 .. l] /\ end[c] = l
      /\ \A k \in 1 .. c :
           /\ end[k - 1] < end[k]
           /\ FitsEntry(EntryAt(k), end[k] - end[k - 1])
           /\ \A p \in end[k - 1] + 1 .. end[k] : trace[p] = EntryAt(k).idx
  BY <1>1, <1>2, <1>3 DEF IsCutAt
<1>6. \A x, y : FitsEntry(x, y)' <=> FitsEntry(x, y)
  BY DEF FitsEntry, count_mask
<1>7. /\ \A k \in 1 .. c - 1 : EntryAt(k)' = EntryAt(k)
      /\ EntryAt(c)' = e /\ EntryAt(c).idx = i
      /\ \A len \in Nat : FitsEntry(EntryAt(c), len) => FitsEntry(e, len + 1)
  BY <1>1
<1> DEFINE f == [k \in 0 .. c |-> IF k = c THEN l + 1 ELSE end[k]]
<1>8. /\ f \in [0 .. c -> 0 .. l + 1] /\ f[c] = l + 1
      /\ \A k \in 0 .. c - 1 : f[k] = end[k]
  <2>1. \A k \in 0 .. c : end[k] \in 0 .. l + 1
    BY <1>5
  <2> QED
    BY <2>1
<1> HIDE DEF f
<1>9. ASSUME NEW k \in 1 .. c
      PROVE  /\ f[k - 1] < f[k]
             /\ FitsEntry(EntryAt(k)', f[k] - f[k - 1])
             /\ \A p \in f[k - 1] + 1 .. f[k] : trace'[p] = EntryAt(k)'.idx
  <2>1. k - 1 \in 0 .. c - 1 /\ k - 1 \in 0 .. c /\ k \in 0 .. c
    OBVIOUS
  <2>2. PICK a \in 0 .. l, b \in 0 .. l : a = end[k - 1] /\ b = end[k]
    BY <1>5, <2>1
  <2>3. /\ a < b /\ FitsEntry(EntryAt(k), b - a)
        /\ \A p \in a + 1 .. b : trace[p] = EntryAt(k).idx /\ trace'[p] = trace[p]
    <3>1. \A p \in a + 1 .. b : p \in 1 .. l
      BY <2>2
    <3> QED
      BY <1>4, <1>5, <2>2, <3>1
  <2>4. f[k - 1] = a
    BY <1>8, <2>1, <2>2
  <2>5. CASE k = c
    <3>1. b = l /\ f[k] = l + 1 /\ (l + 1) - a = (b - a) + 1 /\ b - a \in Nat
      <4>1. end[c] = l /\ f[c] = l + 1
        BY <1>5, <1>8
      <4>2. b = l /\ f[k] = l + 1
        BY <2>2, <2>5, <4>1
      <4> HIDE DEF f
      <4> QED
        BY <2>2, <2>3, <4>2
    <3>2. EntryAt(k)' = e /\ EntryAt(k).idx = i /\ FitsEntry(EntryAt(c), b - a)
      BY <1>7, <2>3, <2>5
    <3>3. FitsEntry(e, (b - a) + 1)
      BY <1>7, <3>1, <3>2
    <3>4. ASSUME NEW p \in a + 1 .. l + 1 PROVE trace'[p] = e.idx
      <4>1. p \in a + 1 .. b \/ p = l + 1
        BY <3>1
      <4>2. EntryAt(k).idx = e.idx
        BY <3>2
      <4> QED
        BY <1>4, <2>3, <4>1, <4>2
    <3>5. f[k - 1] < f[k] /\ FitsEntry(e, f[k] - f[k - 1])
      BY <2>4, <3>1, <3>3
    <3> QED
      BY <2>4, <3>1, <3>2, <3>4, <3>5
  <2>6. CASE k # c
    <3>1. k \in 0 .. c - 1 /\ k \in 1 .. c - 1
      BY <2>6
    <3>2. f[k] = b /\ EntryAt(k)' = EntryAt(k)
      BY <1>7, <1>8, <2>2, <3>1
    <3> QED
      BY <2>3, <2>4, <3>2
  <2> QED
    BY <2>5, <2>6
<1>10. IsCutAt(f)'
  <2>1. history!buflength' = c
    BY <1>1 DEF history!buflength
  <2>2. \A k \in 1 .. c : /\ f[k - 1] < f[k]
                           /\ FitsEntry(EntryAt(k), f[k] - f[k - 1])'
                           /\ \A p \in f[k - 1] + 1 .. f[k] : trace'[p] = EntryAt(k)'.idx
    BY <1>6, <1>9
  <2>3. ~(c < c)
    OBVIOUS
  <2> QED
    BY <1>1, <1>4, <1>8, <2>1, <2>2, <2>3 DEF IsCutAt
<1> QED
  BY <1>4, <1>10 DEF TraceIsCut

\* Where no mark is recorded the stretches are what they were.
LEMMA StretchesKept ==
  ASSUME RingFits, TraceIsCut, trace' = trace, count_reserve' = count_reserve, UNCHANGED ringVars
  PROVE  RingFits' /\ TraceIsCut'
<1>1. /\ counts' = counts /\ points_r' = points_r /\ nodes' = nodes /\ strategies' = strategies
      /\ history!buflength' = history!buflength
  BY DEF ringVars, history!buflength
<1>2. \A k : EntryAt(k)' = EntryAt(k)
  BY <1>1 DEF EntryAt, Place
<1>3. \A x, y : FitsEntry(x, y)' <=> FitsEntry(x, y)
  BY DEF FitsEntry, count_mask
<1>4. PICK end : IsCutAt(end)
  BY DEF TraceIsCut
<1>5. /\ end \in [0 .. counts'[0] -> 0 .. Len(trace')]
      /\ end[counts'[0]] = Len(trace')
      /\ counts'[0] < history!buflength' => end[0] = 0
  BY <1>1, <1>4 DEF IsCutAt
<1>6. \A k \in 1 .. counts'[0] :
        /\ end[k - 1] < end[k]
        /\ FitsEntry(EntryAt(k)', end[k] - end[k - 1])
        /\ \A p \in end[k - 1] + 1 .. end[k] : trace'[p] = EntryAt(k)'.idx
  BY <1>1, <1>2, <1>4 DEF IsCutAt
<1>7. IsCutAt(end)'
  BY <1>3, <1>5, <1>6 DEF IsCutAt
<1>8. RingFits'
  BY <1>1 DEF RingFits
<1> QED
  BY <1>7, <1>8 DEF TraceIsCut

\* Recording a number.
LEMMA RecordTells ==
  ASSUME IInv, RingFits, TraceIsCut, NEW i \in Nat, Record(i), RingShape',
         trace' = Append(trace, i), count_reserve' = count_reserve
  PROVE  RingFits' /\ TraceIsCut'
<1> DEFINE last == history!getLast(0)
           New(n) == /\ (n = 0 /\ count_reserve = 0) \/ (n = 1 /\ count_reserve > 0)
                     /\ history!Produce(Entry(i, n), 0)
<1>1. RingShape /\ count_reserve \in Nat
  BY DEF IInv, TraceIsCut
<1>2. ASSUME NEW n \in Int, New(n)
      PROVE  RingFits' /\ TraceIsCut'
  <2>1. PICK e : e = Entry(i, n)
    OBVIOUS
  <2>2. e \in Cells /\ e.idx = i /\ e.n = n
    BY <2>1 DEF Entry, Cells
  <2>3. FitsEntry(e, 1)
    <3>1. CASE n = 0 /\ count_reserve = 0
      BY <3>1 DEF FitsEntry
    <3>2. CASE n = 1 /\ count_reserve > 0
      <4>1. ~(count_reserve = 0) /\ e.n = 1
        BY <1>1, <2>2, <3>2
      <4> QED
        BY <3>2, <4>1 DEF FitsEntry
    <3> QED
      BY <1>2, <3>1, <3>2
  <2>4. (Appended(e) \/ Shifted(e)) /\ RingFits'
    BY <1>1, <1>2, <2>1, <2>2, ProduceIs
  <2> QED
    BY <1>1, <2>2, <2>3, <2>4, StretchAppended
<1>3. CASE count_reserve > 0 /\ last # NoValue /\ last.idx = i /\ CountUp(i, last)
  <2>1. /\ counts[0] = history!buflength /\ last = EntryAt(counts[0])
    BY <1>1, <1>3, LastIs
  <2>2. last \in Cells
    BY <1>1, <1>3, LastIsCell
  <2>3. PICK m \in Int : m = last.n
    BY <2>2 DEF Cells
  <2>4. ~(count_reserve = 0) /\ count_reserve > 0 /\ ~(m < m)
    BY <1>1, <1>3, <2>3
  <2>5. CASE m < count_mask /\ history!SetLast(Entry(i, last.n + 1), 0)
    <3>1. PICK e : e = Entry(i, m + 1)
      OBVIOUS
    <3>2. e \in Cells /\ e.idx = i /\ e.n = m + 1
      BY <3>1 DEF Entry, Cells
    <3>3. Replaced(e) /\ RingFits'
      BY <1>1, <1>3, <2>3, <2>5, <3>1, <3>2, SetLastIs
    <3>4. ASSUME NEW len \in Nat, FitsEntry(last, len)
          PROVE  FitsEntry(e, len + 1)
      <4>1. len = m
        BY <2>3, <2>4, <2>5, <3>4 DEF FitsEntry
      <4>2. len + 1 = m + 1 /\ len + 1 >= m + 1
        BY <4>1
      <4> QED
        BY <2>4, <3>2, <4>2 DEF FitsEntry
    <3> QED
      BY <1>1, <1>3, <2>1, <3>2, <3>3, <3>4, StretchGrows DEF Replaced
  <2>6. CASE m = count_mask /\ UNCHANGED ringVars
    <3>1. counts' = counts /\ points_r' = points_r /\ nodes' = nodes /\ strategies' = strategies
      BY <2>6 DEF ringVars
    <3>2. \A k : EntryAt(k)' = EntryAt(k)
      BY <3>1 DEF EntryAt, Place, history!buflength
    <3>3. ASSUME NEW len \in Nat, FitsEntry(last, len)
          PROVE  FitsEntry(last, len + 1)
      <4>1. len >= m
        BY <2>3, <2>4, <2>6, <3>3 DEF FitsEntry
      <4>2. len + 1 >= m
        BY <4>1
      <4> QED
        BY <2>3, <2>4, <2>6, <4>2 DEF FitsEntry
    <3>4. EntryAt(counts[0])' = last
      BY <2>1, <3>1, <3>2
    <3>5. TraceIsCut'
      BY <1>1, <1>3, <2>1, <2>2, <3>1, <3>2, <3>3, <3>4, StretchGrows
    <3> QED
      BY <3>1, <3>5 DEF RingFits, history!buflength
  <2> QED
    BY <1>3, <2>3, <2>5, <2>6 DEF CountUp
<1>4. \/ count_reserve = 0 /\ history!Produce(Entry(i, 0), 0)
      \/ count_reserve > 0 /\ history!Produce(Entry(i, 1), 0)
      \/ count_reserve > 0 /\ last # NoValue /\ last.idx = i /\ CountUp(i, last)
  BY DEF Record
<1> HIDE DEF last
<1>5. CASE count_reserve = 0 /\ history!Produce(Entry(i, 0), 0)
  <2>1. 0 \in Int
    OBVIOUS
  <2>2. New(0)
    BY <1>5
  <2> HIDE DEF New
  <2> QED
    BY <1>2, <2>1, <2>2
<1>6. CASE count_reserve > 0 /\ history!Produce(Entry(i, 1), 0)
  <2>1. 1 \in Int
    OBVIOUS
  <2>2. New(1)
    BY <1>6
  <2> HIDE DEF New
  <2> QED
    BY <1>2, <2>1, <2>2
<1> QED
  BY <1>3, <1>4, <1>5, <1>6

CutInv == IInv /\ RingFits /\ TraceIsCut

\* An empty ring and an empty trace.
LEMMA CutEmpty ==
  ASSUME counts = history!Zeros, trace = <<>>, count_reserve \in Nat,
         strategies = history!DefaultStrategies
  PROVE  RingFits /\ TraceIsCut
<1>1. counts[0] = 0 /\ strategies[0] = "OVERWRITE" /\ history!buflength \in Nat
  BY OneRing DEF history!Zeros, history!DefaultStrategies
<1>2. RingFits
  BY <1>1 DEF RingFits
<1> DEFINE end == [k \in 0 .. 0 |-> 0]
<1>3. Len(trace) = 0
  OBVIOUS
<1>4. end \in [0 .. 0 -> 0 .. 0] /\ end[0] = 0
  OBVIOUS
<1> HIDE DEF end
<1>5. IsCutAt(end)
  BY <1>1, <1>3, <1>4 DEF IsCutAt
<1>6. trace \in Seq(Nat)
  OBVIOUS
<1> QED
  BY <1>2, <1>5, <1>6 DEF TraceIsCut

LEMMA CutInit == Init => CutInv
<1> SUFFICES ASSUME Init PROVE CutInv
  OBVIOUS
<1>1. /\ counts = history!Zeros /\ trace = <<>> /\ count_reserve \in Nat
      /\ strategies = history!DefaultStrategies
  BY DEF Init, history!Init
<1> QED
  BY <1>1, InvInit, CutEmpty DEF CutInv

LEMMA CutRenew ==
  ASSUME Renew, count_reserve' \in Nat
  PROVE  RingFits' /\ TraceIsCut'
<1>1. /\ counts' = history!Zeros' /\ trace' = <<>> /\ strategies' = history!DefaultStrategies'
  BY DEF Renew, history!Zeros, history!DefaultStrategies, history!Buffers, history!bufcount
<1>2. counts'[0] = 0 /\ strategies'[0] = "OVERWRITE" /\ history!buflength' \in Nat /\ history!buflength \in Nat
  BY <1>1, OneRing DEF Renew, history!Zeros, history!DefaultStrategies, history!buflength
<1>3. RingFits'
  BY <1>2 DEF RingFits
<1> DEFINE end == [k \in 0 .. 0 |-> 0]
<1>4. Len(trace') = 0 /\ trace' \in Seq(Nat)
  BY <1>1
<1>5. end \in [0 .. 0 -> 0 .. 0] /\ end[0] = 0
  OBVIOUS
<1> HIDE DEF end
<1>6. IsCutAt(end)'
  BY <1>2, <1>4, <1>5 DEF IsCutAt
<1> QED
  BY <1>3, <1>4, <1>6 DEF TraceIsCut

LEMMA CutStep == CutInv /\ [Next]_vars => CutInv'
<1> SUFFICES ASSUME CutInv, [Next]_vars PROVE CutInv'
  OBVIOUS
<1>1. IInv'
  BY InvStep DEF CutInv
<1>2. ASSUME NEW count_bits \in CountBits, Logseq_init(count_bits) PROVE CutInv'
  <2>1. count_reserve' \in Nat
    BY <1>2, NumbersAssumption DEF Logseq_init
  <2> QED
    BY <1>1, <1>2, <2>1, CutRenew DEF Logseq_init, CutInv
<1>3. CASE Logseq_destroy
  BY <1>1, <1>3, CutRenew DEF Logseq_destroy, CutInv
<1>4. CASE UNCHANGED vars
  <2>1. trace' = trace /\ count_reserve' = count_reserve /\ UNCHANGED ringVars
    BY <1>4 DEF vars
  <2>2. RingFits' /\ TraceIsCut'
    BY <2>1, StretchesKept DEF CutInv
  <2> QED
    BY <1>1, <2>2 DEF CutInv
<1>5. ASSUME NEW name \in Names, Mark(name) PROVE CutInv'
  <2>1. CASE Record(Number(name)) /\ trace' = Append(trace, Number(name))
    <3>1. PICK i \in Nat : i = Number(name)
      <4>1. labels \in Seq(Names) /\ Len(labels) \in Nat
        BY DEF CutInv, IInv
      <4>2. Number(name) \in 0 .. Len(labels)
        BY <4>1, NumberRange
      <4> QED
        BY <4>1, <4>2
    <3>2. count_reserve' = count_reserve /\ RingShape'
      BY <1>1, <1>5 DEF Mark, IInv
    <3> QED
      BY <1>1, <2>1, <3>1, <3>2, RecordTells DEF CutInv
  <2>2. CASE UNCHANGED <<trace, ringVars>>
    <3>1. count_reserve' = count_reserve
      BY <1>5 DEF Mark
    <3>2. RingFits' /\ TraceIsCut'
      BY <2>2, <3>1, StretchesKept DEF CutInv
    <3> QED
      BY <1>1, <3>2 DEF CutInv
  <2> QED
    BY <1>5, <2>1, <2>2 DEF Mark
<1> QED
  BY <1>2, <1>3, <1>4, <1>5 DEF Next

LEMMA CutImplies == CutInv => HistoryTellsTrace
<1> SUFFICES ASSUME CutInv PROVE HistoryTellsTrace
  OBVIOUS
<1>1. counts[0] \in Nat
  BY DEF CutInv, IInv, RingShape
<1>2. Len(History) = counts[0] /\ \A k \in 1 .. counts[0] : History[k] = EntryAt(k)
  BY <1>1 DEF History, history!getAll, EntryAt, Place
<1>3. PICK end : IsCutAt(end)
  BY DEF CutInv, TraceIsCut
<1> HIDE DEF History
<1>4. /\ end \in [0 .. Len(History) -> 0 .. Len(trace)]
      /\ end[Len(History)] = Len(trace)
      /\ Len(History) < history!buflength => end[0] = 0
      /\ \A k \in 1 .. Len(History) :
           /\ end[k - 1] < end[k]
           /\ FitsEntry(History[k], end[k] - end[k - 1])
           /\ \A p \in end[k - 1] + 1 .. end[k] : trace[p] = History[k].idx
  BY <1>2, <1>3 DEF IsCutAt
<1> QED
  BY <1>4, Zenon DEF HistoryTellsTrace, FitsEntry

\* The history is the end of what was marked, in order: whoever reads it in a
\* debugger can tell which labels were passed last, and how often in a row.
THEOREM HistoryIsEndOfTrace == Spec => []HistoryTellsTrace
BY CutInit, CutStep, CutImplies, PTL DEF Spec

-----------------------------------------------------------------------------
(* Powers of two, by counting subsets.                                     *)

LEMMA TwoElements ==
  ASSUME NEW x, NEW y, x # y
  PROVE  IsFiniteSet({x, y}) /\ Cardinality({x, y}) = 2
<1>1. IsFiniteSet({x}) /\ Cardinality({x}) = 1
  BY FS_Singleton
<1>2. /\ IsFiniteSet({x} \cup {y})
      /\ Cardinality({x} \cup {y}) = IF y \in {x} THEN Cardinality({x}) ELSE Cardinality({x}) + 1
  BY <1>1, FS_AddElement
<1>3. {x} \cup {y} = {x, y} /\ y \notin {x}
  OBVIOUS
<1> QED
  BY <1>1, <1>2, <1>3

LEMMA FourElements ==
  ASSUME NEW a, NEW b, NEW c, NEW d, a # b, c \notin {a, b}, d \notin {a, b, c}
  PROVE  IsFiniteSet({a, b, c, d}) /\ Cardinality({a, b, c, d}) = 4
<1>1. IsFiniteSet({a, b}) /\ Cardinality({a, b}) = 2
  BY TwoElements
<1>2. IsFiniteSet({a, b} \cup {c}) /\ Cardinality({a, b} \cup {c}) = 2 + 1
  BY <1>1, FS_AddElement
<1>3. {a, b} \cup {c} = {a, b, c}
  OBVIOUS
<1>4. IsFiniteSet({a, b, c} \cup {d}) /\ Cardinality({a, b, c} \cup {d}) = (2 + 1) + 1
  BY <1>2, <1>3, FS_AddElement
<1>5. {a, b, c} \cup {d} = {a, b, c, d}
  OBVIOUS
<1> QED
  BY <1>4, <1>5

LEMMA PowerCounts ==
  ASSUME NEW n \in Nat
  PROVE  /\ IsFiniteSet(SUBSET (1 .. n))
         /\ 2 ^ n \in Nat /\ 2 ^ n = Cardinality(SUBSET (1 .. n))
<1>1. IsFiniteSet(1 .. n) /\ Cardinality(1 .. n) = n
  <2>1. 1 \in Int /\ n \in Int
    OBVIOUS
  <2> QED
    BY <2>1, FS_Interval
<1>2. IsFiniteSet(SUBSET (1 .. n)) /\ Cardinality(SUBSET (1 .. n)) = 2 ^ n
  BY <1>1, FS_SUBSET
<1>3. Cardinality(SUBSET (1 .. n)) \in Nat
  BY <1>2, FS_CardinalityType
<1> QED
  BY <1>2, <1>3

\* 2 ^ n grows, and is at least 1, 2 and 4 for n at least 0, 1 and 2.
LEMMA PowerGrows ==
  ASSUME NEW m \in Nat, NEW n \in Nat, m <= n
  PROVE  2 ^ m <= 2 ^ n
<1>1. SUBSET (1 .. m) \in SUBSET (SUBSET (1 .. n))
  OBVIOUS
<1>2. Cardinality(SUBSET (1 .. m)) <= Cardinality(SUBSET (1 .. n))
  BY <1>1, PowerCounts, FS_Subset
<1> QED
  BY <1>2, PowerCounts

LEMMA PowerAtLeast ==
  ASSUME NEW n \in Nat
  PROVE  2 ^ n >= 1 /\ (n >= 1 => 2 ^ n >= 2) /\ (n >= 2 => 2 ^ n >= 4)
<1> DEFINE P == SUBSET (1 .. n)
<1>1. IsFiniteSet(P) /\ 2 ^ n \in Nat /\ 2 ^ n = Cardinality(P)
  BY PowerCounts
<1>2. {{}} \in SUBSET P
  OBVIOUS
<1>3. n >= 1 => {{}, {1}} \in SUBSET P
  OBVIOUS
<1>4. n >= 2 => {{}, {1}, {2}, {1, 2}} \in SUBSET P
  OBVIOUS
<1>5. Cardinality({{}}) = 1
  BY FS_Singleton
<1>6. Cardinality({{}, {1}}) = 2
  <2>1. {} # {1}
    OBVIOUS
  <2> QED
    BY <2>1, TwoElements
<1>7. Cardinality({{}, {1}, {2}, {1, 2}}) = 4
  <2>1. 1 \in {1} /\ 1 \notin {} /\ 2 \in {2} /\ 2 \notin {1} /\ 2 \notin {} /\ 1 \in {1, 2} /\ 1 \notin {2} /\ 2 \in {1, 2}
    OBVIOUS
  <2>2. PICK a, b, c, d : a = {} /\ b = {1} /\ c = {2} /\ d = {1, 2}
    OBVIOUS
  <2>3. a # b /\ c \notin {a, b} /\ d \notin {a, b, c}
    BY <2>1, <2>2
  <2> QED
    BY <2>2, <2>3, FourElements
<1> HIDE DEF P
<1>8. Cardinality({{}}) <= Cardinality(P)
  BY <1>1, <1>2, FS_Subset
<1>9. n >= 1 => Cardinality({{}, {1}}) <= Cardinality(P)
  BY <1>1, <1>3, FS_Subset
<1>10. n >= 2 => Cardinality({{}, {1}, {2}, {1, 2}}) <= Cardinality(P)
  BY <1>1, <1>4, FS_Subset
<1> QED
  BY <1>1, <1>5, <1>6, <1>7, <1>8, <1>9, <1>10

-----------------------------------------------------------------------------
(* The types.                                                              *)

\* The ranges of labels, numbers and counts that a word gives.
LEMMA Ranges ==
  ASSUME count_reserve \in 0 .. WordBits - 1
  PROVE  /\ count_mask \in Nat /\ count_mask \in Halves
         /\ count_reserve > 0 => count_mask >= 1
         /\ label_mask \in Nat /\ label_mask \in Halves
         /\ max_label_count \in Nat /\ max_label_count <= label_mask
<1>1. PICK w \in Nat, r \in Nat : w = WordBits /\ w >= 2 /\ r = count_reserve /\ r <= w - 1
  BY NumbersAssumption
<1>2. PICK a \in Nat : a = 2 ^ w /\ a >= 4
  BY <1>1, PowerCounts, PowerAtLeast
<1>3. PICK b \in Nat : b = 2 ^ r /\ b >= 1 /\ b <= a /\ (r >= 1 => b >= 2)
  <2>1. r <= w
    BY <1>1
  <2> QED
    BY <1>2, <2>1, PowerCounts, PowerAtLeast, PowerGrows
<1>4. PICK c \in Nat : c = 2 ^ (w - r) /\ c >= 1 /\ c <= a
  <2>1. w - r \in Nat /\ w - r <= w
    BY <1>1
  <2>2. PICK d \in Nat : d = w - r /\ d <= w
    BY <2>1
  <2> QED
    BY <1>2, <2>2, PowerCounts, PowerAtLeast, PowerGrows
<1>5. count_mask = b - 1 /\ Halves = 0 .. a - 1
  BY <1>1, <1>2, <1>3 DEF count_mask, Halves
<1>6. CASE r = 0
  <2>1. label_mask = a - 1 /\ max_label_count = (a - 1) - 3
    BY <1>1, <1>2, <1>6 DEF label_mask, max_label_count
  <2> QED
    BY <1>1, <1>2, <1>3, <1>5, <1>6, <2>1
<1>7. CASE r # 0
  <2>1. label_mask = c - 1 /\ max_label_count = c - 1
    BY <1>1, <1>4, <1>7 DEF label_mask, max_label_count
  <2> QED
    BY <1>1, <1>2, <1>3, <1>4, <1>5, <1>7, <2>1
<1> QED
  BY <1>6, <1>7

\* What the type invariant needs beside the invariants above.
TypeInv ==
  /\ created \in BOOLEAN
  /\ count_reserve \in 0 .. WordBits - 1
  /\ Len(labels) <= max_label_count
  /\ trace \in Seq(0 .. label_mask)
  /\ nodes \in [{0} -> [history!Slots -> Entries]]
  /\ strategies \in [{0} -> history!Strategies]
  /\ wild \in BOOLEAN

\* No label, no mark and an empty ring.
Fresh ==
  /\ labels = <<>> /\ trace = <<>> /\ nodes = history!DefaultNodes
  /\ strategies = history!DefaultStrategies /\ wild \in BOOLEAN
  /\ created \in BOOLEAN /\ count_reserve \in 0 .. WordBits - 1

LEMMA FreshTypes == Fresh => TypeInv
<1> SUFFICES ASSUME Fresh PROVE TypeInv
  OBVIOUS
<1> USE DEF Fresh
<1>1. PICK l \in Nat, c \in Nat : l = label_mask /\ c = count_mask
  BY Ranges
<1>2. Entry(0, 0) \in Entries
  BY <1>1 DEF Entry, Entries
<1>3. nodes \in [{0} -> [history!Slots -> Entries]]
  BY <1>2, OneRing DEF history!DefaultNodes
<1>4. strategies \in [{0} -> history!Strategies]
  BY OneRing DEF history!DefaultStrategies, history!Strategies
<1>5. trace \in Seq(0 .. label_mask)
  OBVIOUS
<1>6. Len(labels) <= max_label_count
  <2>1. max_label_count \in Nat /\ Len(labels) = 0
    BY Ranges
  <2> QED
    BY <2>1
<1> QED
  BY <1>3, <1>4, <1>5, <1>6 DEF TypeInv

LEMMA FreshTypesNext == Fresh' => TypeInv'
BY FreshTypes, PTL

LEMMA TypeInvInit == Init => TypeInv
<1> SUFFICES ASSUME Init PROVE TypeInv
  OBVIOUS
<1>1. /\ labels = <<>> /\ trace = <<>> /\ nodes = history!DefaultNodes
      /\ strategies = history!DefaultStrategies /\ wild = FALSE /\ created = FALSE
  BY DEF Init, history!Init
<1>2. count_reserve \in 0 .. WordBits - 1
  BY NumbersAssumption DEF Init
<1>3. wild \in BOOLEAN /\ created \in BOOLEAN
  BY <1>1, Zenon
<1> QED
  BY <1>1, <1>2, <1>3, FreshTypes DEF Fresh

LEMMA FlagsStep ==
  ASSUME wild \in BOOLEAN, NEW e,
         history!Produce(e, 0) \/ history!SetLast(e, 0) \/ UNCHANGED ringVars
  PROVE  strategies' = strategies /\ wild' \in BOOLEAN
<1>1. strategies' = strategies /\ (wild' = wild \/ wild' = TRUE)
  BY Zenon DEF history!Produce, history!OverwriteOldest, history!SetLast, history!SetEnd, history!Refuse,
         history!RunWild, ringVars
<1>2. wild' = wild => wild' \in BOOLEAN
  BY Zenon
<1>3. wild' = TRUE => wild' \in BOOLEAN
  BY Zenon
<1> QED
  BY <1>1, <1>2, <1>3, Zenon

\* Recording writes an entry whose number and count fit into a word.
LEMMA RecordTypes ==
  ASSUME RingShape, TypeInv, NEW i \in Nat, Numbered(i), Record(i)
  PROVE  /\ nodes' \in [{0} -> [history!Slots -> Entries]]
         /\ strategies' = strategies /\ wild' \in BOOLEAN
<1> DEFINE last == history!getLast(0)
<1>1. PICK c \in Nat, l \in Nat, m \in Nat :
        /\ c = count_mask /\ l = label_mask /\ m = max_label_count
        /\ m <= l /\ (count_reserve > 0 => c >= 1)
  BY Ranges DEF TypeInv
<1>2. i \in 0 .. l /\ count_reserve \in Nat
  <2>1. i < m
    BY <1>1 DEF Numbered
  <2> QED
    BY <1>1, <2>1, NumbersAssumption DEF TypeInv
<1>3. ASSUME NEW n \in 0 .. c,
             history!Produce(Entry(i, n), 0) \/ history!SetLast(Entry(i, n), 0) \/ UNCHANGED ringVars
      PROVE  /\ nodes' \in [{0} -> [history!Slots -> Entries]]
             /\ strategies' = strategies /\ wild' \in BOOLEAN
  <2>1. PICK e : e = Entry(i, n)
    OBVIOUS
  <2>2. e \in Cells /\ e \in Entries
    BY <1>1, <1>2, <2>1 DEF Entry, Cells, Entries
  <2>3. history!Produce(e, 0) \/ history!SetLast(e, 0) \/ UNCHANGED ringVars
    BY <1>3, <2>1
  <2>4. strategies' = strategies /\ wild' \in BOOLEAN
    BY <2>3, FlagsStep DEF TypeInv
  <2>5. /\ nodes' \in [{0} -> [history!Slots -> Cells]]
        /\ \A p \in history!Slots : nodes'[0][p] \in {nodes[0][p], e}
    BY <2>2, <2>3, RingStep DEF RingShape, history!Slots, history!buflength
  <2>6. \A p \in history!Slots : nodes'[0][p] \in Entries
    BY <2>2, <2>5 DEF TypeInv
  <2>7. nodes' \in [{0} -> [history!Slots -> Entries]]
    BY <2>5, <2>6
  <2> QED
    BY <2>4, <2>7
<1>4. CASE history!Produce(Entry(i, 0), 0)
  <2>1. 0 \in 0 .. c
    BY <1>1
  <2> QED
    BY <1>3, <1>4, <2>1
<1>5. CASE count_reserve > 0 /\ history!Produce(Entry(i, 1), 0)
  <2>1. 1 \in 0 .. c
    BY <1>1, <1>5
  <2> QED
    BY <1>3, <1>5, <2>1
<1>6. CASE last # NoValue /\ last.n < count_mask /\ history!SetLast(Entry(i, last.n + 1), 0)
  <2>1. last \in Entries
    <3>1. history!EndsReachable(0)
      BY <1>6 DEF history!getLast
    <3>2. last = nodes[0][history!LastPos(0)]
      BY <3>1 DEF history!getLast
    <3>3. points_r[0] + (counts[0] + history!buflength - 1) = points_r[0] + counts[0] + history!buflength - 1
          /\ counts[0] + history!buflength - 1 \in Nat
      BY OneRing DEF RingShape
    <3>4. history!LastPos(0) \in history!Slots
      BY <3>3, SlotOf DEF history!LastPos
    <3> QED
      BY <3>2, <3>4 DEF TypeInv
  <2>2. last.n \in 0 .. c /\ last.n < c
    BY <1>1, <1>6, <2>1 DEF Entries
  <2>3. PICK n \in 0 .. c : n = last.n + 1
    BY <2>2
  <2>4. history!SetLast(Entry(i, n), 0)
    BY <1>6, <2>3
  <2> QED
    BY <1>3, <2>4
<1>7. CASE UNCHANGED ringVars
  <2>1. 0 \in 0 .. c
    BY <1>1
  <2> QED
    BY <1>3, <1>7, <2>1
<1> QED
  BY <1>4, <1>5, <1>6, <1>7 DEF Record, CountUp

\* The table does not outgrow its limit.
LEMMA LearnTypes ==
  ASSUME labels \in Seq(Names), TypeInv, NEW name \in Names, Learn(name)
  PROVE  Len(labels') <= max_label_count
<1>1. PICK n \in Nat, m \in Nat : n = Len(labels) /\ m = max_label_count /\ n <= m
  BY Ranges DEF TypeInv
<1>2. labels' = labels \/ (n < m /\ labels' = Append(labels, name))
  BY <1>1 DEF Learn
<1>3. Len(Append(labels, name)) = n + 1
  BY <1>1
<1> QED
  BY <1>1, <1>2, <1>3

LEMMA TypeMark ==
  ASSUME IInv, TypeInv, NEW name \in Names, Mark(name)
  PROVE  TypeInv'
<1>1. PICK i \in Nat : i = Number(name)
  <2>1. labels \in Seq(Names) /\ Len(labels) \in Nat
    BY DEF IInv
  <2>2. Number(name) \in 0 .. Len(labels)
    BY <2>1, NumberRange
  <2> QED
    BY <2>1, <2>2
<1>2. created' = created /\ count_reserve' = count_reserve
  BY DEF Mark
<1>3. /\ label_mask' = label_mask /\ count_mask' = count_mask
      /\ max_label_count' = max_label_count /\ Entries' = Entries
  BY <1>2 DEF label_mask, count_mask, max_label_count, Entries
<1>4. Len(labels') <= max_label_count'
  BY <1>3, LearnTypes DEF IInv, Mark
<1>5. CASE Numbered(i) /\ Record(i) /\ trace' = Append(trace, i)
  <2>1. /\ nodes' \in [{0} -> [history!Slots -> Entries]]
        /\ strategies' = strategies /\ wild' \in BOOLEAN
    BY <1>5, RecordTypes DEF IInv
  <2>2. i \in 0 .. label_mask
    <3>1. i < max_label_count /\ max_label_count \in Nat /\ label_mask \in Nat /\ max_label_count <= label_mask
      BY <1>5, Ranges DEF Numbered, TypeInv
    <3> QED
      BY <3>1
  <2>3. trace' \in Seq(0 .. label_mask)
    <3>1. PICK S : S = 0 .. label_mask
      OBVIOUS
    <3>2. trace \in Seq(S) /\ i \in S
      BY <2>2, <3>1 DEF TypeInv
    <3>3. Append(trace, i) \in Seq(S)
      BY <3>2
    <3> QED
      BY <1>5, <3>1, <3>3
  <2>4. history!Slots' = history!Slots /\ history!Strategies' = history!Strategies
    BY DEF history!Slots, history!buflength, history!Strategies
  <2> QED
    BY <1>2, <1>3, <1>4, <2>1, <2>3, <2>4 DEF TypeInv
<1>6. CASE UNCHANGED <<trace, ringVars>>
  <2>1. trace' = trace /\ nodes' = nodes /\ strategies' = strategies /\ wild' = wild
    BY <1>6 DEF ringVars
  <2>2. history!Slots' = history!Slots /\ history!Strategies' = history!Strategies
    BY DEF history!Slots, history!buflength, history!Strategies
  <2> QED
    BY <1>2, <1>3, <1>4, <2>1, <2>2 DEF TypeInv
<1> QED
  BY <1>1, <1>5, <1>6 DEF Mark

LEMMA TypeInvStep == IInv /\ TypeInv /\ [Next]_vars => TypeInv'
<1> SUFFICES ASSUME IInv, TypeInv, [Next]_vars PROVE TypeInv'
  OBVIOUS
<1>1. ASSUME Renew, created' \in BOOLEAN, count_reserve' \in 0 .. WordBits - 1 PROVE TypeInv'
  <2>1. /\ labels' = <<>> /\ trace' = <<>> /\ wild' = wild
        /\ nodes' = history!DefaultNodes' /\ strategies' = history!DefaultStrategies'
    BY <1>1 DEF Renew, history!DefaultNodes, history!DefaultStrategies, history!Buffers,
                history!bufcount, history!Slots, history!buflength
  <2>2. wild' \in BOOLEAN
    BY <2>1, Zenon DEF TypeInv
  <2> QED
    BY <1>1, <2>1, <2>2, FreshTypesNext DEF Fresh
<1>2. ASSUME NEW count_bits \in CountBits, Logseq_init(count_bits) PROVE TypeInv'
  <2>1. created' \in BOOLEAN /\ Renew
    BY <1>2, Zenon DEF Logseq_init
  <2>2. count_reserve' \in 0 .. WordBits - 1
    BY <1>2, NumbersAssumption DEF Logseq_init
  <2> QED
    BY <1>1, <2>1, <2>2
<1>3. CASE Logseq_destroy
  <2>1. created' \in BOOLEAN /\ Renew
    BY <1>3, Zenon DEF Logseq_destroy
  <2>2. count_reserve' \in 0 .. WordBits - 1
    BY <1>3, NumbersAssumption DEF Logseq_destroy
  <2> QED
    BY <1>1, <2>1, <2>2
<1>4. ASSUME NEW name \in Names, Mark(name) PROVE TypeInv'
  BY <1>4, TypeMark
<1>5. CASE UNCHANGED vars
  <2>1. /\ created' = created /\ count_reserve' = count_reserve /\ labels' = labels /\ trace' = trace
        /\ nodes' = nodes /\ strategies' = strategies /\ wild' = wild
    BY <1>5 DEF vars, ringVars
  <2>2. /\ label_mask' = label_mask /\ max_label_count' = max_label_count /\ Entries' = Entries
        /\ history!Slots' = history!Slots /\ history!Strategies' = history!Strategies
    BY <2>1 DEF label_mask, count_mask, max_label_count, Entries, history!Slots, history!buflength,
                history!Strategies
  <2> QED
    BY <2>1, <2>2, Zenon DEF TypeInv
<1> QED
  BY <1>2, <1>3, <1>4, <1>5 DEF Next

LEMMA TypeImplies ==
  ASSUME CutInv, TypeInv
  PROVE  TypeOK
<1>1. /\ RingShape /\ counts[0] \in 0 .. history!buflength /\ history!buflength \in Nat \ {0}
      /\ labels \in Seq(Names)
  BY OneRing DEF CutInv, IInv, RingFits, RingShape
<1>2. Entries \subseteq Words
  <2>1. PICK a \in Nat : Halves = 0 .. a - 1
    <3>1. WordBits \in Nat
      BY NumbersAssumption
    <3> QED
      BY <3>1, PowerCounts DEF Halves
  <2>2. PICK c \in Nat, l \in Nat : c = count_mask /\ l = label_mask /\ c \in Halves /\ l \in Halves
    BY Ranges DEF TypeInv
  <2>3. 0 .. c \subseteq Halves /\ 0 .. l \subseteq Halves
    BY <2>1, <2>2
  <2> QED
    BY <2>2, <2>3 DEF Entries, Words
<1>3. history!TypeOK
  <2>1. nodes \in [history!Buffers -> [history!Slots -> Words]]
    BY <1>2, OneRing DEF TypeInv
  <2>2. counts \in [history!Buffers -> 0 .. history!buflength]
    BY <1>1, OneRing DEF RingShape
  <2>3. points_r \in [history!Buffers -> history!Slots]
    BY <1>1, OneRing DEF RingShape
  <2>4. strategies \in [history!Buffers -> history!Strategies] /\ wild \in BOOLEAN
    BY OneRing DEF TypeInv
  <2> QED
    BY <2>1, <2>2, <2>3, <2>4 DEF history!TypeOK
<1>4. \A k \in 1 .. Len(History) : History[k] \in Entries
  <2>1. Len(History) = counts[0] /\ \A k \in 1 .. counts[0] : History[k] = EntryAt(k)
    BY <1>1 DEF History, history!getAll, EntryAt, Place
  <2>2. ASSUME NEW k \in 1 .. counts[0] PROVE EntryAt(k) \in Entries
    <3>1. k \in 1 .. history!buflength + 1 /\ points_r[0] \in history!Slots
      BY <1>1 DEF RingShape
    <3>2. Place(points_r[0], k) \in history!Slots
      BY <3>1, PlaceIs
    <3> QED
      BY <3>2 DEF EntryAt, TypeInv
  <2> HIDE DEF History
  <2> QED
    BY <2>1, <2>2
<1> QED
  BY <1>1, <1>3, <1>4, Zenon DEF TypeOK, TypeInv

\* The type invariant, the bounds that the width of a word sets to labels,
\* numbers and counts among it.
THEOREM TypeCorrect == Spec => []TypeOK
<1>1. Init => CutInv /\ TypeInv
  BY CutInit, TypeInvInit
<1>2. CutInv /\ TypeInv /\ [Next]_vars => CutInv' /\ TypeInv'
  BY CutStep, TypeInvStep DEF CutInv
<1>3. CutInv /\ TypeInv => TypeOK
  BY TypeImplies
<1> QED
  BY <1>1, <1>2, <1>3, PTL DEF Spec
====
