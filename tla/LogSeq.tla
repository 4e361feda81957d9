------------------------------- MODULE LogSeq -------------------------------
(***************************************************************************)
(* The execution recorder of template-noboost: Logseq_mark(label) notes    *)
(* that a place of the program was reached.  A label is numbered when it   *)
(* is first seen, and the numbers go to a RingBuffer of one overwriting    *)
(* ring, each with a count of its consecutive repetitions if count_bits    *)
(* reserves bits for it.  The word that holds both is a record here.       *)
(***************************************************************************)
EXTENDS Integers, Sequences

CONSTANTS
  Names,        \* the labels of the program
  HistorySize,  \* history_size
  CountBits,    \* the values of count_bits
  WordBits,     \* bound: the width of a word, 32 in the code
  NoValue,      \* a value that getLast has not assigned
  MaxMarks      \* bound: marks between two calls of Logseq_init

\* max_label_count is a number from two bits on.
ASSUME NumbersAssumption ==
  /\ HistorySize \in Nat /\ CountBits \subseteq Nat /\ MaxMarks \in Nat
  /\ WordBits \in Nat /\ WordBits >= 2

LOGSEQ_DEFAULT_HISTORY_SIZE == 32

Halves == 0 .. 2 ^ WordBits - 1
Words == [idx : Halves, n : Halves]
Entry(i, n) == [idx |-> i, n |-> n]

VARIABLES
  created,        \* logseq is not nullptr
  count_reserve,  \* bits of a word that hold the count
  labels,         \* the labels, in the order of their numbers, which start at 0
  trace,          \* history: the numbers marked since Logseq_init
  nodes, counts, points_r, strategies, wild, reply  \* of history, the ring

ringVars == <<nodes, counts, points_r, strategies, wild, reply>>
vars == <<created, count_reserve, labels, trace, ringVars>>

count_mask == 2 ^ count_reserve - 1
label_mask == IF count_reserve = 0 THEN 2 ^ WordBits - 1
                                   ELSE 2 ^ (WordBits - count_reserve) - 1
max_label_count == IF count_reserve = 0 THEN label_mask - 3 ELSE label_mask
\* What the number and the count of an entry may be.
Entries == [idx : 0 .. label_mask, n : 0 .. count_mask]

history == INSTANCE RingBuffer
             WITH Values <- Words, Default <- Entry(0, 0), BufferCount <- 1,
                  BufferLength <- IF HistorySize <= 0 THEN LOGSEQ_DEFAULT_HISTORY_SIZE
                                                      ELSE HistorySize,
                  DefaultStrategy <- "OVERWRITE", Indices <- {0}

\* getHistory
History == history!getAll(0)

Init ==
  /\ created = FALSE
  /\ count_reserve = 0
  /\ labels = <<>>
  /\ trace = <<>>
  /\ history!Init

\* Another object: no label numbered, an empty ring.
Renew ==
  /\ labels' = <<>>
  /\ trace' = <<>>
  /\ nodes' = history!DefaultNodes
  /\ counts' = history!Zeros /\ points_r' = history!Zeros
  /\ strategies' = history!DefaultStrategies
  /\ reply' = history!Refused("none", 0)
  /\ UNCHANGED wild

\* A second call leaks the first object.
Logseq_init(count_bits) ==
  /\ created' = TRUE
  /\ count_reserve' = IF count_bits >= WordBits THEN 0 ELSE count_bits
  /\ Renew

Logseq_destroy == created /\ created' = FALSE /\ count_reserve' = 0 /\ Renew

-----------------------------------------------------------------------------
Known(name) == \E k \in 1 .. Len(labels) : labels[k] = name
\* The number of a label: its position, or the next free one.
Number(name) == IF Known(name)
                  THEN (CHOOSE k \in 1 .. Len(labels) : labels[k] = name) - 1
                  ELSE Len(labels)

LearnAll(name) ==  \* mutant: the test of line 30 is missing
  labels' = IF Known(name) THEN labels ELSE Append(labels, name)
Learn(name) ==
  labels' = IF ~Known(name) /\ Len(labels) < max_label_count
              THEN Append(labels, name) ELSE labels

\* Line 41: the number of a label that found no place in the table is not used.
AnyNumber(i) == TRUE  \* mutant: line 41 is missing
Numbered(i) == i < max_label_count

\* The count of the last entry goes up by one, as far as its bits allow.
CountOn(i, e) ==  \* mutant: line 50 is missing, the count runs over
  history!SetLast(Entry(i, (e.n + 1) % (count_mask + 1)), 0)
CountUp(i, e) ==
  \/ e.n < count_mask /\ history!SetLast(Entry(i, e.n + 1), 0)
  \/ e.n = count_mask /\ UNCHANGED ringVars

\* Lines 42 to 65.  getLast fails on an empty ring, and, which is a fault of
\* RingBuffer, on one that is not full.
Record(i) ==
  LET last == history!getLast(0)
  IN  \/ count_reserve = 0 /\ history!Produce(Entry(i, 0), 0)
      \/ /\ count_reserve > 0
         /\ \/ last = NoValue /\ history!Produce(Entry(i, 1), 0)
            \/ last # NoValue /\ last.idx # i /\ history!Produce(Entry(i, 1), 0)
            \/ last # NoValue /\ last.idx = i /\ CountUp(i, last)

\* Without an object Logseq_mark does nothing.
Mark(name) ==
  /\ created /\ Len(trace) < MaxMarks
  /\ Learn(name)
  /\ \/ /\ Numbered(Number(name))
        /\ Record(Number(name))
        /\ trace' = Append(trace, Number(name))
     \/ ~Numbered(Number(name)) /\ UNCHANGED <<trace, ringVars>>
  /\ UNCHANGED <<created, count_reserve>>

Next ==
  \/ \E count_bits \in CountBits : Logseq_init(count_bits)
  \/ Logseq_destroy
  \/ \E name \in Names : Mark(name)

Spec == Init /\ [][Next]_vars

-----------------------------------------------------------------------------
(* Properties.                                                             *)

\* The type invariant; the ring has its own.  The numbers of the labels fit
\* into the bits that are left beside the count.
TypeOK ==
  /\ created \in BOOLEAN
  /\ count_reserve \in 0 .. WordBits - 1
  /\ labels \in Seq(Names) /\ Len(labels) <= max_label_count
  /\ trace \in Seq(0 .. label_mask)
  /\ history!TypeOK
  /\ \A k \in 1 .. Len(History) : History[k] \in Entries

\* Whoever reads the history in a debugger can name every entry: its number is
\* that of exactly one label, that of a label without a place is never used.
EntriesHaveLabels ==
  /\ \A j, k \in 1 .. Len(labels) : labels[j] = labels[k] => j = k
  /\ \A k \in 1 .. Len(History) : History[k].idx < Len(labels)

\* The history is the end of what was marked, in order: the marks can be cut
\* into stretches, one per entry, of that entry's number and as long as its
\* count says (at least so long when the count is exhausted), that end with the
\* last mark, and begin with the first unless the ring is full.
HistoryTellsTrace ==
  LET h == History
      Fits(e, len) == CASE count_reserve = 0 -> len = 1
                        [] count_reserve > 0 /\ e.n < count_mask -> len = e.n
                        [] OTHER -> len >= e.n
  IN  \E end \in [0 .. Len(h) -> 0 .. Len(trace)] :
        /\ end[Len(h)] = Len(trace)
        /\ Len(h) < history!buflength => end[0] = 0
        /\ \A k \in 1 .. Len(h) :
             /\ end[k - 1] < end[k]
             /\ Fits(h[k], end[k] - end[k - 1])
             /\ \A p \in end[k - 1] + 1 .. end[k] : trace[p] = h[k].idx
=============================================================================
