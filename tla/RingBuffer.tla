----------------------------- MODULE RingBuffer -----------------------------
(***************************************************************************)
(* RingBuffer<NODE_T> of template-noboost: bufcount rings of buflength     *)
(* slots each, addressed by an index.  Index -1 stands for all rings where *)
(* the code says so.  An operation that returns a value through a reference*)
(* leaves it in reply, together with the BOOL it returns.                  *)
(***************************************************************************)
EXTENDS Integers

CONSTANTS
  Values,           \* NODE_T
  Default,          \* default_value
  BufferLength,     \* buffer_length
  BufferCount,      \* buffer_count
  DefaultStrategy,  \* default_strategy
  Indices,          \* the indices callers pass
  NoValue           \* a reference parameter that has not been assigned

bufcount == IF BufferCount > 0 THEN BufferCount ELSE 1
buflength == IF BufferLength > 0 THEN BufferLength ELSE 1
Buffers == 0 .. bufcount - 1
Slots == 0 .. buflength - 1
Strategies == {"ERROR", "OVERWRITE"}

ASSUME SizeAssumption == BufferLength \in Nat /\ BufferCount \in Nat
ASSUME ValueAssumption == Default \in Values /\ NoValue \notin Values
ASSUME StrategyAssumption == DefaultStrategy \in Strategies
ASSUME IndexAssumption == Indices \subseteq Int

VARIABLES
  nodes,       \* the slots of each ring
  counts,      \* how many of them are in use
  points_r,    \* the slot of the oldest value
  strategies,  \* what a full ring does
  wild,        \* a vector has been indexed outside its bounds
  reply        \* the last operation, its result and the value it passed back

vars == <<nodes, counts, points_r, strategies, wild, reply>>

Granted(op, index, v) == [op |-> op, at |-> index, ok |-> TRUE, value |-> v]
Refused(op, index) == [op |-> op, at |-> index, ok |-> FALSE, value |-> NoValue]

\* What the constructor fills its vectors with.
DefaultNodes == [i \in Buffers |-> [p \in Slots |-> Default]]
Zeros == [i \in Buffers |-> 0]
DefaultStrategies == [i \in Buffers |-> DefaultStrategy]

Init ==
  /\ nodes = DefaultNodes
  /\ counts = Zeros
  /\ points_r = Zeros
  /\ strategies = DefaultStrategies
  /\ wild = FALSE
  /\ reply = Refused("none", 0)

-----------------------------------------------------------------------------
(* Reading.                                                                *)

StatusOf(n) == IF n = 0 THEN "EMPTY" ELSE IF n = buflength THEN "FULL" ELSE "PARTLY"

getStatus(index) ==
  CASE index = -1 -> IF \A i \in Buffers : StatusOf(counts[i]) = StatusOf(counts[0])
                       THEN StatusOf(counts[0]) ELSE "INCONSISTENT"
    [] index \in Buffers -> StatusOf(counts[index])
    [] OTHER -> "OUTOFRANGE"

FirstPos(i) == points_r[i]
LastPosUnshifted(i) == (counts[i] + buflength - 1) % buflength  \* mutant: without points_r
LastPos(i) == (points_r[i] + counts[i] + buflength - 1) % buflength
NextPosNoWrap(i) == points_r[i] + 1  \* mutant: the modulo is missing
NextPos(i) == (points_r[i] + 1) % buflength

\* The condition of getFirst, setFirst, getLast and setLast.  Its second half,
\* RINGBUFFER_STATUS_PARTLY == ret, compares the wrong variable: ret is FALSE.
EndsReachable(index) == getStatus(index) = "FULL"

\* The value they pass back, NoValue if they return FALSE; i is a ring's index.
getFirst(i) == IF EndsReachable(i) THEN nodes[i][FirstPos(i)] ELSE NoValue
getLast(i) == IF EndsReachable(i) THEN nodes[i][LastPos(i)] ELSE NoValue

\* The values of a ring, the oldest first.
getAll(i) == [k \in 1 .. counts[i] |-> nodes[i][(points_r[i] + k - 1) % buflength]]

-----------------------------------------------------------------------------
(* Writing.                                                                *)

Refuse(op, index) ==
  reply' = Refused(op, index) /\ UNCHANGED <<nodes, counts, points_r, strategies, wild>>

\* getStatus(-1) is that of all rings if they agree, and then the operation
\* goes on to use -1 as an index of its vectors.  What happens next is undefined.
RunWild == wild' = TRUE /\ UNCHANGED <<nodes, counts, points_r, strategies, reply>>

Store(i, pos, v) == nodes' = [nodes EXCEPT ![i][pos] = v]

AppendKeepsHead(i, v) ==  \* mutant: line 137 is missing
  /\ Store(i, points_r[i], v)
  /\ UNCHANGED points_r
OverwriteOldest(i, v) ==
  /\ Store(i, points_r[i], v)
  /\ points_r' = [points_r EXCEPT ![i] = NextPos(i)]

Produce(v, index) ==
  /\ ~wild
  /\ \/ /\ getStatus(index) \in {"EMPTY", "PARTLY"} /\ index \in Buffers
        /\ Store(index, (points_r[index] + counts[index]) % buflength, v)
        /\ counts' = [counts EXCEPT ![index] = @ + 1]
        /\ reply' = Granted("produce", index, NoValue)
        /\ UNCHANGED <<points_r, strategies, wild>>
     \/ /\ getStatus(index) = "FULL" /\ index \in Buffers /\ strategies[index] = "OVERWRITE"
        /\ OverwriteOldest(index, v)
        /\ reply' = Granted("produce", index, NoValue)
        /\ UNCHANGED <<counts, strategies, wild>>
     \/ /\ getStatus(index) = "FULL" /\ index \in Buffers /\ strategies[index] # "OVERWRITE"
        /\ Refuse("produce", index)
     \/ getStatus(index) \in {"INCONSISTENT", "OUTOFRANGE"} /\ Refuse("produce", index)
     \/ getStatus(index) \in {"EMPTY", "PARTLY", "FULL"} /\ index = -1 /\ RunWild

Consume(index) ==
  /\ ~wild
  /\ \/ /\ getStatus(index) \in {"FULL", "PARTLY"} /\ index \in Buffers
        /\ reply' = Granted("consume", index, nodes[index][points_r[index]])
        /\ points_r' = [points_r EXCEPT ![index] = NextPos(index)]
        /\ counts' = [counts EXCEPT ![index] = @ - 1]
        /\ UNCHANGED <<nodes, strategies, wild>>
     \/ getStatus(index) \in {"EMPTY", "INCONSISTENT", "OUTOFRANGE"} /\ Refuse("consume", index)
     \/ getStatus(index) \in {"FULL", "PARTLY"} /\ index = -1 /\ RunWild

\* setFirst and setLast, but for the slot.  setValueByPos never refuses the
\* index of a ring, and would refuse -1 only after points_r[-1] has been read.
SetEnd(op, v, index, pos) ==
  /\ ~wild
  /\ \/ /\ EndsReachable(index) /\ index \in Buffers
        /\ Store(index, pos, v)
        /\ reply' = Granted(op, index, NoValue)
        /\ UNCHANGED <<counts, points_r, strategies, wild>>
     \/ ~EndsReachable(index) /\ Refuse(op, index)
     \/ EndsReachable(index) /\ index = -1 /\ RunWild

SetFirst(v, index) == SetEnd("setFirst", v, index, FirstPos(index))
SetLast(v, index) == SetEnd("setLast", v, index, LastPos(index))

SetStrategy(s, index) ==
  /\ ~wild
  /\ \/ /\ index \in Buffers \cup {-1}
        /\ strategies' = [i \in Buffers |-> IF index \in {-1, i} THEN s ELSE strategies[i]]
        /\ reply' = Granted("setStrategy", index, NoValue)
        /\ UNCHANGED <<nodes, counts, points_r, wild>>
     \/ index \notin Buffers \cup {-1} /\ Refuse("setStrategy", index)

\* -1 is the default index of setStrategy.
Next ==
  \/ \E index \in Indices, v \in Values :
       Produce(v, index) \/ SetFirst(v, index) \/ SetLast(v, index)
  \/ \E index \in Indices : Consume(index)
  \/ \E index \in Indices \cup {-1}, s \in Strategies : SetStrategy(s, index)

Spec == Init /\ [][Next]_vars

-----------------------------------------------------------------------------
(* Properties.                                                             *)

\* The type invariant: the read position is a slot and no ring overflows.
TypeOK ==
  /\ nodes \in [Buffers -> [Slots -> Values]]
  /\ counts \in [Buffers -> 0 .. buflength]
  /\ points_r \in [Buffers -> Slots]
  /\ strategies \in [Buffers -> Strategies]
  /\ wild \in BOOLEAN

\* Every ring behaves as a bounded FIFO queue whose content is getAll.
Queue == INSTANCE BoundedQueue
           WITH Queues <- Buffers, Capacity <- buflength, Overwrite <- "OVERWRITE",
                queue <- [i \in Buffers |-> getAll(i)], policy <- strategies
RefinesQueue == Queue!Spec

\* getLast and getFirst, where they succeed, agree with getAll: the newest value
\* is the last one, the oldest the first, however often the ring has wrapped.
EndsAgree ==
  \A i \in Buffers : EndsReachable(i) =>
    getFirst(i) = getAll(i)[1] /\ getLast(i) = getAll(i)[counts[i]]
=============================================================================
