-------------------------- MODULE RingBufferProofs --------------------------
(* Proofs about RingBuffer: its types, and that it implements BoundedQueue, *)
(* for every number and length of buffers.                                  *)
EXTENDS RingBuffer, SequenceTheorems, TLAPS

\* The values that can be in a slot and the integers they are addressed with.
LEMMA Sizes ==
  /\ buflength \in Nat \ {0}
  /\ bufcount \in Nat \ {0}
  /\ 0 \in Slots
  /\ 0 \in Buffers
  /\ -1 \notin Buffers
BY SizeAssumption DEF buflength, bufcount, Slots, Buffers

\* Addresses are reduced modulo a length they exceed less than twice.
LEMMA Wrap ==
  ASSUME NEW n \in Nat \ {0}, NEW x \in 0 .. n + n - 1
  PROVE  x % n = IF x < n THEN x ELSE x - n
<1>1. CASE x < n
  BY <1>1
<1>2. CASE x >= n
  BY <1>2
<1> QED
  BY <1>1, <1>2

LEMMA TypeInit == Init => TypeOK
<1> SUFFICES ASSUME Init PROVE TypeOK
  OBVIOUS
<1>1. counts \in [Buffers -> 0 .. buflength] /\ points_r \in [Buffers -> Slots]
  BY Sizes DEF Init, Zeros
<1>2. nodes \in [Buffers -> [Slots -> Values]] /\ strategies \in [Buffers -> Strategies]
  BY ValueAssumption, StrategyAssumption DEF Init, DefaultNodes, DefaultStrategies
<1>3. wild \in BOOLEAN
  BY Zenon DEF Init
<1> QED
  BY <1>1, <1>2, <1>3 DEF TypeOK

\* The status of a ring tells how many values it has.
LEMMA StatusOfRing ==
  ASSUME TypeOK, NEW i \in Buffers
  PROVE  /\ getStatus(i) \in {"EMPTY", "PARTLY"} => counts[i] \in 0 .. buflength - 1
         /\ getStatus(i) = "FULL" <=> counts[i] = buflength
         /\ getStatus(i) \in {"FULL", "PARTLY"} => counts[i] \in 1 .. buflength
         /\ getStatus(i) \in {"EMPTY", "INCONSISTENT", "OUTOFRANGE"} => counts[i] = 0
         /\ getStatus(i) \notin {"INCONSISTENT", "OUTOFRANGE"}
<1> i # -1 /\ counts[i] \in 0 .. buflength /\ buflength \in Nat \ {0}
  BY Sizes DEF TypeOK
<1>1. getStatus(i) = StatusOf(counts[i])
  BY DEF getStatus
<1> QED
  BY <1>1 DEF StatusOf

LEMMA TypeStep == TypeOK /\ [Next]_vars => TypeOK'
<1> SUFFICES ASSUME TypeOK, [Next]_vars PROVE TypeOK'
  OBVIOUS
<1> buflength \in Nat \ {0}
  BY Sizes
<1>0. ASSUME NEW i \in Buffers
      PROVE  /\ (points_r[i] + 1) % buflength \in Slots
             /\ \A c \in 0 .. buflength : (points_r[i] + c) % buflength \in Slots
             /\ (points_r[i] + counts[i] + buflength - 1) % buflength \in Slots
  <2> points_r[i] \in 0 .. buflength - 1 /\ counts[i] \in 0 .. buflength
    BY <1>0 DEF TypeOK, Slots
  <2> QED
    BY DEF Slots
<1>1. ASSUME NEW op, NEW index, Refuse(op, index) \/ RunWild PROVE TypeOK'
  BY <1>1 DEF TypeOK, Refuse, RunWild
<1>2. ASSUME NEW i \in Buffers, NEW pos \in Slots, NEW v \in Values, Store(i, pos, v)
      PROVE  nodes' \in [Buffers -> [Slots -> Values]]
  BY <1>2 DEF TypeOK, Store
<1>3. ASSUME NEW index \in Indices, NEW v \in Values, Produce(v, index) PROVE TypeOK'
  <2>1. CASE getStatus(index) \in {"EMPTY", "PARTLY"} /\ index \in Buffers
    <3>1. counts[index] \in 0 .. buflength - 1
      BY <2>1, StatusOfRing
    <3>2. /\ Store(index, (points_r[index] + counts[index]) % buflength, v)
          /\ counts' = [counts EXCEPT ![index] = @ + 1]
          /\ UNCHANGED <<points_r, strategies, wild>>
      BY <1>3, <2>1, Sizes DEF Produce
    <3>3. nodes' \in [Buffers -> [Slots -> Values]]
      BY <1>0, <1>2, <2>1, <3>1, <3>2
    <3>4. counts' \in [Buffers -> 0 .. buflength]
      BY <2>1, <3>1, <3>2 DEF TypeOK
    <3> QED
      BY <3>2, <3>3, <3>4 DEF TypeOK
  <2>2. CASE index \in Buffers /\ OverwriteOldest(index, v) /\ UNCHANGED <<counts, strategies, wild>>
    <3>1. nodes' \in [Buffers -> [Slots -> Values]]
      BY <1>2, <2>2 DEF OverwriteOldest, TypeOK
    <3>2. points_r' \in [Buffers -> Slots]
      BY <1>0, <2>2 DEF OverwriteOldest, NextPos, TypeOK
    <3> QED
      BY <2>2, <3>1, <3>2 DEF TypeOK
  <2> QED
    BY <1>1, <1>3, <2>1, <2>2 DEF Produce
<1>4. ASSUME NEW index \in Indices, Consume(index) PROVE TypeOK'
  <2>1. CASE getStatus(index) \in {"FULL", "PARTLY"} /\ index \in Buffers
    <3>1. counts[index] \in 1 .. buflength
      BY <2>1, StatusOfRing
    <3>2. /\ points_r' = [points_r EXCEPT ![index] = NextPos(index)]
          /\ counts' = [counts EXCEPT ![index] = @ - 1]
          /\ UNCHANGED <<nodes, strategies, wild>>
      BY <1>4, <2>1, Sizes DEF Consume
    <3>3. points_r' \in [Buffers -> Slots]
      BY <1>0, <2>1, <3>2 DEF NextPos, TypeOK
    <3>4. counts' \in [Buffers -> 0 .. buflength]
      BY <2>1, <3>1, <3>2 DEF TypeOK
    <3> QED
      BY <3>2, <3>3, <3>4 DEF TypeOK
  <2> QED
    BY <1>1, <1>4, <2>1 DEF Consume
<1>5. ASSUME NEW index \in Indices, NEW v \in Values, NEW op, NEW pos,
             index \in Buffers => pos \in Slots, SetEnd(op, v, index, pos)
      PROVE  TypeOK'
  <2>1. CASE index \in Buffers /\ Store(index, pos, v) /\ UNCHANGED <<counts, points_r, strategies, wild>>
    BY <1>2, <1>5, <2>1 DEF TypeOK
  <2> QED
    BY <1>1, <1>5, <2>1 DEF SetEnd
<1>6. ASSUME NEW index \in Indices, NEW v \in Values, SetFirst(v, index) \/ SetLast(v, index)
      PROVE  TypeOK'
  <2>1. index \in Buffers => FirstPos(index) \in Slots /\ LastPos(index) \in Slots
    BY <1>0 DEF FirstPos, LastPos, TypeOK
  <2> QED
    BY <1>5, <1>6, <2>1 DEF SetFirst, SetLast
<1>7. ASSUME NEW index, NEW s \in Strategies, SetStrategy(s, index) PROVE TypeOK'
  <2>1. CASE /\ strategies' = [i \in Buffers |-> IF index \in {-1, i} THEN s ELSE strategies[i]]
             /\ UNCHANGED <<nodes, counts, points_r, wild>>
    BY <2>1 DEF TypeOK
  <2> QED
    BY <1>1, <1>7, <2>1 DEF SetStrategy
<1>8. CASE UNCHANGED vars
  BY <1>8 DEF TypeOK, vars
<1> QED
  BY <1>3, <1>4, <1>6, <1>7, <1>8 DEF Next

\* No read position leaves its ring and no ring holds more than buflength values.
THEOREM RingTypeCorrect == Spec => []TypeOK
BY TypeInit, TypeStep, PTL DEF Spec

-----------------------------------------------------------------------------
(* A ring as a value: slots f, read position p, c values in use.            *)

Slot(p, k) == (p + k - 1) % buflength
Ring(f, p, c) == [k \in 1 .. c |-> f[Slot(p, k)]]

\* The slot of the k-th value; different ranks have different slots.
LEMMA SlotValue ==
  ASSUME NEW p \in Slots, NEW k \in 1 .. buflength + 1
  PROVE  /\ Slot(p, k) = IF p + k - 1 < buflength THEN p + k - 1 ELSE p + k - 1 - buflength
         /\ Slot(p, k) \in Slots
<1> p \in 0 .. buflength - 1 /\ buflength \in Nat \ {0}
  BY Sizes DEF Slots
<1> DEFINE x == p + k - 1
<1>1. x \in 0 .. buflength + buflength - 1
  OBVIOUS
<1>2. x % buflength = IF x < buflength THEN x ELSE x - buflength
  BY <1>1, Wrap
<1> QED
  BY <1>1, <1>2 DEF Slot, Slots

LEMMA SlotsDiffer ==
  ASSUME NEW p \in Slots, NEW j \in 1 .. buflength, NEW k \in 1 .. buflength, j # k
  PROVE  Slot(p, j) # Slot(p, k)
<1> p \in 0 .. buflength - 1 /\ buflength \in Nat \ {0}
  BY Sizes DEF Slots
<1> QED
  BY SlotValue

\* The k-th value after the read position has moved on is the k+1-st before.
LEMMA SlotShift ==
  ASSUME NEW p \in Slots, NEW k \in 1 .. buflength
  PROVE  (p + 1) % buflength \in Slots /\ Slot((p + 1) % buflength, k) = Slot(p, k + 1)
<1> p \in 0 .. buflength - 1 /\ buflength \in Nat \ {0}
  BY Sizes DEF Slots
<1>1. (p + 1) % buflength = IF p + 1 < buflength THEN p + 1 ELSE 0
  <2> DEFINE x == p + 1
  <2>1. x \in 0 .. buflength + buflength - 1
    OBVIOUS
  <2>2. x % buflength = IF x < buflength THEN x ELSE x - buflength
    BY <2>1, Wrap
  <2> QED
    BY <2>2
<1>2. (p + 1) % buflength \in Slots
  BY <1>1 DEF Slots
<1>3. Slot(p, k + 1) = IF p + k < buflength THEN p + k ELSE p + k - buflength
  BY SlotValue
<1>4. CASE p + 1 < buflength
  BY <1>1, <1>2, <1>3, <1>4, SlotValue
<1>5. CASE p + 1 >= buflength
  <2> (p + 1) % buflength = 0 /\ p = buflength - 1
    BY <1>1, <1>5
  <2>1. Slot(0, k) = IF k - 1 < buflength THEN k - 1 ELSE k - 1 - buflength
    BY SlotValue, Sizes
  <2> QED
    BY <1>2, <1>3, <2>1
<1> QED
  BY <1>4, <1>5

\* getLast and setLast add buflength - 1 rather than subtract 1.
LEMMA LastSlot ==
  ASSUME NEW p \in Slots, NEW c \in 1 .. buflength
  PROVE  (p + c + buflength - 1) % buflength = Slot(p, c)
<1> p \in 0 .. buflength - 1 /\ buflength \in Nat \ {0}
  BY Sizes DEF Slots
<1> DEFINE x == p + c - 1
<1>1. x \in Nat /\ p + c + buflength - 1 = x + buflength
  OBVIOUS
<1>2. (x + buflength) % buflength = x % buflength
  BY <1>1
<1> QED
  BY <1>1, <1>2 DEF Slot

LEMMA RingContent ==
  ASSUME NEW f \in [Slots -> Values], NEW p \in Slots, NEW c \in 0 .. buflength
  PROVE  /\ Ring(f, p, c) \in Seq(Values)
         /\ Len(Ring(f, p, c)) = c
         /\ \A k \in 1 .. c : Ring(f, p, c)[k] = f[Slot(p, k)]
<1>1. c \in Nat /\ buflength \in Nat
  BY Sizes
<1>2. \A k \in 1 .. c : Slot(p, k) \in Slots
  BY <1>1, SlotValue
<1>3. Ring(f, p, c) \in [1 .. c -> Values]
  BY <1>2 DEF Ring
<1>4. Ring(f, p, c) \in Seq(Values)
  BY <1>1, <1>3, SeqDef
<1>5. Len(Ring(f, p, c)) = c
  BY <1>1, <1>4, LenProperties DEF Ring
<1> QED
  BY <1>4, <1>5 DEF Ring

\* Storing behind the last value appends it.
LEMMA RingAppend ==
  ASSUME NEW f \in [Slots -> Values], NEW p \in Slots, NEW c \in 0 .. buflength - 1,
         NEW v \in Values
  PROVE  Ring([f EXCEPT ![(p + c) % buflength] = v], p, c + 1) = Append(Ring(f, p, c), v)
<1> c \in Nat /\ buflength \in Nat \ {0}
  BY Sizes
<1> DEFINE g == [f EXCEPT ![(p + c) % buflength] = v]
<1>1. (p + c) % buflength = Slot(p, c + 1)
  BY Sizes DEF Slot, Slots
<1>2. \A k \in 1 .. c + 1 : Slot(p, k) \in Slots
  BY SlotValue
<1>3. g \in [Slots -> Values]
  OBVIOUS
<1>4. \A k \in 1 .. c : g[Slot(p, k)] = f[Slot(p, k)]
  BY <1>1, <1>2, SlotsDiffer
<1>5. g[Slot(p, c + 1)] = v
  BY <1>1, <1>2
<1>6. /\ Ring(g, p, c + 1) \in Seq(Values) /\ Len(Ring(g, p, c + 1)) = c + 1
      /\ \A k \in 1 .. c + 1 : Ring(g, p, c + 1)[k] = g[Slot(p, k)]
  <2> HIDE DEF g
  <2>1. c + 1 \in 0 .. buflength
    OBVIOUS
  <2> QED
    BY <1>3, <2>1, RingContent
<1>7. /\ Append(Ring(f, p, c), v) \in Seq(Values) /\ Len(Append(Ring(f, p, c), v)) = c + 1
      /\ \A k \in 1 .. c : Append(Ring(f, p, c), v)[k] = f[Slot(p, k)]
      /\ Append(Ring(f, p, c), v)[c + 1] = v
  BY RingContent, AppendProperties
<1> HIDE DEF g
<1>8. \A k \in 1 .. c + 1 : Ring(g, p, c + 1)[k] = Append(Ring(f, p, c), v)[k]
  BY <1>4, <1>5, <1>6, <1>7
<1>9. Ring(g, p, c + 1) = Append(Ring(f, p, c), v)
  BY <1>6, <1>7, <1>8, SeqEqual
<1> QED
  BY <1>9 DEF g

\* Moving the read position on takes the oldest value away.
LEMMA RingTail ==
  ASSUME NEW f \in [Slots -> Values], NEW p \in Slots, NEW c \in 1 .. buflength
  PROVE  /\ Ring(f, p, c) # <<>>
         /\ Head(Ring(f, p, c)) = f[p]
         /\ Ring(f, (p + 1) % buflength, c - 1) = Tail(Ring(f, p, c))
<1> c \in Nat /\ buflength \in Nat \ {0} /\ c - 1 \in 0 .. buflength
  BY Sizes
<1> DEFINE q == (p + 1) % buflength
<1>1. q \in Slots /\ \A k \in 1 .. buflength : Slot(q, k) = Slot(p, k + 1)
  BY SlotShift
<1> HIDE DEF q
<1>2. /\ Ring(f, p, c) \in Seq(Values) /\ Len(Ring(f, p, c)) = c
      /\ \A k \in 1 .. c : Ring(f, p, c)[k] = f[Slot(p, k)]
  BY RingContent
<1>3. Ring(f, p, c) # <<>>
  BY <1>2, EmptySeq
<1>4. Slot(p, 1) = p
  BY SlotValue DEF Slots
<1>5. Head(Ring(f, p, c)) = f[p]
  BY <1>2, <1>4
<1>6. /\ Tail(Ring(f, p, c)) \in Seq(Values) /\ Len(Tail(Ring(f, p, c))) = c - 1
      /\ \A k \in 1 .. c - 1 : Tail(Ring(f, p, c))[k] = Ring(f, p, c)[k + 1]
  BY <1>2, <1>3, HeadTailProperties
<1>7. /\ Ring(f, q, c - 1) \in Seq(Values) /\ Len(Ring(f, q, c - 1)) = c - 1
      /\ \A k \in 1 .. c - 1 : Ring(f, q, c - 1)[k] = f[Slot(q, k)]
  BY <1>1, RingContent
<1>8. \A k \in 1 .. c - 1 : Ring(f, q, c - 1)[k] = Tail(Ring(f, p, c))[k]
  BY <1>1, <1>2, <1>6, <1>7
<1>9. Ring(f, q, c - 1) = Tail(Ring(f, p, c))
  BY <1>6, <1>7, <1>8, SeqEqual
<1> QED
  BY <1>3, <1>5, <1>9 DEF q

\* Overwriting the slot of the oldest value of a full ring loses that value and
\* appends the new one.
LEMMA RingOverwrite ==
  ASSUME NEW f \in [Slots -> Values], NEW p \in Slots, NEW v \in Values
  PROVE  Ring([f EXCEPT ![p] = v], (p + 1) % buflength, buflength)
           = Append(Tail(Ring(f, p, buflength)), v)
<1> DEFINE q == (p + 1) % buflength
           c == buflength - 1
<1> buflength \in Nat \ {0} /\ c \in 0 .. buflength - 1
  BY Sizes
<1>1. q \in Slots /\ Slot(q, buflength) = Slot(p, buflength + 1)
  BY SlotShift
<1>2. Slot(p, buflength + 1) = p
  BY SlotValue DEF Slots
<1>3. (q + c) % buflength = Slot(q, buflength)
  BY <1>1 DEF Slot, Slots
<1>4. Ring(f, q, c) = Tail(Ring(f, p, buflength))
  BY RingTail
<1>5. Ring([f EXCEPT ![(q + c) % buflength] = v], q, c + 1) = Append(Ring(f, q, c), v)
  BY <1>1, RingAppend
<1> HIDE DEF q
<1>6. (q + c) % buflength = p /\ c + 1 = buflength
  BY <1>1, <1>2, <1>3
<1>7. Ring([f EXCEPT ![p] = v], q, buflength) = Append(Ring(f, q, c), v)
  BY <1>5, <1>6
<1> QED
  BY <1>4, <1>7 DEF q

\* Storing in the slot of a value replaces that value.
LEMMA RingReplace ==
  ASSUME NEW f \in [Slots -> Values], NEW p \in Slots, NEW c \in 1 .. buflength,
         NEW k \in 1 .. c, NEW v \in Values
  PROVE  Ring([f EXCEPT ![Slot(p, k)] = v], p, c) = [Ring(f, p, c) EXCEPT ![k] = v]
<1> buflength \in Nat \ {0}
  BY Sizes
<1>1. \A j \in 1 .. c : Slot(p, j) \in Slots /\ (j # k => Slot(p, j) # Slot(p, k))
  BY SlotValue, SlotsDiffer
<1> QED
  BY <1>1 DEF Ring

-----------------------------------------------------------------------------
(* RingBuffer implements BoundedQueue.                                     *)

QueueOf == [i \in Buffers |-> getAll(i)]

LEMMA GetAllIsRing ==
  ASSUME TypeOK, NEW i \in Buffers
  PROVE  /\ getAll(i) = Ring(nodes[i], points_r[i], counts[i])
         /\ nodes[i] \in [Slots -> Values]
         /\ points_r[i] \in Slots
         /\ counts[i] \in 0 .. buflength
         /\ Len(getAll(i)) = counts[i]
         /\ counts[i] = 0 => getAll(i) = <<>>
<1>1. getAll(i) = Ring(nodes[i], points_r[i], counts[i])
  BY DEF getAll, Ring, Slot
<1>2. nodes[i] \in [Slots -> Values] /\ points_r[i] \in Slots /\ counts[i] \in 0 .. buflength
  BY DEF TypeOK
<1>3. getAll(i) \in Seq(Values) /\ Len(getAll(i)) = counts[i]
  BY <1>1, <1>2, RingContent
<1>4. counts[i] = 0 => getAll(i) = <<>>
  BY <1>3, EmptySeq
<1> QED
  BY <1>1, <1>2, <1>3, <1>4

\* An operation on one ring leaves the content of the others alone.
LEMMA OneRing ==
  ASSUME NEW i \in Buffers, NEW f, NEW p, NEW c,
         nodes'[i] = f, points_r'[i] = p, counts'[i] = c,
         \A j \in Buffers \ {i} : nodes'[j] = nodes[j] /\ points_r'[j] = points_r[j]
                                                        /\ counts'[j] = counts[j]
  PROVE  QueueOf' = [QueueOf EXCEPT ![i] = Ring(f, p, c)]
<1>1. getAll(i)' = Ring(f, p, c)
  BY DEF getAll, Ring, Slot
<1>2. \A j \in Buffers \ {i} : getAll(j)' = getAll(j)
  BY DEF getAll
<1> QED
  BY <1>1, <1>2 DEF QueueOf

LEMMA RefinesInit == Init => Queue!Init
<1> SUFFICES ASSUME Init PROVE Queue!Init
  OBVIOUS
<1>1. \A i \in Buffers : getAll(i) = <<>>
  BY TypeInit, GetAllIsRing DEF Init, Zeros
<1>2. strategies = [i \in Buffers |-> DefaultStrategy] /\ reply = Queue!Refused("none", 0)
  BY DEF Init, DefaultStrategies, Refused, Queue!Refused
<1> QED
  BY <1>1, <1>2, StrategyAssumption DEF Queue!Init

\* The refusals of RingBuffer are among the reasons BoundedQueue names.
LEMMA RefinesRefuse ==
  ASSUME TypeOK, NEW op, NEW index, Refuse(op, index),
         op \in {"produce", "consume", "setFirst", "setLast", "setStrategy"},
         \/ index \in Indices \ Buffers
         \/ /\ index \in Buffers
            /\ \/ op = "produce" /\ counts[index] = buflength /\ strategies[index] # "OVERWRITE"
               \/ op = "consume" /\ counts[index] = 0
               \/ op \in {"setFirst", "setLast"} /\ counts[index] # buflength
  PROVE  Queue!Refuse
<1>1. UNCHANGED <<QueueOf, strategies>> /\ reply' = Queue!Refused(op, index)
  BY DEF Refuse, Refused, Queue!Refused, QueueOf, getAll
<1>2. CASE index \in Indices \ Buffers
  BY <1>1, <1>2 DEF Queue!Refuse, QueueOf
<1>3. CASE index \in Buffers
  <2>1. QueueOf[index] = getAll(index) /\ Len(QueueOf[index]) = counts[index]
    BY <1>3, GetAllIsRing DEF QueueOf
  <2>2. counts[index] = 0 => QueueOf[index] = <<>>
    BY <1>3, <2>1, GetAllIsRing
  <2> QED
    BY <1>1, <1>3, <2>1, <2>2 DEF Queue!Refuse, Queue!IsFull, QueueOf
<1> QED
  BY <1>2, <1>3

LEMMA RefinesProduce ==
  ASSUME TypeOK, NEW index \in Indices, NEW v \in Values, Produce(v, index)
  PROVE  Queue!Next \/ UNCHANGED Queue!vars
<1> DEFINE f == nodes[index]
           p == points_r[index]
           c == counts[index]
<1> index \in Buffers =>
      /\ f \in [Slots -> Values] /\ p \in Slots /\ c \in 0 .. buflength
      /\ getAll(index) = Ring(f, p, c) /\ QueueOf[index] = getAll(index)
      /\ Len(QueueOf[index]) = c
  BY GetAllIsRing DEF QueueOf
<1> buflength \in Nat \ {0}
  BY Sizes
<1>1. CASE getStatus(index) \in {"EMPTY", "PARTLY"} /\ index \in Buffers
  <2>1. c \in 0 .. buflength - 1
    BY <1>1, StatusOfRing
  <2>2. /\ Store(index, (p + c) % buflength, v)
        /\ counts' = [counts EXCEPT ![index] = @ + 1]
        /\ reply' = Granted("produce", index, NoValue)
        /\ UNCHANGED <<points_r, strategies>>
    BY <1>1, Sizes DEF Produce
  <2>3. QueueOf' = [QueueOf EXCEPT ![index] =
                      Ring([f EXCEPT ![(p + c) % buflength] = v], p, c + 1)]
    <3>1. /\ nodes'[index] = [f EXCEPT ![(p + c) % buflength] = v]
          /\ points_r'[index] = p /\ counts'[index] = c + 1
      BY <1>1, <2>2 DEF TypeOK, Store
    <3>2. \A j \in Buffers \ {index} : nodes'[j] = nodes[j] /\ points_r'[j] = points_r[j]
                                                          /\ counts'[j] = counts[j]
      BY <1>1, <2>2 DEF TypeOK, Store
    <3> QED
      BY <1>1, <3>1, <3>2, OneRing
  <2>4. QueueOf' = [QueueOf EXCEPT ![index] = Append(QueueOf[index], v)]
    <3>1. Ring([f EXCEPT ![(p + c) % buflength] = v], p, c + 1) = Append(Ring(f, p, c), v)
      BY <1>1, <2>1, RingAppend
    <3> QED
      BY <1>1, <2>3, <3>1
  <2>5. Queue!Put(index, v)
    BY <1>1, <2>1, <2>2, <2>4 DEF Queue!Put, Queue!IsFull, Queue!Granted, Granted, QueueOf
  <2> QED
    BY <1>1, <2>5 DEF Queue!Next
<1>2. CASE getStatus(index) = "FULL" /\ index \in Buffers /\ strategies[index] = "OVERWRITE"
  <2>1. c = buflength
    BY <1>2, StatusOfRing
  <2>2. /\ Store(index, p, v)
        /\ points_r' = [points_r EXCEPT ![index] = (p + 1) % buflength]
        /\ reply' = Granted("produce", index, NoValue)
        /\ UNCHANGED <<counts, strategies>>
    BY <1>2, Sizes DEF Produce, OverwriteOldest, NextPos
  <2>3. QueueOf' = [QueueOf EXCEPT ![index] =
                      Ring([f EXCEPT ![p] = v], (p + 1) % buflength, buflength)]
    <3>1. /\ nodes'[index] = [f EXCEPT ![p] = v]
          /\ points_r'[index] = (p + 1) % buflength /\ counts'[index] = buflength
      BY <1>2, <2>1, <2>2 DEF TypeOK, Store
    <3>2. \A j \in Buffers \ {index} : nodes'[j] = nodes[j] /\ points_r'[j] = points_r[j]
                                                          /\ counts'[j] = counts[j]
      BY <1>2, <2>2 DEF TypeOK, Store
    <3> QED
      BY <1>2, <3>1, <3>2, OneRing
  <2>4. QueueOf' = [QueueOf EXCEPT ![index] = Append(Tail(QueueOf[index]), v)]
    <3>1. Ring([f EXCEPT ![p] = v], (p + 1) % buflength, buflength)
            = Append(Tail(Ring(f, p, buflength)), v)
      BY <1>2, RingOverwrite
    <3> QED
      BY <1>2, <2>1, <2>3, <3>1
  <2>5. Queue!Put(index, v)
    BY <1>2, <2>1, <2>2, <2>4 DEF Queue!Put, Queue!IsFull, Queue!Granted, Granted, QueueOf
  <2> QED
    BY <1>2, <2>5 DEF Queue!Next
<1>3. CASE /\ getStatus(index) = "FULL" /\ index \in Buffers
           /\ strategies[index] # "OVERWRITE" /\ Refuse("produce", index)
  <2> c = buflength
    BY <1>3, StatusOfRing
  <2> QED
    BY <1>3, RefinesRefuse DEF Queue!Next
<1>4. CASE getStatus(index) \in {"INCONSISTENT", "OUTOFRANGE"} /\ Refuse("produce", index)
  <2> index \notin Buffers
    BY <1>4, StatusOfRing
  <2> QED
    BY <1>4, RefinesRefuse DEF Queue!Next
<1>5. CASE RunWild
  BY <1>5 DEF RunWild, Queue!vars, getAll
<1> QED
  BY <1>1, <1>2, <1>3, <1>4, <1>5 DEF Produce

LEMMA RefinesConsume ==
  ASSUME TypeOK, NEW index \in Indices, Consume(index)
  PROVE  Queue!Next \/ UNCHANGED Queue!vars
<1> DEFINE f == nodes[index]
           p == points_r[index]
           c == counts[index]
<1> index \in Buffers =>
      /\ f \in [Slots -> Values] /\ p \in Slots /\ c \in 0 .. buflength
      /\ getAll(index) = Ring(f, p, c) /\ QueueOf[index] = getAll(index)
  BY GetAllIsRing DEF QueueOf
<1>1. CASE getStatus(index) \in {"FULL", "PARTLY"} /\ index \in Buffers
  <2>1. c \in 1 .. buflength
    BY <1>1, StatusOfRing
  <2>2. /\ reply' = Granted("consume", index, f[p])
        /\ points_r' = [points_r EXCEPT ![index] = (p + 1) % buflength]
        /\ counts' = [counts EXCEPT ![index] = @ - 1]
        /\ UNCHANGED <<nodes, strategies>>
    BY <1>1, Sizes DEF Consume, NextPos
  <2>3. QueueOf' = [QueueOf EXCEPT ![index] = Ring(f, (p + 1) % buflength, c - 1)]
    <3>1. /\ nodes'[index] = f
          /\ points_r'[index] = (p + 1) % buflength /\ counts'[index] = c - 1
      BY <1>1, <2>2 DEF TypeOK
    <3>2. \A j \in Buffers \ {index} : nodes'[j] = nodes[j] /\ points_r'[j] = points_r[j]
                                                          /\ counts'[j] = counts[j]
      BY <1>1, <2>2 DEF TypeOK
    <3> QED
      BY <1>1, <3>1, <3>2, OneRing
  <2>4. /\ QueueOf[index] # <<>> /\ Head(QueueOf[index]) = f[p]
        /\ Ring(f, (p + 1) % buflength, c - 1) = Tail(QueueOf[index])
    <3>1. /\ Ring(f, p, c) # <<>> /\ Head(Ring(f, p, c)) = f[p]
          /\ Ring(f, (p + 1) % buflength, c - 1) = Tail(Ring(f, p, c))
      BY <1>1, <2>1, RingTail
    <3> QED
      BY <1>1, <3>1
  <2>5. QueueOf' = [QueueOf EXCEPT ![index] = Tail(QueueOf[index])]
    BY <2>3, <2>4
  <2>6. Queue!Take(index)
    BY <1>1, <2>2, <2>4, <2>5 DEF Queue!Take, Queue!Granted, Granted, QueueOf
  <2> QED
    BY <1>1, <2>6 DEF Queue!Next
<1>2. CASE /\ getStatus(index) \in {"EMPTY", "INCONSISTENT", "OUTOFRANGE"}
           /\ Refuse("consume", index)
  <2> index \in Buffers => c = 0
    BY <1>2, StatusOfRing
  <2> QED
    BY <1>2, RefinesRefuse DEF Queue!Next
<1>3. CASE RunWild
  BY <1>3 DEF RunWild, Queue!vars, getAll
<1> QED
  BY <1>1, <1>2, <1>3 DEF Consume

\* setFirst and setLast replace the first and the c-th of c values.
LEMMA RefinesSetEnd ==
  ASSUME TypeOK, NEW index \in Indices, NEW v \in Values,
         SetFirst(v, index) \/ SetLast(v, index)
  PROVE  Queue!Next \/ UNCHANGED Queue!vars
<1> DEFINE f == nodes[index]
           p == points_r[index]
           c == counts[index]
<1> index \in Buffers =>
      /\ f \in [Slots -> Values] /\ p \in Slots /\ c \in 0 .. buflength
      /\ getAll(index) = Ring(f, p, c) /\ QueueOf[index] = getAll(index)
      /\ Len(QueueOf[index]) = c
  BY GetAllIsRing DEF QueueOf
<1> buflength \in Nat \ {0}
  BY Sizes
<1>1. ASSUME NEW k \in 1 .. buflength, EndsReachable(index), index \in Buffers, k \in 1 .. c,
             Store(index, Slot(p, k), v), UNCHANGED <<counts, points_r, strategies>>
      PROVE  /\ QueueOf' = [QueueOf EXCEPT ![index] = [QueueOf[index] EXCEPT ![k] = v]]
             /\ QueueOf[index] # <<>>
  <2> c = buflength
    BY <1>1, StatusOfRing DEF EndsReachable
  <2>1. QueueOf' = [QueueOf EXCEPT ![index] = Ring([f EXCEPT ![Slot(p, k)] = v], p, c)]
    <3>1. /\ nodes'[index] = [f EXCEPT ![Slot(p, k)] = v]
          /\ points_r'[index] = p /\ counts'[index] = c
      BY <1>1 DEF TypeOK, Store
    <3>2. \A j \in Buffers \ {index} : nodes'[j] = nodes[j] /\ points_r'[j] = points_r[j]
                                                          /\ counts'[j] = counts[j]
      BY <1>1 DEF TypeOK, Store
    <3> QED
      BY <1>1, <3>1, <3>2, OneRing
  <2>2. Ring([f EXCEPT ![Slot(p, k)] = v], p, c) = [Ring(f, p, c) EXCEPT ![k] = v]
    BY <1>1, RingReplace
  <2>3. Ring(f, p, c) # <<>>
    BY <1>1, RingTail
  <2> QED
    BY <1>1, <2>1, <2>2, <2>3
<1>2. ASSUME NEW op \in {"setFirst", "setLast"}, ~EndsReachable(index), Refuse(op, index)
      PROVE  Queue!Next
  <2> index \in Buffers => c # buflength
    BY <1>2, StatusOfRing DEF EndsReachable
  <2> QED
    BY <1>2, RefinesRefuse DEF Queue!Next
<1>3. CASE RunWild
  BY <1>3 DEF RunWild, Queue!vars, getAll
<1>4. ASSUME EndsReachable(index), index \in Buffers
      PROVE  c = buflength /\ FirstPos(index) = Slot(p, 1) /\ LastPos(index) = Slot(p, c)
  <2>1. c = buflength
    BY <1>4, StatusOfRing DEF EndsReachable
  <2>2. p = Slot(p, 1)
    BY <1>4, SlotValue DEF Slots
  <2>3. LastPos(index) = Slot(p, c)
    BY <1>4, <2>1, LastSlot DEF LastPos
  <2> QED
    BY <2>1, <2>2, <2>3 DEF FirstPos
<1>5. CASE SetFirst(v, index) /\ EndsReachable(index) /\ index \in Buffers
  <2>1. /\ Store(index, Slot(p, 1), v) /\ UNCHANGED <<counts, points_r, strategies>>
        /\ reply' = Granted("setFirst", index, NoValue)
    BY <1>4, <1>5, Sizes DEF SetFirst, SetEnd
  <2>2. 1 \in 1 .. buflength /\ 1 \in 1 .. c
    BY <1>4, <1>5
  <2>3. /\ QueueOf' = [QueueOf EXCEPT ![index] = [QueueOf[index] EXCEPT ![1] = v]]
        /\ QueueOf[index] # <<>>
    BY <1>1, <1>5, <2>1, <2>2
  <2>4. Queue!ReplaceFirst(index, v)
    BY <1>5, <2>1, <2>3 DEF Queue!ReplaceFirst, Queue!Granted, Granted, QueueOf
  <2> QED
    BY <1>5, <2>4 DEF Queue!Next
<1>6. CASE SetLast(v, index) /\ EndsReachable(index) /\ index \in Buffers
  <2>1. /\ Store(index, Slot(p, c), v) /\ UNCHANGED <<counts, points_r, strategies>>
        /\ reply' = Granted("setLast", index, NoValue)
    BY <1>4, <1>6, Sizes DEF SetLast, SetEnd
  <2>2. c \in 1 .. buflength /\ c \in 1 .. c
    BY <1>4, <1>6
  <2>3. /\ QueueOf' = [QueueOf EXCEPT ![index] = [QueueOf[index] EXCEPT ![c] = v]]
        /\ QueueOf[index] # <<>>
    BY <1>1, <1>6, <2>1, <2>2
  <2>4. Queue!ReplaceLast(index, v)
    BY <1>6, <2>1, <2>3 DEF Queue!ReplaceLast, Queue!Granted, Granted, QueueOf
  <2> QED
    BY <1>6, <2>4 DEF Queue!Next
<1> QED
  BY <1>2, <1>3, <1>5, <1>6 DEF SetFirst, SetLast, SetEnd

LEMMA RefinesSetStrategy ==
  ASSUME TypeOK, NEW index \in Indices \cup {-1}, NEW s \in Strategies, SetStrategy(s, index)
  PROVE  Queue!Next
<1>1. CASE index \in Buffers \cup {-1}
  <2>1. /\ strategies' = [i \in Buffers |-> IF index \in {-1, i} THEN s ELSE strategies[i]]
        /\ reply' = Granted("setStrategy", index, NoValue)
        /\ UNCHANGED <<nodes, counts, points_r>>
    BY <1>1 DEF SetStrategy
  <2>2. Queue!ChoosePolicy(s, index)
    BY <1>1, <2>1 DEF Queue!ChoosePolicy, Queue!Granted, Granted, getAll
  <2> QED
    BY <1>1, <2>2 DEF Queue!Next
<1>2. CASE index \notin Buffers \cup {-1}
  <2>1. Refuse("setStrategy", index) /\ index \in Indices \ Buffers
    BY <1>2 DEF SetStrategy
  <2> QED
    BY <2>1, RefinesRefuse DEF Queue!Next
<1> QED
  BY <1>1, <1>2

\* Every step of the rings is a step of the queues, or changes none of them.
LEMMA RefinesStep == TypeOK /\ [Next]_vars => [Queue!Next]_Queue!vars
<1> SUFFICES ASSUME TypeOK, [Next]_vars PROVE Queue!Next \/ UNCHANGED Queue!vars
  OBVIOUS
<1>1. CASE UNCHANGED vars
  BY <1>1 DEF vars, Queue!vars, getAll
<1> QED
  BY <1>1, RefinesProduce, RefinesConsume, RefinesSetEnd, RefinesSetStrategy DEF Next

\* Each ring is a FIFO queue of buflength values, whatever the sizes, the
\* values, the strategy and the interleaving of the operations on the rings.
THEOREM RingIsQueue == Spec => RefinesQueue
BY RefinesInit, RefinesStep, RingTypeCorrect, PTL DEF Spec, Queue!Spec, RefinesQueue

\* getFirst and getLast, where they succeed, agree with getAll.
THEOREM EndsAgreeWithAll == Spec => []EndsAgree
<1>1. TypeOK => EndsAgree
  <2> SUFFICES ASSUME TypeOK, NEW i \in Buffers, EndsReachable(i)
               PROVE  getFirst(i) = getAll(i)[1] /\ getLast(i) = getAll(i)[counts[i]]
    BY DEF EndsAgree
  <2>1. counts[i] = buflength /\ buflength \in Nat \ {0}
    BY StatusOfRing, Sizes DEF EndsReachable
  <2>2. points_r[i] \in Slots
    BY DEF TypeOK
  <2>3. Slot(points_r[i], 1) = points_r[i]
    BY <2>1, <2>2, SlotValue DEF Slots
  <2>4. LastPos(i) = Slot(points_r[i], counts[i])
    BY <2>1, <2>2, LastSlot DEF LastPos
  <2> QED
    BY <2>1, <2>3, <2>4 DEF getFirst, getLast, getAll, FirstPos, Slot
<1> QED
  BY <1>1, RingTypeCorrect, PTL
=============================================================================
