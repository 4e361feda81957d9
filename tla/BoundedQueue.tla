---------------------------- MODULE BoundedQueue ----------------------------
(* What a RingBuffer promises: independent FIFO queues of bounded length.   *)
(* A full queue refuses a value or, under the overwriting strategy, loses   *)
(* its oldest one.                                                          *)
EXTENDS Integers, Sequences

CONSTANTS
  Values, NoValue,       \* what is queued, and what is not a value
  Queues, Indices,       \* the queues, and what callers name when they mean one
  Capacity,              \* of each queue, at least 1
  Strategies, Overwrite  \* what a full queue may do; one of them

VARIABLES
  queue,   \* the values of each queue, the oldest first
  policy,  \* what each queue does when it is full
  reply    \* the last call, whether it was granted, and the value it returned

vars == <<queue, policy, reply>>

Granted(op, q, v) == [op |-> op, at |-> q, ok |-> TRUE, value |-> v]
Refused(op, q) == [op |-> op, at |-> q, ok |-> FALSE, value |-> NoValue]

IsFull(q) == Len(queue[q]) = Capacity

Init ==
  /\ queue = [q \in Queues |-> <<>>]
  /\ \E s \in Strategies : policy = [q \in Queues |-> s]
  /\ reply = Refused("none", 0)

\* A queue that is full loses its oldest value under the strategy Overwrite.
Put(q, v) ==
  /\ \/ ~IsFull(q) /\ queue' = [queue EXCEPT ![q] = Append(@, v)]
     \/ /\ IsFull(q) /\ policy[q] = Overwrite
        /\ queue' = [queue EXCEPT ![q] = Append(Tail(@), v)]
  /\ reply' = Granted("produce", q, NoValue)
  /\ UNCHANGED policy

Take(q) ==
  /\ queue[q] # <<>>
  /\ queue' = [queue EXCEPT ![q] = Tail(@)]
  /\ reply' = Granted("consume", q, Head(queue[q]))
  /\ UNCHANGED policy

ReplaceFirst(q, v) ==
  /\ queue[q] # <<>>
  /\ queue' = [queue EXCEPT ![q] = [@ EXCEPT ![1] = v]]
  /\ reply' = Granted("setFirst", q, NoValue)
  /\ UNCHANGED policy

ReplaceLast(q, v) ==
  /\ queue[q] # <<>>
  /\ queue' = [queue EXCEPT ![q] = [@ EXCEPT ![Len(queue[q])] = v]]
  /\ reply' = Granted("setLast", q, NoValue)
  /\ UNCHANGED policy

\* For one queue, or with index -1 for all.
ChoosePolicy(s, index) ==
  /\ index \in Queues \cup {-1}
  /\ policy' = [q \in Queues |-> IF index \in {-1, q} THEN s ELSE policy[q]]
  /\ reply' = Granted("setStrategy", index, NoValue)
  /\ UNCHANGED queue

\* The only reasons to refuse: the queue is full and keeps what it has, it is
\* empty, its ends cannot be replaced before it is full, the call is for a
\* queue that does not exist, or for all queues at once.
Refuse ==
  /\ \/ \E q \in Queues : /\ IsFull(q) /\ policy[q] # Overwrite
                          /\ reply' = Refused("produce", q)
     \/ \E q \in Queues : queue[q] = <<>> /\ reply' = Refused("consume", q)
     \/ \E q \in Queues : /\ ~IsFull(q)
                          /\ \/ reply' = Refused("setFirst", q)
                             \/ reply' = Refused("setLast", q)
     \/ \E q \in Indices \ Queues :
          \E op \in {"produce", "consume", "setFirst", "setLast", "setStrategy"} :
            reply' = Refused(op, q)
  /\ UNCHANGED <<queue, policy>>

Next ==
  \/ \E q \in Queues, v \in Values : Put(q, v) \/ ReplaceFirst(q, v) \/ ReplaceLast(q, v)
  \/ \E q \in Queues : Take(q)
  \/ \E s \in Strategies, index \in Queues \cup {-1} : ChoosePolicy(s, index)
  \/ Refuse

Spec == Init /\ [][Next]_vars
=============================================================================
