---------------------------- MODULE TimerProofs ----------------------------
(***************************************************************************)
(* Proofs of the safety properties of Timer and of BoostTimer for every    *)
(* value of their constants.  The inductive invariant is IInv.  It does not*)
(* depend on how a timer is renewed nor on what becomes of the count a     *)
(* client asks for: it is proved for CoreNext, which leaves both open, and *)
(* which both editions of the timer implement.                             *)
(***************************************************************************)
EXTENDS BoostTimer, TLAPS

AnyReturn == \E next : (cur \in Ids => next \in Int) /\ ReturnWith(next)
AnyStart(c) == \E n \in Int : StartCounting(c, n)

AnyLoopStep ==
  \/ Quit \/ BeginPass \/ SweepNode \/ SweepDone
  \/ FireNext \/ AnyReturn \/ EndFire \/ Timeout
AnyClientStep(c) == New(c) \/ AnyStart(c) \/ StopTimer(c) \/ DeleteTimer(c) \/ NotFound(c)

CoreNext ==
  \/ AnyLoopStep \/ Spurious \/ Tick
  \/ \E c \in Clients : Enter(c) \/ AnyClientStep(c)
  \/ \E o \in Owners : ReleaseOwner(o)
  \/ DtorBegin \/ DtorSignal \/ Join \/ Finished

\* The types, with any integer as a count.
CoreOK == FieldsOK /\ count \in [Ids -> Int]

\* The nodes still to visit are nodes of the list, and no loop is half done
\* when the mutex is free.
TodoListed == /\ todo \subseteq nodelist
              /\ pc \in {"lock", "wait", "done"} => todo = {}

\* What is not in the list never fires.
HaltedOutside == \A i \in Ids \ nodelist : count[i] = 0

\* During a pass, a node that has been swept belongs to an owner that existed
\* when the pass began, and the callback that runs is that of such a node.
SweptAreOwned ==
  /\ pc \in {"sweep", "fire", "call"} => alive \subseteq passAlive
  /\ pc = "sweep" => \A i \in nodelist \ todo : parent[i] \in passAlive \cup {SharedOwner}
  /\ pc \in {"fire", "call"} => \A i \in nodelist : parent[i] \in passAlive \cup {SharedOwner}
  /\ pc = "call" => cur \in nodelist

IInv == /\ CoreOK /\ TodoListed /\ HaltedOutside /\ SafeDeref
        /\ NoLostWakeup /\ SweptAreOwned

\* Going round the automatic ids never leaves them (lines 162-166).
LEMMA AdvanceInRange ==
  ASSUME NEW i \in AutoIds, NEW k \in Nat
  PROVE  Advance(i, k) \in AutoIds
<1>1. Start \in Int /\ MaxId \in Int /\ Start <= MaxId
  BY IdAssumption DEF Start
<1>2. AutoCount \in Nat /\ AutoCount > 0
  BY <1>1 DEF AutoCount
<1>3. i - Start + k \in Int
  BY <1>1 DEF AutoIds
<1>4. (i - Start + k) % AutoCount \in 0 .. AutoCount - 1
  BY <1>2, <1>3
<1> QED
  BY <1>1, <1>4 DEF Advance, AutoIds, AutoCount

\* Every automatic id is an id.
LEMMA AutoAreIds == AutoIds \subseteq Ids /\ MinId \notin Ids
  BY IdAssumption DEF AutoIds, Ids, Start

\* A user id is an id.
LEMMA UserAreIds ==
  ASSUME NEW i \in MinId .. MaxId, UserId(i)
  PROVE  i \in Ids
  BY IdAssumption DEF UserId, Ids, Start

-----------------------------------------------------------------------------
(* Type correctness.                                                       *)

\* A node that leaves or stops keeps the types.
LEMMA HaltType ==
  ASSUME CoreOK, NEW i \in Ids, Halt(i)
  PROVE  /\ count' \in [Ids -> Int]
         /\ interval' \in [Ids -> Int]
         /\ left' \in [Ids -> Int]
BY CountAssumption DEF CoreOK, FieldsOK, Halt

LEMMA EraseType ==
  ASSUME CoreOK, NEW i \in Ids, Erase(i)
  PROVE  /\ nodelist' \subseteq Ids
         /\ parent' \in [Ids -> Owners \cup {SharedOwner}]
         /\ count' \in [Ids -> Int]
         /\ interval' \in [Ids -> Int]
         /\ left' \in [Ids -> Int]
         /\ dangling' \in BOOLEAN
         /\ current' \in AutoIds
BY HaltType DEF CoreOK, FieldsOK, Erase

LEMMA InsertType ==
  ASSUME CoreOK, NEW i \in Ids, NEW o \in Owners \cup {SharedOwner}, Insert(i, o)
  PROVE  /\ nodelist' \subseteq Ids
         /\ parent' \in [Ids -> Owners \cup {SharedOwner}]
         /\ count' \in [Ids -> Int]
         /\ interval' \in [Ids -> Int]
         /\ left' \in [Ids -> Int]
         /\ dangling' \in BOOLEAN
BY DEF CoreOK, FieldsOK, Insert

LEMMA NotifyType ==
  ASSUME CoreOK, Notify
  PROVE  /\ pc' \in {"lock", "sweep", "fire", "call", "wait", "done"}
         /\ age' \in 0 .. MaxLate
         /\ waitleft' \in Int
BY TimeAssumption DEF CoreOK, FieldsOK, Notify, WakeUp

LEMMA TypeInit == Init => CoreOK
<1> SUFFICES ASSUME Init PROVE CoreOK
  OBVIOUS
<1>1. Start \in AutoIds
  BY IdAssumption DEF AutoIds, Start
<1>2. count \in [Ids -> Int]
  BY CountAssumption DEF Init
<1>3. age \in 0 .. MaxLate
  BY TimeAssumption DEF Init
<1>4. dangling \in BOOLEAN /\ termflag \in BOOLEAN /\ running \in BOOLEAN
  BY Zenon DEF Init
<1> QED
  BY <1>1, <1>2, <1>3, <1>4 DEF Init, CoreOK, FieldsOK

LEMMA TypeStep == CoreOK /\ [CoreNext]_vars => CoreOK'
<1> SUFFICES ASSUME CoreOK, [CoreNext]_vars PROVE CoreOK'
  OBVIOUS
<1> USE DEF nodeVars, loopVars
<1>1. CASE Quit
  BY <1>1 DEF CoreOK, FieldsOK, Quit
<1>2. CASE BeginPass
  BY <1>2 DEF CoreOK, FieldsOK, BeginPass
<1>3. CASE SweepNode
  <2> PICK i \in todo : todo' = todo \ {i} /\ SweepOut(i)
    BY <1>3 DEF SweepNode
  <2>1. i \in Ids
    BY DEF CoreOK, FieldsOK
  <2>2. CASE UNCHANGED nodeVars
    BY <1>3, <2>2 DEF CoreOK, FieldsOK, SweepNode
  <2>3. CASE Erase(i)
    BY <1>3, <2>1, <2>3, EraseType DEF CoreOK, FieldsOK, SweepNode
  <2> QED
    BY <2>2, <2>3 DEF SweepOut
<1>4. CASE SweepDone
  BY <1>4 DEF CoreOK, FieldsOK, SweepDone, PruneList
<1>5. CASE FireNext
  <2> PICK i \in First(todo) : /\ count' = [count EXCEPT ![i] = CountDown(@)]
                               /\ cur' = i
                               /\ todo' = todo \ {i}
    BY <1>5 DEF FireNext
  <2>1. i \in Ids /\ CountDown(count[i]) \in Int
    BY DEF First, CountDown, CoreOK, FieldsOK
  <2>2. count' \in [Ids -> Int]
    BY <2>1 DEF CoreOK
  <2> QED
    BY <1>5, <2>1, <2>2 DEF CoreOK, FieldsOK, FireNext
<1>6. CASE AnyReturn
  <2>1. /\ count' \in [Ids -> Int]
        /\ interval' \in [Ids -> Int]
        /\ left' \in [Ids -> Int]
    <3>1. CASE cur \in Ids
      BY <1>6, <3>1, HaltType DEF CoreOK, FieldsOK, AnyReturn, ReturnWith
    <3>2. CASE cur \notin Ids
      BY <1>6, <3>2 DEF CoreOK, FieldsOK, AnyReturn, ReturnWith, Halt
    <3> QED
      BY <3>1, <3>2
  <2> QED
    BY <1>6, <2>1 DEF CoreOK, FieldsOK, AnyReturn, ReturnWith
<1>7. CASE EndFire
  <2>1. waitleft' \in Int /\ running' \in BOOLEAN
    <3>1. CASE WaitIdle
      <4>1. waitleft' \in Int
        BY <3>1, TimeAssumption DEF WaitIdle
      <4>2. running' \in BOOLEAN
        BY <3>1, Zenon DEF WaitIdle
      <4> QED
        BY <4>1, <4>2
    <3>2. ASSUME NEW f \in First(nodelist), waitleft' = left[f] + age, running' = TRUE
          PROVE  waitleft' \in Int /\ running' \in BOOLEAN
      <4> left[f] \in Int /\ age \in Int
        BY TimeAssumption DEF First, CoreOK, FieldsOK
      <4> QED
        BY <3>2
    <3> QED
      BY <1>7, <3>1, <3>2 DEF EndFire
  <2> QED
    BY <1>7, <2>1 DEF CoreOK, FieldsOK, EndFire
<1>8. CASE Timeout \/ Spurious
  BY <1>8, TimeAssumption DEF CoreOK, FieldsOK, Timeout, Spurious, WakeUp
<1>9. CASE Tick
  <2>1. left' \in [Ids -> Int] /\ age' \in 0 .. MaxLate /\ waitleft' \in Int
    BY <1>9, TimeAssumption DEF CoreOK, FieldsOK, Tick
  <2> QED
    BY <1>9, <2>1 DEF CoreOK, FieldsOK, Tick
<1>10. ASSUME NEW c \in Clients, Enter(c) PROVE CoreOK'
  BY <1>10 DEF CoreOK, FieldsOK, Enter
<1>11. ASSUME NEW c \in Clients, New(c) PROVE CoreOK'
  <2> PICK o \in alive \cup {SharedOwner}, asked \in MinId .. MaxId :
       \/ UserId(asked) /\ Insert(asked, o) /\ UNCHANGED current
       \/ /\ ~UserId(asked) /\ current \notin nodelist
          /\ Insert(current, o)
          /\ \E k \in 1 .. AutoCount :
               /\ Advance(current, k) \notin nodelist
               /\ \A j \in 1 .. k - 1 : Advance(current, j) \in nodelist
               /\ current' = Advance(current, k)
       \/ ~UserId(asked) /\ current \in nodelist /\ UNCHANGED nodeVars
    BY <1>11 DEF New
  <2> /\ o \in Owners \cup {SharedOwner}
      /\ UserId(asked) => asked \in Ids
      /\ current \in Ids
    BY UserAreIds, AutoAreIds DEF CoreOK, FieldsOK
  <2>1. /\ nodelist' \subseteq Ids
        /\ parent' \in [Ids -> Owners \cup {SharedOwner}]
        /\ count' \in [Ids -> Int]
        /\ interval' \in [Ids -> Int]
        /\ left' \in [Ids -> Int]
        /\ dangling' \in BOOLEAN
    <3>1. CASE UserId(asked) /\ Insert(asked, o)
      BY <3>1, InsertType
    <3>2. CASE Insert(current, o)
      BY <3>2, InsertType
    <3>3. CASE UNCHANGED nodeVars
      BY <3>3 DEF CoreOK, FieldsOK
    <3> QED
      BY <3>1, <3>2, <3>3
  <2>2. current' \in AutoIds
    <3> AutoCount \in Int
      BY IdAssumption DEF AutoCount, Start
    <3>1. ASSUME NEW k \in 1 .. AutoCount PROVE Advance(current, k) \in AutoIds
      BY AdvanceInRange DEF CoreOK, FieldsOK
    <3> QED
      BY <3>1 DEF CoreOK, FieldsOK
  <2> QED
    BY <1>11, <2>1, <2>2 DEF CoreOK, FieldsOK, New, Call
<1>12. ASSUME NEW c \in Clients, AnyStart(c) PROVE CoreOK'
  <2> PICK n \in Int : StartCounting(c, n)
    BY <1>12 DEF AnyStart
  <2> PICK i \in nodelist, d \in Intervals :
       IF n # 0
         THEN /\ count' = [count EXCEPT ![i] = n]
              /\ interval' = [interval EXCEPT ![i] = d]
              /\ left' = [left EXCEPT ![i] = d]
         ELSE Halt(i)
    BY DEF StartCounting
  <2>1. i \in Ids /\ d \in Int
    BY TimeAssumption DEF CoreOK, FieldsOK
  <2>2. /\ count' \in [Ids -> Int]
        /\ interval' \in [Ids -> Int]
        /\ left' \in [Ids -> Int]
    BY <2>1, HaltType DEF CoreOK, FieldsOK
  <2>3. termflag' \in BOOLEAN /\ Notify
    BY DEF StartCounting, WakeupThread
  <2> QED
    BY <2>2, <2>3, NotifyType DEF CoreOK, FieldsOK, StartCounting, Call
<1>13. ASSUME NEW c \in Clients, StopTimer(c) PROVE CoreOK'
  BY <1>13, HaltType DEF CoreOK, FieldsOK, StopTimer, Call
<1>14. ASSUME NEW c \in Clients, DeleteTimer(c) PROVE CoreOK'
  BY <1>14, EraseType DEF CoreOK, FieldsOK, DeleteTimer, Call
<1>15. ASSUME NEW c \in Clients, NotFound(c) PROVE CoreOK'
  BY <1>15 DEF CoreOK, FieldsOK, NotFound, Call
<1>16. ASSUME NEW o \in Owners, ReleaseOwner(o) PROVE CoreOK'
  BY <1>16 DEF CoreOK, FieldsOK, ReleaseOwner
<1>17. CASE DtorBegin \/ Join
  BY <1>17 DEF CoreOK, FieldsOK, DtorBegin, Join
<1>18. CASE DtorSignal
  BY <1>18, NotifyType DEF CoreOK, FieldsOK, DtorSignal, WakeupThread
<1>19. CASE UNCHANGED vars
  BY <1>19 DEF CoreOK, FieldsOK, vars
<1> QED
  BY <1>1, <1>2, <1>3, <1>4, <1>5, <1>6, <1>7, <1>8, <1>9, <1>10, <1>11, <1>12, <1>13,
     <1>14, <1>15, <1>16, <1>17, <1>18, <1>19
  DEF CoreNext, AnyLoopStep, AnyClientStep, Finished

-----------------------------------------------------------------------------
(* The other parts of the inductive invariant, one lemma each.             *)

LEMMA IInit == Init => IInv
<1> SUFFICES ASSUME Init PROVE IInv
  OBVIOUS
<1>1. CoreOK
  BY TypeInit
<1>2. TodoListed /\ HaltedOutside /\ SafeDeref /\ NoLostWakeup
  BY DEF Init, TodoListed, HaltedOutside, SafeDeref, NoLostWakeup
<1>3. SweptAreOwned
  BY DEF Init, SweptAreOwned
<1> QED
  BY <1>1, <1>2, <1>3 DEF IInv

\* remove_if comes between the sweep, the only place of a pass where nodes go,
\* and the first dereference; clients delete nodes only while the mutex is free.
LEMMA SafeDerefStep == SafeDeref /\ [CoreNext]_vars => SafeDeref'
<1> SUFFICES ASSUME SafeDeref, [CoreNext]_vars PROVE SafeDeref'
  OBVIOUS
<1> USE DEF SafeDeref, nodeVars, loopVars
<1>1. CASE AnyLoopStep \/ Spurious
  BY <1>1 DEF AnyLoopStep, Quit, BeginPass, SweepNode, SweepDone, PruneList, FireNext,
              AnyReturn, ReturnWith, EndFire, Timeout, Spurious, WakeUp
<1>2. ASSUME NEW c \in Clients, Enter(c) \/ AnyClientStep(c) PROVE SafeDeref'
  BY <1>2 DEF Enter, AnyClientStep, Call, New, AnyStart, StartCounting, StopTimer, DeleteTimer,
              NotFound, WakeupThread, Notify, WakeUp
<1>3. CASE Tick \/ DtorBegin \/ Join \/ \E o \in Owners : ReleaseOwner(o)
  BY <1>3 DEF Tick, DtorBegin, Join, ReleaseOwner
<1>4. CASE DtorSignal
  BY <1>4 DEF DtorSignal, WakeupThread, Notify, WakeUp
<1>5. CASE UNCHANGED vars
  BY <1>5 DEF vars
<1> QED
  BY <1>1, <1>2, <1>3, <1>4, <1>5 DEF CoreNext, Finished

LEMMA ListStep ==
  CoreOK /\ TodoListed /\ HaltedOutside /\ [CoreNext]_vars => TodoListed' /\ HaltedOutside'
<1> SUFFICES ASSUME CoreOK, TodoListed, HaltedOutside, [CoreNext]_vars
             PROVE  TodoListed' /\ HaltedOutside'
  OBVIOUS
<1> USE DEF TodoListed, HaltedOutside, nodeVars, loopVars
<1> count \in [Ids -> Int] /\ nodelist \subseteq Ids
  BY DEF CoreOK, FieldsOK
<1>0. ASSUME NEW i \in Ids, Erase(i)
      PROVE  nodelist' = nodelist \ {i} /\ HaltedOutside'
  BY <1>0 DEF Erase, Halt
<1>1. CASE Quit \/ BeginPass \/ SweepDone \/ EndFire \/ Timeout \/ Spurious
  BY <1>1 DEF Quit, BeginPass, SweepDone, EndFire, Timeout, Spurious, WakeUp
<1>2. CASE SweepNode
  <2> PICK i \in todo : todo' = todo \ {i} /\ SweepOut(i)
    BY <1>2 DEF SweepNode
  <2>1. CASE UNCHANGED nodeVars
    BY <1>2, <2>1 DEF SweepNode
  <2>2. CASE Erase(i)
    BY <1>0, <1>2, <2>2 DEF SweepNode
  <2> QED
    BY <2>1, <2>2 DEF SweepOut
<1>3. CASE FireNext
  BY <1>3 DEF FireNext, First
<1>4. CASE AnyReturn
  BY <1>4 DEF AnyReturn, ReturnWith, Halt
<1>5. ASSUME NEW c \in Clients, New(c) PROVE TodoListed' /\ HaltedOutside'
  BY <1>5 DEF New, Call, Insert
<1>6. ASSUME NEW c \in Clients, AnyStart(c) PROVE TodoListed' /\ HaltedOutside'
  BY <1>6 DEF AnyStart, StartCounting, Call, Halt, WakeupThread, Notify, WakeUp
<1>7. ASSUME NEW c \in Clients, StopTimer(c) PROVE TodoListed' /\ HaltedOutside'
  BY <1>7 DEF StopTimer, Call, Halt
<1>8. ASSUME NEW c \in Clients, DeleteTimer(c) PROVE TodoListed' /\ HaltedOutside'
  BY <1>0, <1>8 DEF DeleteTimer, Call
<1>9. ASSUME NEW c \in Clients, Enter(c) \/ NotFound(c) PROVE TodoListed' /\ HaltedOutside'
  BY <1>9 DEF Enter, NotFound
<1>10. CASE Tick \/ DtorBegin \/ Join \/ \E o \in Owners : ReleaseOwner(o)
  BY <1>10 DEF Tick, DtorBegin, Join, ReleaseOwner
<1>11. CASE DtorSignal
  BY <1>11 DEF DtorSignal, WakeupThread, Notify, WakeUp
<1>12. CASE UNCHANGED vars
  BY <1>12 DEF vars
<1> QED
  BY <1>1, <1>2, <1>3, <1>4, <1>5, <1>6, <1>7, <1>8, <1>9, <1>10, <1>11, <1>12
  DEF CoreNext, AnyLoopStep, AnyClientStep, Finished

\* Only timer_start makes a timer active while the thread waits, and it wakes
\* the thread; the wait that EndFire begins is that of the front of the list.
LEMMA WakeupStep ==
  CoreOK /\ HaltedOutside /\ NoLostWakeup /\ [CoreNext]_vars => NoLostWakeup'
<1> SUFFICES ASSUME CoreOK, HaltedOutside, NoLostWakeup, [CoreNext]_vars, pc' = "wait",
                    NEW i \in Active'
             PROVE  running' /\ waitleft' <= left'[i] + age'
  BY DEF NoLostWakeup
<1> USE DEF nodeVars, loopVars
<1> /\ nodelist \subseteq Ids /\ left \in [Ids -> Int] /\ age \in Int /\ waitleft \in Int
    /\ count \in [Ids -> Int]
  BY TimeAssumption DEF CoreOK, FieldsOK
<1>1. ASSUME pc = "wait", i \in Active, UNCHANGED <<running, waitleft, age>>, left'[i] = left[i]
      PROVE  running' /\ waitleft' <= left'[i] + age'
  BY <1>1 DEF NoLostWakeup
<1>2. CASE EndFire
  <2> nodelist' = nodelist /\ count' = count /\ left' = left /\ age' = age
    BY <1>2 DEF EndFire
  <2> i \in nodelist /\ count[i] # 0
    BY DEF Active
  <2> PICK f \in First(nodelist) :
         \/ count[f] = 0
         \/ count[f] # 0 /\ waitleft' = left[f] + age /\ running' = TRUE
    BY <1>2 DEF EndFire
  <2>1. Before(f, i)
    BY DEF First
  <2>2. count[f] # 0 /\ left[f] <= left[i]
    BY <2>1 DEF Before
  <2> f \in Ids
    BY DEF First
  <2>3. waitleft' = left[f] + age /\ running'
    BY <2>2
  <2> QED
    BY <2>2, <2>3
<1>3. CASE Tick
  <2>1. pc = "wait" /\ i \in Active /\ i \in Ids
    BY <1>3 DEF Tick, Active
  <2>2. left'[i] = left[i] - 1 /\ waitleft' = waitleft - 1 /\ age' = age /\ running' = running
    BY <1>3, <2>1 DEF Tick
  <2>3. running /\ waitleft <= left[i] + age
    BY <2>1 DEF NoLostWakeup
  <2> QED
    BY <2>1, <2>2, <2>3
<1>4. ASSUME NEW c \in Clients, New(c) PROVE running' /\ waitleft' <= left'[i] + age'
  <2>1. i \in Active
    BY <1>4, UserAreIds, AutoAreIds DEF New, Insert, Active, HaltedOutside, CoreOK, FieldsOK
  <2> QED
    BY <1>1, <1>4, <2>1 DEF New, Insert
<1>5. ASSUME NEW c \in Clients, AnyStart(c) PROVE running' /\ waitleft' <= left'[i] + age'
  BY <1>5 DEF AnyStart, StartCounting, WakeupThread, Notify, WakeUp
<1>6. ASSUME NEW c \in Clients, StopTimer(c) PROVE running' /\ waitleft' <= left'[i] + age'
  <2>1. i \in Active /\ left'[i] = left[i]
    BY <1>6 DEF StopTimer, Halt, Active
  <2> QED
    BY <1>1, <1>6, <2>1 DEF StopTimer
<1>7. ASSUME NEW c \in Clients, DeleteTimer(c) PROVE running' /\ waitleft' <= left'[i] + age'
  <2>1. i \in Active /\ left'[i] = left[i]
    BY <1>7 DEF DeleteTimer, Erase, Halt, Active
  <2> QED
    BY <1>1, <1>7, <2>1 DEF DeleteTimer
<1>8. ASSUME NEW c \in Clients, Enter(c) \/ NotFound(c)
      PROVE  running' /\ waitleft' <= left'[i] + age'
  BY <1>1, <1>8 DEF Enter, NotFound, Active
<1>9. CASE DtorBegin \/ Join \/ \E o \in Owners : ReleaseOwner(o)
  BY <1>1, <1>9 DEF DtorBegin, Join, ReleaseOwner, Active
<1>10. CASE DtorSignal
  BY <1>10 DEF DtorSignal, WakeupThread, Notify, WakeUp
<1>11. CASE Quit \/ BeginPass \/ SweepNode \/ SweepDone \/ FireNext \/ AnyReturn
  BY <1>11 DEF Quit, BeginPass, SweepNode, SweepDone, FireNext, AnyReturn, ReturnWith
<1>12. CASE Timeout \/ Spurious
  BY <1>12 DEF Timeout, Spurious, WakeUp
<1>13. CASE UNCHANGED vars
  BY <1>1, <1>13 DEF vars, Active
<1> QED
  BY <1>2, <1>3, <1>4, <1>5, <1>6, <1>7, <1>8, <1>9, <1>10, <1>11, <1>12, <1>13
  DEF CoreNext, AnyLoopStep, AnyClientStep, Finished

\* The sweep of a pass leaves only nodes whose owner existed when it began.
LEMMA SweptStep == CoreOK /\ TodoListed /\ SweptAreOwned /\ [CoreNext]_vars => SweptAreOwned'
<1> SUFFICES ASSUME CoreOK, TodoListed, SweptAreOwned, [CoreNext]_vars PROVE SweptAreOwned'
  OBVIOUS
<1> USE DEF SweptAreOwned, nodeVars, loopVars
<1> nodelist \subseteq Ids /\ parent \in [Ids -> Owners \cup {SharedOwner}]
  BY DEF CoreOK, FieldsOK
<1>1. CASE Quit \/ EndFire \/ Timeout \/ Spurious
  BY <1>1 DEF Quit, EndFire, Timeout, Spurious, WakeUp
<1>2. CASE BeginPass
  BY <1>2 DEF BeginPass
<1>3. CASE SweepNode
  <2> PICK i \in todo : todo' = todo \ {i} /\ SweepOut(i)
    BY <1>3 DEF SweepNode
  <2>1. CASE Valid(i) /\ UNCHANGED nodeVars
    BY <1>3, <2>1 DEF SweepNode, Valid
  <2>2. CASE Erase(i)
    BY <1>3, <2>2 DEF SweepNode, Erase
  <2> QED
    BY <2>1, <2>2 DEF SweepOut
<1>4. CASE SweepDone
  BY <1>4 DEF SweepDone
<1>5. CASE FireNext
  BY <1>5 DEF FireNext, First, TodoListed
<1>6. CASE AnyReturn
  BY <1>6 DEF AnyReturn, ReturnWith
<1>7. ASSUME NEW c \in Clients, Enter(c) \/ AnyClientStep(c) PROVE SweptAreOwned'
  BY <1>7 DEF Enter, AnyClientStep, Call, New, AnyStart, StartCounting, StopTimer, DeleteTimer, NotFound,
              WakeupThread, Notify, WakeUp
<1>8. CASE Tick \/ DtorBegin \/ Join \/ \E o \in Owners : ReleaseOwner(o)
  BY <1>8 DEF Tick, DtorBegin, Join, ReleaseOwner
<1>9. CASE DtorSignal
  BY <1>9 DEF DtorSignal, WakeupThread, Notify, WakeUp
<1>10. CASE UNCHANGED vars
  BY <1>10 DEF vars
<1> QED
  BY <1>1, <1>2, <1>3, <1>4, <1>5, <1>6, <1>7, <1>8, <1>9, <1>10
  DEF CoreNext, AnyLoopStep, Finished

LEMMA Inductive == IInv /\ [CoreNext]_vars => IInv'
BY TypeStep, SafeDerefStep, ListStep, WakeupStep, SweptStep DEF IInv

\* A pass ends with no due timer left behind: the first timer of the list that
\* is not due, or halted, is followed by none that is.
LEMMA PassEnd ==
  ASSUME IInv, EndFire, NEW j \in todo
  PROVE  ~Due(j)
<1> /\ left \in [Ids -> Int] /\ todo \subseteq Ids /\ age \in Int
    /\ count \in [Ids -> Int]
  BY TimeAssumption DEF IInv, CoreOK, FieldsOK
<1>1. PICK i \in First(todo) : ~Due(i)
  BY DEF EndFire
<1>2. Before(i, j) /\ i \in Ids /\ j \in Ids
  BY <1>1 DEF First
<1>3. CASE count[j] = 0
  BY <1>3 DEF Due
<1>4. CASE count[i] # 0 /\ left[i] <= left[j]
  BY <1>1, <1>2, <1>4 DEF Due
<1> QED
  BY <1>2, <1>3, <1>4 DEF Before

\* Only EndFire begins the wait.
LEMMA OnlyEndFireWaits ==
  ASSUME [CoreNext]_vars, pc = "fire", pc' = "wait"
  PROVE  EndFire
BY DEF CoreNext, AnyLoopStep, Quit, BeginPass, SweepNode, SweepDone, FireNext, AnyReturn,
       ReturnWith, Timeout, Spurious, AnyClientStep, Call, Enter, New, AnyStart,
       StartCounting, StopTimer, DeleteTimer, NotFound, Tick, DtorBegin, DtorSignal, Join,
       ReleaseOwner, Finished, WakeUp, vars, nodeVars, loopVars

-----------------------------------------------------------------------------
(* Timer is an instance of the core.                                       *)

LEMMA NextIsCore == IInv /\ [Next]_vars => [CoreNext]_vars
<1> SUFFICES ASSUME IInv, [Next]_vars PROVE [CoreNext]_vars
  OBVIOUS
<1>1. CASE Return
  <2>1. cur \in Ids => left[cur] + interval[cur] \in Int
    BY DEF IInv, CoreOK, FieldsOK
  <2> QED
    BY <1>1, <2>1 DEF Return, AnyReturn, CoreNext, AnyLoopStep
<1>2. ASSUME NEW c \in Clients, StartTimer(c) PROVE CoreNext
  <2>1. PICK n \in Counts : StartCounting(c, n % CountMod)
    BY <1>2 DEF StartTimer
  <2>2. n % CountMod \in Int
    BY CountAssumption
  <2> QED
    BY <2>1, <2>2 DEF AnyStart, AnyClientStep, CoreNext
<1>3. CASE Next /\ ~Return /\ ~\E c \in Clients : StartTimer(c)
  BY <1>3 DEF Next, LoopStep, ClientStep, CoreNext, AnyLoopStep, AnyClientStep
<1> QED
  BY <1>1, <1>2, <1>3

LEMMA Invariance == Spec => []IInv
<1>1. IInv /\ [Next]_vars => IInv'
  BY NextIsCore, Inductive
<1> QED
  BY IInit, <1>1, PTL DEF Spec

\* The counts of this edition are numbers of w bits.
CountsOK == count \in [Ids -> 0 .. CountMod - 1]

LEMMA CountsInit == Init => CountsOK
BY CountAssumption DEF Init, CountsOK

LEMMA CountsStep == IInv /\ CountsOK /\ [Next]_vars => CountsOK'
<1> SUFFICES ASSUME IInv, CountsOK, [Next]_vars PROVE CountsOK'
  OBVIOUS
<1> USE DEF CountsOK, nodeVars, loopVars
<1>1. ASSUME NEW i \in Ids, Halt(i) PROVE CountsOK'
  <2>1. 0 \in 0 .. CountMod - 1
    BY CountAssumption
  <2>2. count' = [count EXCEPT ![i] = 0]
    BY <1>1 DEF Halt
  <2> QED
    BY <2>1, <2>2
<1>2. CASE UNCHANGED count
  BY <1>2
<1>3. CASE FireNext
  <2> PICK i \in First(todo) : Due(i) /\ count' = [count EXCEPT ![i] = CountDown(@)]
    BY <1>3 DEF FireNext
  <2>1. i \in Ids
    BY DEF First, IInv, CoreOK, FieldsOK
  <2>2. CountDown(count[i]) \in 0 .. CountMod - 1
    BY <2>1, CountAssumption DEF CountDown
  <2> QED
    BY <2>1, <2>2
<1>4. ASSUME NEW c \in Clients, StartTimer(c) PROVE CountsOK'
  <2> PICK n \in Counts : StartCounting(c, n % CountMod)
    BY <1>4 DEF StartTimer
  <2>1. n % CountMod \in 0 .. CountMod - 1
    BY CountAssumption
  <2>2. PICK i \in nodelist : count' = [count EXCEPT ![i] = n % CountMod] \/ Halt(i)
    BY DEF StartCounting
  <2>3. i \in Ids
    BY DEF IInv, CoreOK, FieldsOK
  <2> QED
    BY <1>1, <2>1, <2>2, <2>3
<1>5. CASE SweepNode \/ Return
  <2>1. todo \subseteq Ids /\ (pc = "call" => cur \in Ids)
    BY DEF IInv, CoreOK, FieldsOK, TodoListed, SweptAreOwned
  <2>2. (\E i \in Ids : Halt(i)) \/ UNCHANGED count
    BY <1>5, <2>1 DEF SweepNode, SweepOut, Erase, Return, ReturnWith
  <2> QED
    BY <1>1, <1>2, <2>2
<1>6. ASSUME NEW c \in Clients, StopTimer(c) \/ DeleteTimer(c) \/ New(c) PROVE CountsOK'
  <2>1. nodelist \subseteq Ids
    BY DEF IInv, CoreOK, FieldsOK
  <2>2. (\E i \in Ids : Halt(i)) \/ UNCHANGED count
    BY <1>6, <2>1 DEF Erase, StopTimer, DeleteTimer, New, Insert
  <2> QED
    BY <1>1, <1>2, <2>2
<1>7. CASE Quit \/ BeginPass \/ SweepDone \/ EndFire \/ Timeout \/ Spurious \/ Tick
  BY <1>7, <1>2 DEF Quit, BeginPass, SweepDone, EndFire, Timeout, Spurious, Tick
<1>8. CASE \/ \E c \in Clients : Enter(c) \/ NotFound(c)
           \/ \E o \in Owners : ReleaseOwner(o)
           \/ DtorBegin \/ DtorSignal \/ Join
  BY <1>8, <1>2 DEF Enter, NotFound, ReleaseOwner, DtorBegin, DtorSignal, Join
<1>9. CASE UNCHANGED vars
  BY <1>9, <1>2 DEF vars
<1> QED
  BY <1>3, <1>4, <1>5, <1>6, <1>7, <1>8, <1>9 DEF Next, LoopStep, ClientStep, Finished

-----------------------------------------------------------------------------
(* The properties.                                                         *)

\* Every reachable state has the types of TypeOK.
THEOREM TypeCorrect == Spec => []TypeOK
<1> IInv /\ CountsOK => TypeOK
  BY DEF IInv, CoreOK, CountsOK, TypeOK
<1> QED
  BY Invariance, CountsInit, CountsStep, PTL DEF Spec

\* timer_loop never dereferences an expired weak_ptr of m_timerlist.
THEOREM DerefIsSafe == Spec => []SafeDeref
<1> IInv => SafeDeref
  BY DEF IInv
<1> QED
  BY Invariance, PTL

\* A waiting thread wakes in time for every active timer, callbacks' time apart.
THEOREM NoWakeupIsLost == Spec => []NoLostWakeup
<1> IInv => NoLostWakeup
  BY DEF IInv
<1> QED
  BY Invariance, PTL

\* No callback runs for an owner released before the pass began.
THEOREM CalledOwnersWereAlive == Spec => []CalledOwnerWasAlive
<1> IInv => CalledOwnerWasAlive
  BY DEF IInv, SweptAreOwned, CalledOwnerWasAlive
<1> QED
  BY Invariance, PTL

\* A pass ends with no due timer left behind.
THEOREM DueTimersAreFired == Spec => NoDueTimerSkipped
<1>1. IInv /\ [Next]_vars => [pc = "fire" /\ pc' = "wait" => \A i \in todo : ~Due(i)]_vars
  BY NextIsCore, OnlyEndFireWaits, PassEnd
<1> QED
  BY Invariance, <1>1, PTL DEF Spec, NoDueTimerSkipped

-----------------------------------------------------------------------------
(* The boost edition.  Its steps are steps of the core, so that IInv and   *)
(* what follows from it hold for it too; that no pass leaves a backlog     *)
(* needs Cleared besides.                                                  *)

\* Every step of the boost edition is one of the core.
LEMMA BoostIsCore == IInv /\ [BoostNext]_vars => [CoreNext]_vars
<1> SUFFICES ASSUME IInv, [BoostNext]_vars PROVE [CoreNext]_vars
  OBVIOUS
<1>1. CASE BoostReturn
  <2>1. cur \in Ids => Renewed(cur) \in Int
    BY TimeAssumption DEF IInv, CoreOK, FieldsOK, Renewed
  <2> QED
    BY <1>1, <2>1 DEF BoostReturn, AnyReturn, CoreNext, AnyLoopStep
<1>2. ASSUME NEW c \in Clients, BoostStart(c) PROVE CoreNext
  BY <1>2, CountAssumption DEF BoostStart, AnyStart, AnyClientStep, CoreNext
<1>3. CASE BoostNext /\ ~BoostReturn /\ ~\E c \in Clients : BoostStart(c)
  BY <1>3 DEF BoostNext, BoostLoopStep, BoostClientStep, CoreNext, AnyLoopStep, AnyClientStep
<1> QED
  BY <1>1, <1>2, <1>3

LEMMA BoostInvariance == BoostSpec => []IInv
<1>1. IInv /\ [BoostNext]_vars => IInv'
  BY BoostIsCore, Inductive
<1> QED
  BY IInit, <1>1, PTL DEF BoostSpec

\* Timer i is due after the `now' of the pass, or was started with an interval of
\* zero or less.
Passed(i) == left[i] + age > 0 \/ interval[i] <= 0

\* So are the timers the firing loop has passed, all but the one whose callback
\* runs.
Cleared ==
  /\ pc = "fire" => \A i \in Active \ todo : Passed(i)
  /\ pc = "call" => \A i \in Active \ (todo \cup {cur}) : Passed(i)

LEMMA ClearedInit == Init => Cleared
BY DEF Init, Cleared

\* Only these steps concern a firing loop: the mutex keeps the clients out.
LEMMA ClearedStep == IInv /\ Cleared /\ [BoostNext]_vars => Cleared'
<1> SUFFICES ASSUME IInv, Cleared, [BoostNext]_vars PROVE Cleared'
  OBVIOUS
<1> USE DEF nodeVars, loopVars
<1>1. /\ count \in [Ids -> Int] /\ interval \in [Ids -> Int] /\ left \in [Ids -> Int]
      /\ age \in Int /\ nodelist \subseteq Ids /\ todo \subseteq nodelist
  BY TimeAssumption DEF IInv, CoreOK, FieldsOK, TodoListed
<1>2. CASE pc' \notin {"fire", "call"}
  BY <1>2 DEF Cleared
<1>3. CASE SweepDone
  BY <1>3 DEF SweepDone, Cleared, Active
<1>4. CASE FireNext
  <2> PICK i \in First(todo) : /\ count' = [count EXCEPT ![i] = CountDown(@)]
                               /\ cur' = i /\ todo' = todo \ {i}
    BY <1>4 DEF FireNext
  <2>1. Active' \ (todo' \cup {cur'}) \subseteq Active \ todo
    BY <1>1, <1>4 DEF Active, FireNext, First
  <2> QED
    BY <1>4, <2>1 DEF FireNext, Cleared, Passed
<1>5. CASE BoostReturn
  <2>1. cur \in Ids /\ cur \in nodelist
    BY <1>1, <1>5 DEF BoostReturn, ReturnWith, IInv, SweptAreOwned
  <2>2. CASE count[cur] # 0
    <3>1. left' = [left EXCEPT ![cur] = interval[cur] - age]
      BY <1>5, <2>2 DEF BoostReturn, ReturnWith, Renewed
    <3>2. Active' = Active /\ UNCHANGED <<interval, todo, age>> /\ pc' = "fire"
      BY <1>5, <2>2 DEF BoostReturn, ReturnWith, Active
    <3>3. left'[cur] + age' > 0 \/ interval'[cur] <= 0
      BY <1>1, <2>1, <3>1, <3>2
    <3>4. \A i \in Active \ (todo \cup {cur}) : Passed(i)'
      BY <1>1, <1>5, <3>1, <3>2 DEF Cleared, BoostReturn, ReturnWith, Active, Passed
    <3> QED
      BY <3>2, <3>3, <3>4 DEF Cleared, Passed
  <2>3. CASE count[cur] = 0
    <3>1. Halt(cur) /\ UNCHANGED <<nodelist, todo, age>> /\ pc = "call" /\ pc' = "fire"
      BY <1>5, <2>3 DEF BoostReturn, ReturnWith
    <3>2. Active' \subseteq Active \ {cur}
      BY <1>1, <2>1, <3>1 DEF Halt, Active
    <3>3. \A i \in Active' : left'[i] = left[i] /\ interval'[i] = interval[i]
      BY <1>1, <3>1, <3>2 DEF Halt, Active
    <3> QED
      BY <3>1, <3>2, <3>3 DEF Cleared, Passed
  <2> QED
    BY <2>2, <2>3
<1>6. CASE Tick
  <2>1. CASE pc \in {"fire", "call"}
    <3>1. \A i \in Active : left'[i] = left[i] - 1
      BY <1>1, <1>6 DEF Tick, Active
    <3>2. age' = age + 1 /\ Active' = Active /\ UNCHANGED <<interval, pc, todo, cur>>
      BY <1>6, <2>1 DEF Tick, Active
    <3>3. \A i \in Active : left[i] \in Int
      BY <1>1 DEF Active
    <3>4. ASSUME NEW i \in Active, Passed(i) PROVE Passed(i)'
      BY <1>1, <3>1, <3>2, <3>3, <3>4 DEF Passed
    <3> QED
      BY <3>2, <3>4 DEF Cleared
  <2> QED
    BY <1>2, <1>6, <2>1 DEF Tick
<1>7. CASE UNCHANGED <<nodelist, count, interval, left, pc, todo, cur, age>>
  BY <1>7 DEF Cleared, Active, Passed
<1>8. CASE \/ Quit \/ BeginPass \/ SweepNode \/ EndFire \/ Timeout \/ Spurious \/ DtorSignal
           \/ \E c \in Clients : BoostClientStep(c)
  BY <1>2, <1>8 DEF Quit, BeginPass, SweepNode, EndFire, Timeout, Spurious, DtorSignal, WakeUp,
       WakeupThread, Notify, BoostClientStep, New, BoostStart, StartCounting, StopTimer, NotFound, Call
<1>9. CASE \/ \E c \in Clients : Enter(c)
           \/ \E o \in Owners : ReleaseOwner(o)
           \/ DtorBegin \/ Join \/ UNCHANGED vars
  BY <1>7, <1>9 DEF Enter, ReleaseOwner, DtorBegin, Join, vars
<1> QED
  BY <1>3, <1>4, <1>5, <1>6, <1>8, <1>9 DEF BoostNext, BoostLoopStep, Finished

\* A count is one that was asked for, or on its way from there down to zero.
CountedDown(n) == n \in Counts \/ \E m \in Counts \cup {0} : n \in 0 .. m
CountsTold == \A i \in Ids : CountedDown(count[i])

LEMMA CountsToldInit == Init => CountsTold
<1>1. CountedDown(0)
  <2>1. 0 \in 0 .. 0
    OBVIOUS
  <2> QED
    BY <2>1 DEF CountedDown
<1> QED
  BY <1>1 DEF Init, CountsTold

\* Firing leaves a count on its way.
LEMMA CountDownTold ==
  ASSUME NEW n \in Int, CountedDown(n)
  PROVE  CountedDown(CountDown(n))
<1>1. CASE n > 0
  <2>1. PICK m \in Counts \cup {0} : (n \in Counts /\ m = n) \/ n \in 0 .. m
    BY DEF CountedDown
  <2>2. m \in Int /\ n - 1 \in 0 .. m
    BY <1>1, <2>1, CountAssumption
  <2> QED
    BY <1>1, <2>2 DEF CountedDown, CountDown
<1>2. CASE ~(n > 0)
  BY <1>2 DEF CountDown
<1> QED
  BY <1>1, <1>2

LEMMA CountsToldStep == IInv /\ CountsTold /\ [BoostNext]_vars => CountsTold'
<1> SUFFICES ASSUME IInv, CountsTold, [BoostNext]_vars PROVE CountsTold'
  OBVIOUS
<1> USE DEF nodeVars, loopVars
<1>1. count \in [Ids -> Int] /\ nodelist \subseteq Ids
  BY DEF IInv, CoreOK, FieldsOK
<1>2. ASSUME NEW i \in Ids, NEW n \in Int, CountedDown(n), count' = [count EXCEPT ![i] = n]
      PROVE  CountsTold'
  BY <1>1, <1>2 DEF CountsTold
<1>3. ASSUME NEW i \in Ids, Halt(i) PROVE CountsTold'
  <2>1. count' = [count EXCEPT ![i] = 0]
    BY <1>3 DEF Halt
  <2>2. CountedDown(0)
    <3>1. 0 \in 0 .. 0
      OBVIOUS
    <3> QED
      BY <3>1 DEF CountedDown
  <2>3. 0 \in Int
    OBVIOUS
  <2> QED
    BY <1>2, <1>3, <2>1, <2>2, <2>3
<1>4. CASE UNCHANGED count
  BY <1>4 DEF CountsTold
<1>5. CASE FireNext
  <2> PICK i \in First(todo) : count' = [count EXCEPT ![i] = CountDown(@)]
    BY <1>5 DEF FireNext
  <2>1. i \in Ids
    BY <1>1 DEF First, IInv, TodoListed
  <2>2. CountedDown(CountDown(count[i])) /\ CountDown(count[i]) \in Int
    BY <1>1, <2>1, CountDownTold DEF CountsTold, CountDown
  <2> QED
    BY <1>1, <1>2, <2>1, <2>2
<1>6. ASSUME NEW c \in Clients, BoostStart(c) PROVE CountsTold'
  <2> PICK n \in Counts : StartCounting(c, n)
    BY <1>6 DEF BoostStart
  <2>1. PICK i \in nodelist : count' = [count EXCEPT ![i] = n] \/ Halt(i)
    BY DEF StartCounting
  <2>2. n \in Int /\ CountedDown(n) /\ i \in Ids
    BY <1>1, CountAssumption DEF CountedDown
  <2> QED
    BY <1>2, <1>3, <2>1, <2>2
<1>7. CASE SweepNode \/ BoostReturn
  <2>1. todo \subseteq Ids /\ (pc = "call" => cur \in Ids)
    BY DEF IInv, CoreOK, FieldsOK, TodoListed, SweptAreOwned
  <2>2. (\E i \in Ids : Halt(i)) \/ UNCHANGED count
    BY <1>7, <2>1 DEF SweepNode, SweepOut, Erase, BoostReturn, ReturnWith
  <2> QED
    BY <1>3, <1>4, <2>2
<1>8. ASSUME NEW c \in Clients, StopTimer(c) \/ New(c) PROVE CountsTold'
  <2>1. (\E i \in Ids : Halt(i)) \/ UNCHANGED count
    BY <1>1, <1>8 DEF StopTimer, New, Insert
  <2> QED
    BY <1>3, <1>4, <2>1
<1>9. CASE Quit \/ BeginPass \/ SweepDone \/ EndFire \/ Timeout \/ Spurious \/ Tick
  BY <1>4, <1>9 DEF Quit, BeginPass, SweepDone, EndFire, Timeout, Spurious, Tick
<1>10. CASE \/ \E c \in Clients : Enter(c) \/ NotFound(c)
            \/ \E o \in Owners : ReleaseOwner(o)
            \/ DtorBegin \/ DtorSignal \/ Join
  BY <1>4, <1>10 DEF Enter, NotFound, ReleaseOwner, DtorBegin, DtorSignal, Join
<1>11. CASE UNCHANGED vars
  BY <1>4, <1>11 DEF vars
<1> QED
  BY <1>5, <1>6, <1>7, <1>8, <1>9, <1>10, <1>11
  DEF BoostNext, BoostLoopStep, BoostClientStep, Finished

-----------------------------------------------------------------------------
(* The properties.                                                         *)

\* Every reachable state of the boost edition has the types of BoostTypeOK: a
\* count that starts at or above zero never falls below it, one that starts
\* below zero is never changed by firing.
THEOREM BoostTypeCorrect == BoostSpec => []BoostTypeOK
<1> IInv /\ CountsTold => BoostTypeOK
  BY DEF IInv, CoreOK, FieldsOK, CountsTold, CountedDown, BoostTypeOK
<1> QED
  BY BoostInvariance, CountsToldInit, CountsToldStep, PTL DEF BoostSpec

\* A waiting thread of the boost edition wakes in time for every active timer,
\* callbacks' time apart.
THEOREM BoostNoWakeupIsLost == BoostSpec => []NoLostWakeup
<1> IInv => NoLostWakeup
  BY DEF IInv
<1> QED
  BY BoostInvariance, PTL

\* timer_loop of the boost edition dereferences no expired weak_ptr.
THEOREM BoostDerefIsSafe == BoostSpec => []SafeDeref
<1> IInv => SafeDeref
  BY DEF IInv
<1> QED
  BY BoostInvariance, PTL

\* No pass of the boost edition leaves a backlog, however long callbacks take and
\* whatever the intervals are, but for a timer at the front whose interval is not
\* positive.
THEOREM BoostHasNoBacklog == BoostSpec => NoBacklog
<1>1. ASSUME IInv, Cleared, [BoostNext]_vars, pc = "fire", pc' = "wait"
      PROVE  (waitleft' > 0 \/ \E i \in First(nodelist) : count[i] # 0 /\ interval[i] <= 0)
  <2>1. EndFire
    BY <1>1, BoostIsCore, OnlyEndFireWaits
  <2>2. CASE WaitIdle
    BY <2>2, TimeAssumption DEF WaitIdle
  <2>3. ASSUME NEW f \in First(nodelist), count[f] # 0, waitleft' = left[f] + age, interval[f] > 0
        PROVE  waitleft' > 0
    <3>1. f \in Active /\ left[f] \in Int /\ age \in Int /\ interval[f] \in Int
      BY <1>1, <2>3, TimeAssumption DEF Active, First, IInv, CoreOK, FieldsOK
    <3>2. CASE f \in todo
      <4>1. ~Due(f)
        BY <1>1, <2>1, <3>2, PassEnd
      <4> QED
        BY <2>3, <3>1, <4>1 DEF Due
    <3>3. CASE f \notin todo
      <4>1. Passed(f)
        BY <1>1, <3>1, <3>3 DEF Cleared
      <4> QED
        BY <2>3, <3>1, <4>1 DEF Passed
    <3> QED
      BY <3>2, <3>3
  <2>4. ASSUME NEW f \in First(nodelist) PROVE interval[f] \in Int
    BY <1>1 DEF First, IInv, CoreOK, FieldsOK
  <2> QED
    BY <2>1, <2>2, <2>3, <2>4 DEF EndFire
<1>2. IInv /\ Cleared /\ [BoostNext]_vars =>
        [pc = "fire" /\ pc' = "wait" =>
           waitleft' > 0 \/ \E i \in First(nodelist) : count[i] # 0 /\ interval[i] <= 0]_vars
  BY <1>1
<1> QED
  BY <1>2, BoostInvariance, ClearedInit, ClearedStep, PTL DEF BoostSpec, NoBacklog
=============================================================================
