------------------------------- MODULE Timer -------------------------------
(***************************************************************************)
(* The timer service of template-noboost: one thread runs timer_loop, any  *)
(* number of client threads call timer_new, timer_start, timer_stop and    *)
(* timer_delete, the owners of timers are released at any moment, and the  *)
(* destructor stops and joins the thread.                                  *)
(*                                                                         *)
(* Time is relative, so that the state space is finite without a clock:    *)
(* left[i] is m_nexttime of timer i minus the present, age is the present  *)
(* minus the `now' that timer_loop captured last, and waitleft is what     *)
(* remains of the wait_for of timer_loop.                                  *)
(*                                                                         *)
(* m_condmutex is held by the thread exactly while pc is "sweep", "fire"   *)
(* or "call".  The client operations hold it from their first statement to *)
(* their last and wait for nothing in between, so each is one action that  *)
(* needs the mutex free.                                                   *)
(***************************************************************************)
EXTENDS Integers

CONSTANTS
  Owners,        \* the objects clients pass as ptshare
  SharedOwner,   \* m_sharedOwner, the owner of timers created without one
  Clients,       \* threads that call the API
  MinId, MaxId,  \* numeric_limits<TIMERID_T>::min() and max()
  StartId,       \* the constructor's start_timerid
  Intervals,     \* intervals clients ask for, in ticks; any are accepted
  Counts,        \* counts clients ask for, -1 among them
  CountMod,      \* 2^w, w being the width of USIZE
  IdleWait,      \* the 10 seconds of an idle thread, in ticks
  MaxLate,       \* bound: a pass takes, and a timer is late, at most so long
  Quiesced       \* Timer_destroy is called only when no call is in progress

\* m_start, as the constructor computes it.
Start == IF StartId <= MinId THEN MinId + 1 ELSE StartId

Ids == MinId + 1 .. MaxId
AutoIds == Start .. MaxId
AutoCount == MaxId - Start + 1

ASSUME IdAssumption == MinId \in Int /\ MaxId \in Int /\ StartId \in Int /\ Start <= MaxId
ASSUME OwnerAssumption == SharedOwner \notin Owners
ASSUME TimeAssumption == /\ Intervals \subseteq Int
                         /\ IdleWait \in Nat \ {0}
                         /\ MaxLate \in Nat \ {0}
ASSUME CountAssumption == Counts \subseteq Int /\ CountMod \in Nat \ {0, 1}
ASSUME QuiescedAssumption == Quiesced \in BOOLEAN

VARIABLES
  alive,      \* owners that still exist
  nodelist,   \* ids of the nodes of m_nodelist
  parent,     \* m_parent of each node
  count,      \* m_count of each node
  interval,   \* m_interval of each node
  left,       \* m_nexttime of each node minus the present
  dangling,   \* some weak_ptr of m_timerlist has expired
  current,    \* m_current
  termflag,   \* m_termflag
  running,    \* m_running
  pc,         \* where timer_loop is
  todo,       \* nodes the loop of the present pc has still to visit
  cur,        \* the timer whose callback runs, MinId when none does
  age,        \* the present minus `now'; what it was at wait_for, once there
  waitleft,   \* rest of the wait_for
  passAlive,  \* history: the owners alive when the present pass began
  phase,      \* of the Timer object
  inside      \* clients that called the API and have not got the mutex yet

nodeVars == <<nodelist, parent, count, interval, left, dangling, current>>
loopVars == <<pc, todo, cur, age, waitleft, passAlive>>
vars == <<alive, nodeVars, termflag, running, loopVars, phase, inside>>

\* Timers that will fire: m_count is not zero.
Active == {i \in nodelist : count[i] # 0}
\* Node::valid: the owner has not been released.
Valid(i) == parent[i] \in alive \cup {SharedOwner}

Init ==
  /\ alive = Owners
  /\ nodelist = {}
  /\ parent = [i \in Ids |-> SharedOwner]
  /\ count = [i \in Ids |-> 0]
  /\ interval = [i \in Ids |-> 0]
  /\ left = [i \in Ids |-> 0]
  /\ dangling = FALSE
  /\ current = Start
  /\ termflag = FALSE
  /\ running = FALSE
  /\ pc = "lock"
  /\ todo = {}
  /\ cur = MinId
  /\ age = 0
  /\ waitleft = 0
  /\ passAlive = Owners
  /\ phase = "live"
  /\ inside = {}

-----------------------------------------------------------------------------
(* Nodes.  Nothing reads m_interval and m_nexttime of a node whose m_count  *)
(* is zero before timer_start assigns them: the comparator looks at m_count *)
(* first, and the firing loop breaks at such a node whatever they are.  The *)
(* model forgets them at zero.                                              *)

\* m_count becomes zero.
Halt(i) ==
  /\ count' = [count EXCEPT ![i] = 0]
  /\ interval' = [interval EXCEPT ![i] = 0]
  /\ left' = [left EXCEPT ![i] = 0]

\* The node enters m_nodelist, and a weak_ptr to it m_timerlist.
Insert(i, o) ==
  /\ nodelist' = nodelist \cup {i}
  /\ parent' = [parent EXCEPT ![i] = o]
  /\ UNCHANGED <<count, interval, left, dangling>>

\* m_nodelist had the only reference: its weak_ptr in m_timerlist expires.
Erase(i) ==
  /\ nodelist' = nodelist \ {i}
  /\ parent' = [parent EXCEPT ![i] = SharedOwner]
  /\ Halt(i)
  /\ dangling' = TRUE
  /\ UNCHANGED current

\* The id k steps after i, going round the automatic ids.
AdvanceNoWrap(i, k) == i + k  \* mutant: line 163 is missing
Advance(i, k) == Start + ((i - Start + k) % AutoCount)

\* The order of m_timerlist: by m_nexttime, halted timers last.
BeforeHaltedFirst(i, j) ==  \* mutant: TRUE and FALSE of lines 293 and 295 swapped
  count[i] = 0 \/ (count[j] # 0 /\ left[i] <= left[j])
Before(i, j) == count[j] = 0 \/ (count[i] # 0 /\ left[i] <= left[j])
First(S) == {i \in S : \A j \in S : Before(i, j)}

\* m_nexttime <= now, for the `now' captured before the firing loop.
DuePositive(i) == count[i] > 0 /\ left[i] <= -age  \* mutant: > 0 for != 0 in line 305
Due(i) == count[i] # 0 /\ left[i] <= -age

-----------------------------------------------------------------------------
(* The thread.                                                             *)

\* wait_for returns: the thread competes for the mutex again.
WakeUp == pc' = "lock" /\ age' = 0 /\ waitleft' = 0

\* m_cond.notify_one()
NotifyNobody == UNCHANGED <<pc, age, waitleft>>  \* mutant: line 354 is missing
Notify == IF pc = "wait" THEN WakeUp ELSE UNCHANGED <<pc, age, waitleft>>

\* wakeup_thread, with the mutex held one way or the other
WakeupOnly(terminate) == UNCHANGED termflag /\ Notify  \* mutant: line 352 is missing
WakeupThread(terminate) == termflag' = terminate /\ Notify

Quit ==
  /\ pc = "lock" /\ termflag
  /\ pc' = "done"
  /\ UNCHANGED <<alive, nodeVars, termflag, running, todo, cur, age, waitleft,
                 passAlive, phase, inside>>

BeginPass ==
  /\ pc = "lock" /\ ~termflag
  /\ pc' = "sweep"
  /\ todo' = nodelist
  /\ passAlive' = alive
  /\ UNCHANGED <<alive, nodeVars, termflag, running, cur, age, waitleft, phase, inside>>

\* A node whose owner has been released goes.
SweepNothing(i) == UNCHANGED nodeVars  \* mutant: line 279 is missing
SweepOut(i) == \/ Valid(i) /\ UNCHANGED nodeVars
               \/ ~Valid(i) /\ Erase(i)

\* The sweep goes through m_nodelist in the order of ids.
SweepNode ==
  /\ pc = "sweep"
  /\ \E i \in todo :
       /\ \A j \in todo : i <= j
       /\ todo' = todo \ {i}
       /\ SweepOut(i)
  /\ UNCHANGED <<alive, termflag, running, pc, cur, age, waitleft, passAlive, phase, inside>>

\* m_timerlist.remove_if(expired)
PruneNothing == UNCHANGED dangling  \* mutant: lines 285-288 come before the sweep
PruneList == dangling' = FALSE

\* The list is pruned and sorted, and `now' captured.
SweepDone ==
  /\ pc = "sweep" /\ todo = {}
  /\ PruneList
  /\ todo' = nodelist
  /\ pc' = "fire"
  /\ UNCHANGED <<alive, nodelist, parent, count, interval, left, current, termflag,
                 running, cur, age, waitleft, passAlive, phase, inside>>

CountDownAlways(n) == n - 1  \* mutant: line 78 is missing
CountDown(n) == IF n > 0 THEN n - 1 ELSE n

\* fire() of the next due timer, up to the call of its callback.
FireNext ==
  /\ pc = "fire"
  /\ \E i \in First(todo) :
       /\ Due(i)
       /\ count' = [count EXCEPT ![i] = CountDown(@)]
       /\ cur' = i
       /\ todo' = todo \ {i}
  /\ pc' = "call"
  /\ UNCHANGED <<alive, nodelist, parent, interval, left, dangling, current, termflag,
                 running, age, waitleft, passAlive, phase, inside>>

\* The callback returns, m_nexttime becomes next unless that was the last.
ReturnWith(next) ==
  /\ pc = "call"
  /\ IF count[cur] # 0
       THEN /\ left' = [left EXCEPT ![cur] = next]
            /\ UNCHANGED <<count, interval>>
       ELSE Halt(cur)
  /\ cur' = MinId
  /\ pc' = "fire"
  /\ UNCHANGED <<alive, nodelist, parent, dangling, current, termflag, running, todo,
                 age, waitleft, passAlive, phase, inside>>

\* renew() moves m_nexttime on by the interval.
Return == ReturnWith(left[cur] + interval[cur])

\* waittime and m_running when no timer is active.
WaitIdle == waitleft' = IdleWait /\ running' = FALSE

\* The firing loop ends, the list is sorted again and the thread waits until
\* its front is due, reckoned from the `now' of the pass.
EndFire ==
  /\ pc = "fire"
  /\ todo = {} \/ \E i \in First(todo) : ~Due(i)
  /\ \/ nodelist = {} /\ WaitIdle
     \/ \E f \in First(nodelist) : count[f] = 0 /\ WaitIdle
     \/ \E f \in First(nodelist) : /\ count[f] # 0
                                   /\ waitleft' = left[f] + age
                                   /\ running' = TRUE
  /\ todo' = {}
  /\ pc' = "wait"
  /\ UNCHANGED <<alive, nodeVars, termflag, cur, age, passAlive, phase, inside>>

Timeout ==
  /\ pc = "wait" /\ waitleft <= 0
  /\ WakeUp
  /\ UNCHANGED <<alive, nodeVars, termflag, running, todo, cur, passAlive, phase, inside>>

\* A condition variable may also return without a reason.
Spurious ==
  /\ pc = "wait" /\ waitleft > 0
  /\ WakeUp
  /\ UNCHANGED <<alive, nodeVars, termflag, running, todo, cur, passAlive, phase, inside>>

LoopStep ==
  \/ Quit \/ BeginPass \/ SweepNode \/ SweepDone
  \/ FireNext \/ Return \/ EndFire \/ Timeout

-----------------------------------------------------------------------------
(* The clients.                                                            *)

\* lg(m_condmutex) succeeds, and the call runs to its end.
Call(c) == c \in inside /\ pc \in {"lock", "wait", "done"} /\ phase # "gone" /\ inside' = inside \ {c}

Enter(c) ==
  /\ phase = "live" /\ c \notin inside
  /\ inside' = inside \cup {c}
  /\ UNCHANGED <<alive, nodeVars, termflag, running, loopVars, phase>>

\* The id asked for is in the user's range and free.
UserId(i) == MinId < i /\ i < Start /\ i \notin nodelist

New(c) ==
  /\ Call(c)
  /\ \E o \in alive \cup {SharedOwner}, asked \in MinId .. MaxId :
       \/ UserId(asked) /\ Insert(asked, o) /\ UNCHANGED current
       \/ /\ ~UserId(asked) /\ current \notin nodelist
          /\ Insert(current, o)
          /\ \E k \in 1 .. AutoCount :
               /\ Advance(current, k) \notin nodelist
               /\ \A j \in 1 .. k - 1 : Advance(current, j) \in nodelist
               /\ current' = Advance(current, k)
       \/ ~UserId(asked) /\ current \in nodelist /\ UNCHANGED nodeVars
  /\ UNCHANGED <<alive, termflag, running, loopVars, phase>>

\* wakeup_thread(TRUE, FALSE) clears m_termflag.
StartCounting(c, n) ==
  /\ Call(c)
  /\ \E i \in nodelist, d \in Intervals :
       IF n # 0
         THEN /\ count' = [count EXCEPT ![i] = n]
              /\ interval' = [interval EXCEPT ![i] = d]
              /\ left' = [left EXCEPT ![i] = d]
         ELSE Halt(i)
  /\ WakeupThread(FALSE)
  /\ UNCHANGED <<alive, nodelist, parent, dangling, current, running, todo, cur,
                 passAlive, phase>>

\* The count is converted to USIZE.
StartTimer(c) == \E n \in Counts : StartCounting(c, n % CountMod)

StopTimer(c) ==
  /\ Call(c)
  /\ \E i \in nodelist : Halt(i)
  /\ UNCHANGED <<alive, nodelist, parent, dangling, current, termflag, running,
                 loopVars, phase>>

DeleteTimer(c) ==
  /\ Call(c)
  /\ \E i \in nodelist : Erase(i)
  /\ UNCHANGED <<alive, termflag, running, loopVars, phase>>

\* timer_start, timer_stop or timer_delete of an id that no node has.
NotFound(c) ==
  /\ Call(c)
  /\ UNCHANGED <<alive, nodeVars, termflag, running, loopVars, phase>>

ClientStep(c) == New(c) \/ StartTimer(c) \/ StopTimer(c) \/ DeleteTimer(c) \/ NotFound(c)

-----------------------------------------------------------------------------
(* The world around the timer.                                             *)

\* The last shared_ptr to an owner goes, in any thread, without the mutex.
ReleaseOwner(o) ==
  /\ o \in alive
  /\ alive' = alive \ {o}
  /\ UNCHANGED <<nodeVars, termflag, running, loopVars, phase, inside>>

\* Timer_destroy: the destructor starts.
DtorBegin ==
  /\ phase = "live"
  /\ Quiesced => inside = {}
  /\ phase' = "closing"
  /\ UNCHANGED <<alive, nodeVars, termflag, running, loopVars, inside>>

\* wakeup_thread(FALSE, TRUE)
DtorSignal ==
  /\ phase = "closing"
  /\ pc \in {"lock", "wait", "done"}
  /\ WakeupThread(TRUE)
  /\ phase' = "joining"
  /\ UNCHANGED <<alive, nodeVars, running, todo, cur, passAlive, inside>>

\* m_thread.join()
Join ==
  /\ phase = "joining" /\ pc = "done"
  /\ phase' = "gone"
  /\ UNCHANGED <<alive, nodeVars, termflag, running, loopVars, inside>>

\* Time passes.  A wait_for that is over returns before it does, and MaxLate
\* bounds the time from the moment a timer is due, or from `now', to the wait.
Tick ==
  /\ pc # "done"
  /\ IF pc = "wait" THEN waitleft > 0
                    ELSE age < MaxLate /\ \A i \in Active : left[i] > -MaxLate
  /\ left' = [i \in Ids |-> IF i \in Active THEN left[i] - 1 ELSE left[i]]
  /\ age' = IF pc \in {"fire", "call"} THEN age + 1 ELSE age
  /\ waitleft' = IF pc = "wait" THEN waitleft - 1 ELSE waitleft
  /\ UNCHANGED <<alive, nodelist, parent, count, interval, dangling, current, termflag,
                 running, pc, todo, cur, passAlive, phase, inside>>

Finished == phase = "gone" /\ UNCHANGED vars

Next ==
  \/ LoopStep \/ Spurious \/ Tick
  \/ \E c \in Clients : Enter(c) \/ ClientStep(c)
  \/ \E o \in Owners : ReleaseOwner(o)
  \/ DtorBegin \/ DtorSignal \/ Join \/ Finished

(* The thread is scheduled, callbacks return and time passes; a mutex is   *)
(* not withheld for ever from a thread that waits for it.  Nobody has to   *)
(* call the API, to release an owner or to destroy the timer.              *)
Fairness ==
  /\ WF_vars(LoopStep)
  /\ WF_vars(Tick)
  /\ \A c \in Clients : SF_vars(ClientStep(c))
  /\ SF_vars(DtorSignal)
  /\ WF_vars(Join)

Spec == Init /\ [][Next]_vars
FairSpec == Spec /\ Fairness

-----------------------------------------------------------------------------
(* Properties.                                                             *)

\* The types of all variables but the counts.
FieldsOK ==
  /\ alive \subseteq Owners
  /\ nodelist \subseteq Ids
  /\ parent \in [Ids -> Owners \cup {SharedOwner}]
  /\ interval \in [Ids -> Int]
  /\ left \in [Ids -> Int]
  /\ dangling \in BOOLEAN
  /\ current \in AutoIds
  /\ termflag \in BOOLEAN
  /\ running \in BOOLEAN
  /\ pc \in {"lock", "sweep", "fire", "call", "wait", "done"}
  /\ todo \subseteq Ids
  /\ cur \in Ids \cup {MinId}
  /\ age \in 0 .. MaxLate
  /\ waitleft \in Int
  /\ passAlive \subseteq Owners
  /\ phase \in {"live", "closing", "joining", "gone"}
  /\ inside \subseteq Clients

\* The type invariant of the timer's fields, timer_loop's variables and the
\* model's own bookkeeping.
TypeOK == FieldsOK /\ count \in [Ids -> 0 .. CountMod - 1]

\* Lines 291-335 dereference lock() of every weak_ptr of m_timerlist without a
\* test: whenever they may run, no weak_ptr of the list has expired, although
\* timer_delete and the sweep let weak_ptrs expire all the time.
SafeDeref == pc \in {"fire", "call"} => ~dangling

\* While the thread waits it will be awake in time for every active timer, but
\* for the time its last callbacks took (age), and timer_running tells the
\* truth about there being one: no timer_start slips past a waiting thread.
NoLostWakeup ==
  pc = "wait" => \A i \in Active : running /\ waitleft <= left[i] + age

\* A callback runs only for a timer whose owner existed when the pass began:
\* the sweep of the same pass protects every owner released before it.
CalledOwnerWasAlive ==
  pc = "call" => parent[cur] \in passAlive \cup {SharedOwner}

\* The firing loop stops at the first timer that is not due, and never leaves
\* behind a due one it has not fired.
NoDueTimerSkipped ==
  [][pc = "fire" /\ pc' = "wait" => \A i \in todo : ~Due(i)]_vars

\* A timer that has become due is fired, unless it is stopped, deleted or
\* restarted, its owner is released or the timer service is destroyed.
DueTimerFires ==
  \A i \in Ids : (i \in Active /\ left[i] <= 0)
                   ~> ((pc = "call" /\ cur = i) \/ i \notin Active \/ left[i] > 0
                        \/ phase # "live")

\* The timers of a released owner are removed without anybody's help (timer.h:
\* "when the parent object is released its timers are stopped and released").
ReleasedTimersGo ==
  \A i \in Ids : (i \in nodelist /\ ~Valid(i)) ~> (i \notin nodelist \/ phase # "live")

\* Destroying the timer service ends its thread (timer.h, design note 2).
DestroyTerminates == (phase = "closing") ~> (phase = "gone")

-----------------------------------------------------------------------------
(* What the comments and the documentation promise beyond that.            *)

\* "No empty id available" (lines 168 and 173): the automatic allocation fails,
\* which it does when m_current is taken, only if every automatic id is taken.
RefusesOnlyWhenFull == current \in nodelist => AutoIds \subseteq nodelist
=============================================================================
