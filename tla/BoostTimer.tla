----------------------------- MODULE BoostTimer -----------------------------
(***************************************************************************)
(* The timer service built on boost (src/timer).  The service of           *)
(* template-noboost, module Timer, was made from it, and the two have the  *)
(* same state and the same steps but for these:                            *)
(*   - a count is a signed long: it is not converted, and fire() leaves a  *)
(*     negative one as it is;                                              *)
(*   - a timer that has fired is due again an interval after the `now' of  *)
(*     the pass, not after the moment it was due;                          *)
(*   - there is no timer_delete: its definition compares a member function *)
(*     with an id (line 242), so that no program can instantiate it;       *)
(*   - there is no m_running: `running' here is only the model's.          *)
(* Clients hold a shared_ptr to the service while they call it, so that    *)
(* the destructor runs when no call is in progress: Quiesced is TRUE.      *)
(***************************************************************************)
EXTENDS Timer

\* renew(now), line 302: `now' lies age before the present.
RenewFromNext(i) == left[i] + interval[i]  \* mutant: renew(nexttime()) in line 302
Renewed(i) == interval[i] - age

BoostReturn == ReturnWith(Renewed(cur))

\* timer_start, with the count as the client gives it.
BoostStart(c) == \E n \in Counts : StartCounting(c, n)

BoostLoopStep ==
  \/ Quit \/ BeginPass \/ SweepNode \/ SweepDone
  \/ FireNext \/ BoostReturn \/ EndFire \/ Timeout

BoostClientStep(c) == New(c) \/ BoostStart(c) \/ StopTimer(c) \/ NotFound(c)

BoostNext ==
  \/ BoostLoopStep \/ Spurious \/ Tick
  \/ \E c \in Clients : Enter(c) \/ BoostClientStep(c)
  \/ \E o \in Owners : ReleaseOwner(o)
  \/ DtorBegin \/ DtorSignal \/ Join \/ Finished

\* As for Timer, except that time passes also while a timer without a positive
\* interval lets the thread go round without a wait.
BoostFairness ==
  /\ WF_vars(BoostLoopStep)
  /\ SF_vars(Tick)
  /\ \A c \in Clients : SF_vars(BoostClientStep(c))
  /\ SF_vars(DtorSignal)
  /\ WF_vars(Join)

BoostSpec == Init /\ [][BoostNext]_vars
FairBoostSpec == BoostSpec /\ BoostFairness

-----------------------------------------------------------------------------
(* Properties.                                                             *)

\* The type invariant.  A count is one that a client asked for, or on its way
\* from there down to zero; one below zero stays for ever what it is.
BoostTypeOK ==
  /\ FieldsOK
  /\ count \in [Ids -> Int]
  /\ \A i \in Ids : count[i] \in Counts \/ \E n \in Counts \cup {0} : count[i] \in 0 .. n

\* However long callbacks take, a pass leaves no timer due by its own clock:
\* the thread waits a while, which lets clients have the mutex.  Only a timer at
\* the front that was started with an interval of zero or less takes that away.
NoBacklog ==
  [][pc = "fire" /\ pc' = "wait" =>
       waitleft' > 0 \/ \E i \in First(nodelist) : count[i] # 0 /\ interval[i] <= 0]_vars

\* A timer with a count below zero fires again and again, until clients stop or
\* restart timers, its owner is released or the service is destroyed.
KeepsFiring ==
  \A i \in Ids :
    <>[](count[i] < 0 /\ phase = "live") /\ <>[][\A c \in Clients : ~BoostStart(c)]_vars
      => []<>(pc = "call" /\ cur = i)
=============================================================================
