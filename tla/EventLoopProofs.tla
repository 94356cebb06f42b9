-------------------------- MODULE EventLoopProofs --------------------------
(***************************************************************************)
(* Proofs about the event loop, for all sets of handles, delays, rules of  *)
(* the client and units of time.                                           *)
(***************************************************************************)
EXTENDS EventLoop, TLAPS

-----------------------------------------------------------------------------
(* The conversion to a timeval. *)

\* A natural number is what its division by k leaves, plus the remainder.
LEMMA DivBounds ==
    ASSUME NEW n \in Nat, NEW k \in Nat, k > 0
    PROVE  /\ n \div k \in Nat
           /\ (n \div k) * k <= n
           /\ n < (n \div k) * k + k
BY SMT

LEMMA NsPerSecPositive == NsPerSec \in Nat /\ NsPerSec > 0
BY UnitAssumption, SMT DEF NsPerSec

\* select() gets a sleep that ends at most one microsecond before the time
\* asked for: duration2Timeval never arms it shorter.
LEMMA SleepLongEnough ==
    ASSUME NEW n \in Nat
    PROVE  /\ SelectNs(duration2Timeval(n)) \in Nat
           /\ n < SelectNs(duration2Timeval(n)) + NsPerUs
<1> DEFINE sec == n \div NsPerSec
           usec == n \div NsPerUs
<1>1. sec \in Nat
  BY DivBounds, NsPerSecPositive
<1>2. usec \in Nat /\ n < usec * NsPerUs + NsPerUs
  BY DivBounds, UnitAssumption
<1>3. SelectNs(duration2Timeval(n)) = sec * NsPerSec + usec * NsPerUs
  BY DEF SelectNs, duration2Timeval
<1>4. sec * NsPerSec \in Nat
  BY <1>1, NsPerSecPositive, SMT
<1>5. usec * NsPerUs \in Nat
  BY <1>2, UnitAssumption, SMT
<1> HIDE DEF sec, usec
<1>6. QED
  BY <1>2, <1>3, <1>4, <1>5, UnitAssumption, SMT

-----------------------------------------------------------------------------
(* Type correctness. *)

\* The steps of handleTimeout() and of the two scans, whoever takes them.
LEMMA HandleTimeoutType ==
    ASSUME TypeOK, NEW e \in eventList, NEW back \in {"late", "deps"},
           handleTimeout(e, back)
    PROVE  TypeOK'
BY DEF TypeOK, handleTimeout, EventDescr, PC, Status, world, handles, list,
       sleep, batch

LEMMA CollectType ==
    ASSUME TypeOK, NEW S \in SUBSET eventList, Collect(S),
           pc' \in {"fd_calls", "dep_calls"}
    PROVE  TypeOK'
BY DEF TypeOK, Collect, PC, Status, world, history

LEMMA TimeoutType ==
    ASSUME TypeOK, NEW t \in Timeouts
    PROVE  t \in Nat
<1>1. PICK base \in {lastEventTime, clock}, d \in Delays : t = base + d
  BY DEF Timeouts
<1>2. base \in Nat
  BY DEF TypeOK
<1>3. d \in Nat
  BY LoopAssumption
<1> QED
  BY <1>1, <1>2, <1>3

LEMMA GoToType ==
    ASSUME TypeOK, NEW p \in PC, GoTo(p)
    PROVE  TypeOK'
BY DEF TypeOK, GoTo, allButPc, world, handles, list, sleep, batch, history

\* While the thread sleeps every event lies after t_now: an interrupted
\* select() is called again with a sleep that is not negative.
Asleep == pc = "select" => \A e \in eventList : tNow < e.t

TypeInv == TypeOK /\ Asleep

LEMMA TypeInit == Init => TypeInv
BY DEF Init, TypeInv, TypeOK, Asleep, PC, Status, Handle

LEMMA TypeStep == TypeInv /\ [Next]_vars => TypeOK'
<1> SUFFICES ASSUME TypeOK, Asleep, [Next]_vars PROVE TypeOK'
  BY DEF TypeInv
<1> USE DEF world, handles, list, sleep, batch, history
<1>1. ASSUME NEW h \in Handle, NEW t \in Timeouts, WaitFor(h, t)
      PROVE  TypeOK'
  <2>1. t \in Nat
    BY TimeoutType
  <2> QED
    BY <1>1, <2>1 DEF WaitFor, TypeOK, EventDescr, Status
<1>2. ASSUME NEW h \in Handle, NEW t \in Timeouts, RefuseWait(h, t)
      PROVE  TypeOK'
  BY <1>2, GoToType DEF RefuseWait, PC
<1>3. ASSUME NEW h \in Handle, Destroy(h)
      PROVE  TypeOK'
  BY <1>3 DEF Destroy, TypeOK
<1>4. ASSUME NEW d \in Depends, Complied(d)
      PROVE  TypeOK'
  BY <1>4 DEF Complied, TypeOK, Ids, EventDescr, Status
<1>5. ASSUME NEW f \in Fds, Transfer(f)
      PROVE  TypeOK'
  <2>1. PICK n \in 0 .. avail[f] - 1 : avail' = [avail EXCEPT ![f] = n]
    BY <1>5 DEF Transfer
  <2> QED
    BY <1>5, <2>1 DEF Transfer, TypeOK
<1>6. CASE Run
  BY <1>6, GoToType DEF Run, PC
<1>7. CASE LoopHead
  BY <1>7 DEF LoopHead, TypeOK, PC
<1>8. CASE LateTimeout
  BY <1>8, HandleTimeoutType DEF LateTimeout
<1>9. CASE LateDangling
  BY <1>9, GoToType DEF LateDangling, PC
<1>10. CASE LateEmpty
  BY <1>10, GoToType DEF LateEmpty, PC
<1>11. CASE EnterSelect
  <2>1. PICK e \in eventList :
          /\ ~ Late(e)
          /\ \/ pc' = "select" /\ remaining' = SelectNs(duration2Timeval(e.t - tNow))
             \/ pc' \in {"dangling", "assert"} /\ UNCHANGED remaining
    BY <1>11 DEF EnterSelect
  <2>2. e.t - tNow \in Nat
    BY <2>1 DEF Late, TypeOK, EventDescr
  <2>3. remaining' \in Nat /\ pc' \in PC
    BY <2>1, <2>2, SleepLongEnough DEF TypeOK, PC
  <2> QED
    BY <1>11, <2>3 DEF EnterSelect, TypeOK
<1>12. CASE SelectTimeout
  BY <1>12, HandleTimeoutType DEF SelectTimeout
<1>13. CASE SelectReady
  BY <1>13, CollectType DEF SelectReady, Active
<1>14. CASE CallNext
  BY <1>14 DEF CallNext, TypeOK, EventDescr, PC
<1>15. CASE FdCallsDone
  BY <1>15 DEF FdCallsDone, TypeOK, PC
<1>16. CASE CollectComplied
  BY <1>16, CollectType DEF CollectComplied, Complying
<1>17. CASE ResetTriggers
  BY <1>17 DEF ResetTriggers, StillTriggered, TypeOK, PC
<1>18. CASE DepsDone
  BY <1>18, GoToType DEF DepsDone, PC
<1>19. CASE PassDangling
  BY <1>19, GoToType DEF PassDangling, PC
<1>20. CASE Return
  BY <1>20 DEF Return, AfterErase, TypeOK, PC
<1>21. CASE Tick
  BY <1>21, UnitAssumption DEF Tick, TypeOK
<1>22. CASE StepBack
  BY <1>22, UnitAssumption DEF StepBack, TypeOK
<1>23. CASE SelectInterrupted
  <2>1. PICK e \in eventList :
          IsFirst(e, eventList)
          /\ remaining' = SelectNs(duration2Timeval(e.t - tNow))
    BY <1>23 DEF SelectInterrupted
  <2>2. e.t - tNow \in Nat
    BY <1>23 DEF SelectInterrupted, Asleep, TypeOK, EventDescr
  <2>3. remaining' \in Nat
    BY <2>1, <2>2, SleepLongEnough
  <2> QED
    BY <1>23, <2>3 DEF SelectInterrupted, TypeOK
<1>24. ASSUME NEW f \in Fds, Arrive(f)
       PROVE  TypeOK'
  BY <1>24 DEF Arrive, TypeOK
<1>25. CASE UNCHANGED vars
  BY <1>25 DEF vars, allButPc, TypeOK
<1>26. ASSUME NEW f \in Fds, RefuseTransfer(f)
       PROVE  TypeOK'
  BY <1>26, GoToType DEF RefuseTransfer, PC
<1> QED
  BY <1>1, <1>2, <1>3, <1>4, <1>5, <1>6, <1>7, <1>8, <1>9, <1>10, <1>11,
     <1>12, <1>13, <1>14, <1>15, <1>16, <1>17, <1>18, <1>19, <1>20, <1>21,
     <1>22, <1>23, <1>24, <1>25, <1>26
     DEF Next, Client, Loop, Outside, Terminated

LEMMA AsleepStep == TypeInv /\ [Next]_vars => Asleep'
<1> SUFFICES ASSUME TypeOK, Asleep, [Next]_vars, pc' = "select"
             PROVE  \A e \in eventList' : tNow' < e.t
  BY DEF TypeInv, Asleep
<1> USE DEF world, handles, list, sleep, batch, history, GoTo, allButPc
<1>1. CASE EnterSelect
  <2>1. PICK e \in eventList : IsFirst(e, eventList) /\ ~ Late(e)
    BY <1>1 DEF EnterSelect
  <2>2. \A o \in eventList : e.t <= o.t
    BY <2>1 DEF IsFirst, Before, TypeOK, EventDescr
  <2>3. tNow < e.t
    BY <2>1 DEF Late, TypeOK, EventDescr
  <2>4. eventList' = eventList /\ tNow' = tNow
    BY <1>1 DEF EnterSelect
  <2> QED
    BY <2>2, <2>3, <2>4 DEF TypeOK, EventDescr
<1>2. CASE ~ EnterSelect
  <2>1. pc = "select" /\ UNCHANGED <<eventList, tNow>>
    <3>1. CASE Client
      BY <3>1 DEF Client, WaitFor, RefuseWait, Complied, Transfer,
                  RefuseTransfer, Destroy, MayTransfer,
                  MayWait, MayComply, InClient
    <3>2. CASE Loop
      BY <1>2, <3>2 DEF Loop, Run, LoopHead, LateTimeout, LateDangling,
         LateEmpty, SelectTimeout, SelectReady, CallNext, FdCallsDone,
         CollectComplied, ResetTriggers, DepsDone, PassDangling, Return,
         handleTimeout, TypeOK
    <3>3. CASE Outside
      BY <3>3 DEF Outside, Tick, StepBack, SelectInterrupted, Arrive
    <3>4. CASE UNCHANGED vars
      BY <3>4 DEF vars
    <3> QED
      BY <3>1, <3>2, <3>3, <3>4 DEF Next, Terminated
  <2> QED
    BY <2>1 DEF Asleep
<1> QED
  BY <1>1, <1>2

\* Every variable keeps its type, whatever the client and the outside do.
THEOREM TypeCorrect == Spec => []TypeOK
<1>1. TypeInv /\ [Next]_vars => TypeInv'
  BY TypeStep, AsleepStep DEF TypeInv
<1>2. TypeInv => TypeOK
  BY DEF TypeInv
<1> QED
  BY TypeInit, <1>1, <1>2, PTL DEF Spec

-----------------------------------------------------------------------------
(* No event is early, and timeouts come in order.                          *)
(*                                                                         *)
(* lastEventTime and lastTimeout come from three places: the timeout of a  *)
(* late event, which is not after t_now; the timeout select() slept for;   *)
(* and the time stored in a call list.  Timely says of each what makes the *)
(* value it hands over less than a microsecond ahead of the clock.         *)

SleptFor == pc = "select" =>
              \A e \in eventList : IsFirst(e, eventList) =>
                e.t < clock + remaining + NsPerUs

Timely == NotEarly /\ tNow <= clock /\ ecTime <= clock /\ SleptFor

LEMMA HandleTimeoutTimely ==
    ASSUME TypeOK, Timely, NEW e \in eventList, NEW back,
           e.t < clock + NsPerUs, handleTimeout(e, back)
    PROVE  Timely'
BY DEF TypeOK, Timely, NotEarly, SleptFor, handleTimeout, EventDescr, world,
       list, sleep, batch

LEMMA CollectTimely ==
    ASSUME TypeOK, Timely, NEW S, Collect(S), pc' # "select"
    PROVE  Timely'
BY DEF TypeOK, Timely, NotEarly, SleptFor, Collect, world, history

\* A step that leaves the times alone and does not start a sleep.
LEMMA SameTimesTimely ==
    ASSUME Timely, pc' # "select",
           UNCHANGED <<clock, lastEventTime, lastTimeout, tNow, ecTime>>
    PROVE  Timely'
BY DEF Timely, NotEarly, SleptFor

LEMMA TimelyInit == Init => Timely
BY UnitAssumption DEF Init, Timely, NotEarly, SleptFor

LEMMA TimelyStep ==
    ASSUME "clock_steps" \notin Platform, TypeInv, Timely, [Next]_vars
    PROVE  Timely'
<1> USE DEF TypeInv, world, handles, list, sleep, batch, history, GoTo, allButPc
<1>1. CASE Client
  <2>1. InClient /\ UNCHANGED <<clock, lastEventTime, lastTimeout, tNow, ecTime>>
    BY <1>1 DEF Client, WaitFor, RefuseWait, Complied, Transfer,
                  RefuseTransfer, Destroy, MayTransfer,
                MayWait, MayComply, InClient
  <2>2. pc' # "select"
    BY <1>1 DEF Client, WaitFor, RefuseWait, Complied, Transfer,
                  RefuseTransfer, Destroy, MayTransfer,
                MayWait, MayComply, InClient
  <2> QED
    BY <2>1, <2>2, SameTimesTimely
<1>2. CASE \/ Run \/ LateDangling \/ LateEmpty \/ DepsDone \/ PassDangling
           \/ Return \/ FdCallsDone \/ ResetTriggers
  BY <1>2, SameTimesTimely DEF Run, LateDangling, LateEmpty, DepsDone,
     PassDangling, Return, FdCallsDone, ResetTriggers, TypeOK
<1>3. CASE LoopHead
  BY <1>3 DEF LoopHead, Timely, NotEarly, SleptFor, TypeOK
<1>4. CASE LateTimeout
  <2>1. PICK e \in eventList : Late(e) /\ handleTimeout(e, "late")
    BY <1>4 DEF LateTimeout
  <2>2. e.t < clock + NsPerUs
    BY <2>1, UnitAssumption DEF Late, Timely, TypeOK, EventDescr
  <2> QED
    BY <2>1, <2>2, HandleTimeoutTimely
<1>5. CASE EnterSelect
  <2>1. PICK e \in eventList :
          /\ IsFirst(e, eventList)
          /\ ~ Late(e)
          /\ pc' = "select" => remaining' = SelectNs(duration2Timeval(e.t - tNow))
    BY <1>5 DEF EnterSelect
  <2>2. e.t - tNow \in Nat
    BY <2>1 DEF Late, TypeOK, EventDescr
  <2>3. ASSUME pc' = "select"
        PROVE  e.t < clock + remaining' + NsPerUs
    <3>1. /\ remaining' \in Nat
          /\ e.t - tNow < remaining' + NsPerUs
      BY <2>1, <2>2, <2>3, SleepLongEnough
    <3> QED
      BY <3>1, UnitAssumption DEF Timely, TypeOK, EventDescr
  <2>4. \A o \in eventList : IsFirst(o, eventList) => o = e
    BY <2>1 DEF IsFirst, Before, TypeOK, EventDescr
  <2> QED
    BY <1>5, <2>3, <2>4 DEF EnterSelect, Timely, NotEarly, SleptFor
<1>6. CASE SelectTimeout
  <2>1. PICK e \in eventList : handleTimeout(e, "deps")
    BY <1>6 DEF SelectTimeout
  <2>2. e.t < clock + NsPerUs
    BY <1>6, <2>1 DEF SelectTimeout, handleTimeout, Timely, SleptFor, TypeOK
  <2> QED
    BY <2>1, <2>2, HandleTimeoutTimely
<1>7. CASE SelectReady \/ CollectComplied
  BY <1>7, CollectTimely DEF SelectReady, CollectComplied
<1>8. CASE CallNext
  BY <1>8, UnitAssumption
     DEF CallNext, Timely, NotEarly, SleptFor, TypeOK
<1>9. CASE Tick
  <2>1. clock' = clock + NsPerUs
    BY <1>9 DEF Tick
  <2>2. clock' + remaining' >= clock + remaining /\ clock' >= clock
    BY <1>9, UnitAssumption DEF Tick, TypeOK
  <2>3. \A e \in eventList : e.t < clock + remaining + NsPerUs
                             => e.t < clock' + remaining' + NsPerUs
    BY <2>2, TypeStep, UnitAssumption DEF TypeOK, EventDescr
  <2>4. NotEarly' /\ tNow' <= clock' /\ ecTime' <= clock'
    BY <1>9, <2>2, UnitAssumption DEF Tick, Timely, NotEarly, TypeOK
  <2> QED
    BY <1>9, <2>3, <2>4 DEF Tick, Timely, SleptFor
<1>10. CASE SelectInterrupted
  <2>1. PICK e \in eventList :
          /\ IsFirst(e, eventList)
          /\ remaining' = SelectNs(duration2Timeval(e.t - tNow))
    BY <1>10 DEF SelectInterrupted
  <2>2. e.t - tNow \in Nat
    BY <1>10 DEF SelectInterrupted, Asleep, TypeOK, EventDescr
  <2>3. e.t < clock + remaining' + NsPerUs
    <3>1. /\ remaining' \in Nat
          /\ e.t - tNow < remaining' + NsPerUs
      BY <2>1, <2>2, SleepLongEnough
    <3> QED
      BY <3>1, UnitAssumption DEF Timely, TypeOK, EventDescr
  <2>4. \A o \in eventList : IsFirst(o, eventList) => o = e
    BY <2>1 DEF IsFirst, Before, TypeOK, EventDescr
  <2> QED
    BY <1>10, <2>3, <2>4 DEF SelectInterrupted, Timely, NotEarly, SleptFor
<1>11. CASE (\E f \in Fds : Arrive(f)) \/ UNCHANGED vars
  BY <1>11 DEF Arrive, vars, Timely, NotEarly, SleptFor
<1> QED
  BY <1>1, <1>2, <1>3, <1>4, <1>5, <1>6, <1>7, <1>8, <1>9, <1>10, <1>11
     DEF Next, Loop, Outside, Terminated, StepBack

\* As long as the clock is not set back, the time published for an event and
\* the timeout delivered are less than a microsecond ahead of the clock,
\* whatever the client does.
THEOREM Punctual == "clock_steps" \notin Platform => (Spec => []NotEarly)
<1> SUFFICES ASSUME "clock_steps" \notin Platform
             PROVE  Spec => []NotEarly
  OBVIOUS
<1>1. TypeInv /\ Timely /\ [Next]_vars => TypeInv' /\ Timely'
  BY TypeStep, AsleepStep, TimelyStep DEF TypeInv
<1>2. Timely => NotEarly
  BY DEF Timely
<1> QED
  BY TypeInit, TimelyInit, <1>1, <1>2, PTL DEF Spec

-----------------------------------------------------------------------------
(* The order of timeouts. *)

InBatch == \/ pc \in {"fd_calls", "dep_calls"}
           \/ pc = "callback" /\ returnTo \in {"fd_calls", "dep_calls"}

\* What waitFor() compares a new timeout with is not a microsecond behind the
\* last timeout delivered, so neither is any event in the list.
Ordered ==
    /\ lastTimeout < lastEventTime + NsPerUs
    /\ InBatch => lastTimeout < ecTime + NsPerUs
    /\ \A e \in eventList : lastTimeout < e.t + NsPerUs

LEMMA HandleTimeoutOrdered ==
    ASSUME TypeOK, Ordered, NEW e \in eventList, NEW back \in {"late", "deps"},
           handleTimeout(e, back)
    PROVE  Ordered' /\ lastTimeout' > lastTimeout - NsPerUs
<1>1. lastTimeout' = e.t /\ lastEventTime' = e.t /\ eventList' = eventList
  BY DEF handleTimeout, list
<1>2. \A o \in eventList : e.t <= o.t
  BY DEF handleTimeout, IsFirst, Before, TypeOK, EventDescr
<1>3. ~ InBatch'
  BY DEF handleTimeout, InBatch
<1>4. e.t \in Nat /\ \A o \in eventList : o.t \in Nat
  BY DEF TypeOK, EventDescr
<1>5. lastTimeout' > lastTimeout - NsPerUs
  BY <1>1, <1>4, UnitAssumption DEF Ordered, TypeOK
<1> QED
  BY <1>1, <1>2, <1>3, <1>4, <1>5, UnitAssumption DEF Ordered

\* A step that delivers no timeout and takes no call list over.
LEMMA SameTimesOrdered ==
    ASSUME Ordered, eventList' \subseteq eventList, InBatch' => InBatch,
           UNCHANGED <<lastEventTime, lastTimeout, ecTime>>
    PROVE  Ordered'
BY DEF Ordered

LEMMA CollectOrdered ==
    ASSUME TypeOK, NotEarly, Ordered, NEW S \in SUBSET eventList, Collect(S)
    PROVE  Ordered'
BY DEF TypeOK, NotEarly, Ordered, Collect, history

LEMMA OrderedInit == Init => Ordered
BY UnitAssumption DEF Init, Ordered, InBatch

LEMMA OrderedStep ==
    ASSUME TypeOK, NotEarly, Ordered, [Next]_vars
    PROVE  Ordered' /\ (lastTimeout' # lastTimeout
                          => lastTimeout' > lastTimeout - NsPerUs)
<1> USE DEF world, handles, list, sleep, batch, history, GoTo, allButPc
<1>1. ASSUME NEW h \in Handle, NEW t \in Timeouts, WaitFor(h, t)
      PROVE  Ordered' /\ lastTimeout' = lastTimeout
  <2>1. t \in Nat /\ t >= lastEventTime
    BY <1>1, TimeoutType DEF WaitFor
  <2>2. lastTimeout < t + NsPerUs
    BY <2>1, UnitAssumption DEF Ordered, TypeOK
  <2>3. \A e \in eventList' : lastTimeout < e.t + NsPerUs
    BY <1>1, <2>2 DEF WaitFor, Ordered
  <2> QED
    BY <1>1, <2>3 DEF WaitFor, Ordered, InBatch
<1>2. CASE \E h \in Handle : \/ \E t \in Timeouts : RefuseWait(h, t)
                             \/ Destroy(h)
  BY <1>2, SameTimesOrdered DEF RefuseWait, Destroy, InBatch
<1>3. CASE \/ \E d \in Depends : Complied(d)
           \/ \E f \in Fds : Transfer(f) \/ RefuseTransfer(f)
  BY <1>3, SameTimesOrdered DEF Complied, Transfer, RefuseTransfer, InBatch
<1>4. CASE \/ Run \/ LoopHead \/ LateDangling \/ LateEmpty \/ EnterSelect
           \/ DepsDone \/ PassDangling \/ FdCallsDone \/ ResetTriggers
  BY <1>4, SameTimesOrdered DEF Run, LoopHead, LateDangling, LateEmpty,
     EnterSelect, DepsDone, PassDangling, FdCallsDone, ResetTriggers, InBatch
<1>5. CASE Return
  BY <1>5, SameTimesOrdered DEF Return, AfterErase, InBatch
<1>6. CASE LateTimeout \/ SelectTimeout
  BY <1>6, HandleTimeoutOrdered DEF LateTimeout, SelectTimeout
<1>7. CASE SelectReady \/ CollectComplied
  <2>1. PICK S \in SUBSET eventList : Collect(S)
    BY <1>7 DEF SelectReady, CollectComplied, Active, Complying
  <2> QED
    BY <2>1, CollectOrdered DEF Collect
<1>8. CASE CallNext
  BY <1>8 DEF CallNext, Ordered, InBatch
<1>9. CASE Outside
  BY <1>9, SameTimesOrdered
     DEF Outside, Tick, StepBack, SelectInterrupted, Arrive, InBatch
<1>10. CASE UNCHANGED vars
  BY <1>10 DEF vars, Ordered, InBatch
<1> QED
  BY <1>1, <1>2, <1>3, <1>4, <1>5, <1>6, <1>7, <1>8, <1>9, <1>10
     DEF Next, Client, Loop, Terminated

\* Timeouts are delivered in the order of their times to within a
\* microsecond, whatever the client inserts while they are delivered.
THEOREM TimeoutsInOrder ==
    "clock_steps" \notin Platform => (Spec => TimeoutOrder)
<1> SUFFICES ASSUME "clock_steps" \notin Platform
             PROVE  Spec => TimeoutOrder
  OBVIOUS
<1>1. TypeInv /\ Timely /\ [Next]_vars => TypeInv' /\ Timely'
  BY TypeStep, AsleepStep, TimelyStep DEF TypeInv
<1>2. TypeInv /\ Timely /\ Ordered /\ [Next]_vars => Ordered'
  BY OrderedStep DEF TypeInv, Timely
<1>3. TypeInv /\ Timely /\ Ordered /\ [Next]_vars
        => [lastTimeout' > lastTimeout - NsPerUs]_lastTimeout
  BY OrderedStep DEF TypeInv, Timely
<1> QED
  BY TypeInit, TimelyInit, OrderedInit, <1>1, <1>2, <1>3, PTL
     DEF Spec, TimeoutOrder

-----------------------------------------------------------------------------
(* waitFor() does not abort a careful client. *)

\* If the client's timeouts lie a microsecond or more after lastEventTime or
\* after now(), and the clock is not set back, waitFor() never aborts.
THEOREM CarefulClientSurvives ==
    "clock_steps" \notin Platform /\ (\A d \in Delays : d >= NsPerUs)
      => (Spec => []NeverAborts)
<1> SUFFICES ASSUME "clock_steps" \notin Platform,
                    \A d \in Delays : d >= NsPerUs
             PROVE  Spec => []NeverAborts
  OBVIOUS
<1>1. TypeInv /\ Timely /\ [Next]_vars => TypeInv' /\ Timely'
  BY TypeStep, AsleepStep, TimelyStep DEF TypeInv
<1>2. ASSUME TypeOK, NotEarly, NEW h \in Handle, NEW t \in Timeouts
      PROVE  ~ RefuseWait(h, t)
  <2>1. PICK base \in {lastEventTime, clock}, d \in Delays : t = base + d
    BY DEF Timeouts
  <2>2. d \in Nat /\ d >= NsPerUs
    BY LoopAssumption
  <2>3. t = lastEventTime + d \/ t = clock + d
    BY <2>1
  <2>4. t >= lastEventTime
    BY <1>2, <2>2, <2>3, UnitAssumption DEF TypeOK, NotEarly
  <2> QED
    BY <1>2, <2>4, TimeoutType DEF RefuseWait, TypeOK
<1>3. TypeInv /\ Timely /\ NeverAborts /\ [Next]_vars => NeverAborts'
  <2> SUFFICES ASSUME TypeOK, NotEarly, pc # "abort", [Next]_vars
               PROVE  pc' # "abort"
    BY DEF TypeInv, Timely, NeverAborts
  <2>1. CASE Client
    BY <1>2, <2>1 DEF Client, WaitFor, Complied, Transfer, RefuseTransfer,
                            Destroy, GoTo
  <2>2. CASE Loop
    BY <2>2 DEF Loop, GoTo, Run, LoopHead, LateTimeout, LateDangling,
       LateEmpty, EnterSelect, SelectTimeout, SelectReady, CallNext,
       FdCallsDone, CollectComplied, ResetTriggers, DepsDone, PassDangling,
       Return, handleTimeout, TypeOK
  <2>3. CASE Outside \/ UNCHANGED vars
    BY <2>3 DEF Outside, Tick, StepBack, SelectInterrupted, Arrive, vars
  <2> QED
    BY <2>1, <2>2, <2>3 DEF Next, Terminated
<1>4. Init => NeverAborts
  BY DEF Init, NeverAborts
<1> QED
  BY TypeInit, TimelyInit, <1>1, <1>3, <1>4, PTL DEF Spec

=============================================================================
