------------------------- MODULE PoliteClientProofs -------------------------
(***************************************************************************)
(* What a client gets for keeping rules, for all sets of handles, delays   *)
(* and platforms: each property from the rules it needs, and no others.    *)
(***************************************************************************)
EXTENDS EventLoopProofs

-----------------------------------------------------------------------------
(* Where events are while no call list is being called. *)

\* No call list is being called.
Resting == \/ pc \in {"start", "head", "late", "select", "deps"}
           \/ pc = "callback" /\ returnTo \in {"late", "deps"}

Placed ==
    /\ pc \notin {"callback", "abort", "not_ready"} => cur = {}
    /\ pc = "callback" => returnTo \in {"late", "deps", "fd_calls", "dep_calls"}
    /\ Resting => todo = {}

LEMMA PlacedInit == Init => Placed
BY DEF Init, Placed, Resting

LEMMA PlacedStep == TypeOK /\ Placed /\ [Next]_vars => Placed'
<1> SUFFICES ASSUME TypeOK, Placed, [Next]_vars PROVE Placed'
  OBVIOUS
<1> USE DEF Placed, Resting, world, handles, list, sleep, batch, history, GoTo,
            allButPc
<1>1. CASE Client
  BY <1>1 DEF Client, WaitFor, RefuseWait, Complied, Transfer, RefuseTransfer, MayTransfer, Destroy, MayWait,
              MayComply, InClient
<1>2. CASE LateTimeout \/ SelectTimeout
  BY <1>2 DEF LateTimeout, SelectTimeout, handleTimeout
<1>3. CASE SelectReady \/ CollectComplied
  BY <1>3 DEF SelectReady, CollectComplied, Collect
<1>4. CASE CallNext
  BY <1>4 DEF CallNext
<1>5. CASE FdCallsDone \/ ResetTriggers \/ Return
  BY <1>5 DEF FdCallsDone, ResetTriggers, Return
<1>6. CASE \/ Run \/ LoopHead \/ LateDangling \/ LateEmpty \/ EnterSelect
           \/ DepsDone \/ PassDangling
  BY <1>6 DEF Run, LoopHead, LateDangling, LateEmpty, EnterSelect, DepsDone,
     PassDangling
<1>7. CASE Outside \/ UNCHANGED vars
  BY <1>7 DEF Outside, Tick, StepBack, SelectInterrupted, Arrive, vars
<1> QED
  BY <1>1, <1>2, <1>3, <1>4, <1>5, <1>6, <1>7 DEF Next, Loop, Terminated

\* An event that is to be called was so before, or was given to waitFor().
LEMMA UncalledStep ==
    ASSUME TypeOK, Placed, [Next]_vars
    PROVE  \/ Uncalled' \subseteq Uncalled
           \/ \E h \in Handle, t \in Timeouts :
                /\ WaitFor(h, t)
                /\ Uncalled' \subseteq
                     Uncalled \cup {[id |-> nextId, h |-> h, t |-> t]}
<1> USE DEF Placed, Resting, Uncalled, world, handles, list, sleep, batch,
            history, GoTo, allButPc
<1>1. ASSUME NEW h \in Handle, NEW t \in Timeouts, WaitFor(h, t)
      PROVE  Uncalled' \subseteq Uncalled \cup {[id |-> nextId, h |-> h, t |-> t]}
  BY <1>1 DEF WaitFor
<1>2. CASE \/ \E h \in Handle : Destroy(h) \/ \E t \in Timeouts : RefuseWait(h, t)
           \/ \E d \in Depends : Complied(d)
           \/ \E f \in Fds : Transfer(f) \/ RefuseTransfer(f)
  BY <1>2 DEF Destroy, RefuseWait, Complied, Transfer, RefuseTransfer
<1>3. CASE LateTimeout \/ SelectTimeout
  BY <1>3 DEF LateTimeout, SelectTimeout, handleTimeout
<1>4. CASE SelectReady \/ CollectComplied
  <2>1. PICK S \in SUBSET eventList : Collect(S)
    BY <1>4 DEF SelectReady, CollectComplied, Active, Complying
  <2>2. cur = {} /\ todo = {} /\ cur' = {}
    BY <1>4 DEF SelectReady, CollectComplied, Collect
  <2> QED
    BY <2>1, <2>2 DEF Collect
<1>5. CASE CallNext
  BY <1>5 DEF CallNext
<1>6. CASE FdCallsDone \/ ResetTriggers
  BY <1>6 DEF FdCallsDone, ResetTriggers
<1>7. CASE Return
  BY <1>7 DEF Return, AfterErase
<1>8. CASE \/ Run \/ LoopHead \/ LateDangling \/ LateEmpty \/ EnterSelect
           \/ DepsDone \/ PassDangling
  BY <1>8 DEF Run, LoopHead, LateDangling, LateEmpty, EnterSelect, DepsDone,
     PassDangling
<1>9. CASE Outside \/ UNCHANGED vars
  BY <1>9 DEF Outside, Tick, StepBack, SelectInterrupted, Arrive, vars
<1> QED
  BY <1>1, <1>2, <1>3, <1>4, <1>5, <1>6, <1>7, <1>8, <1>9
     DEF Next, Client, Loop, Terminated

-----------------------------------------------------------------------------
(* Destroyed handles. *)

Live == On(Uncalled) \subseteq alive /\ On(elist) \subseteq alive

LEMMA LiveInit == Init => Live /\ NoDangling
BY DEF Init, Live, NoDangling, On, Uncalled

LEMMA LiveStep ==
    ASSUME {"destroy_idle", "destroy_outside"} \subseteq ClientRules,
           TypeOK, Placed, Live, NoDangling, [Next]_vars
    PROVE  Live' /\ NoDangling'
<1> USE DEF world, handles, list, sleep, batch, history, GoTo, allButPc
<1>1. ASSUME NEW h \in Handle, Destroy(h) PROVE Live' /\ NoDangling'
  <2>1. h \notin On(Uncalled) /\ h \notin On(elist) /\ alive' = alive \ {h}
    BY <1>1 DEF Destroy
  <2>2. Uncalled' = Uncalled /\ elist' = elist /\ pc' = pc
    BY <1>1 DEF Destroy, Uncalled
  <2> QED
    BY <2>1, <2>2 DEF Live, NoDangling, On
<1>2. CASE ~ \E h \in Handle : Destroy(h)
  <2>1. alive' = alive
    BY <1>2 DEF Next, Client, Loop, Outside, Terminated, WaitFor, RefuseWait,
       Complied, Transfer, RefuseTransfer, Run, LoopHead, LateTimeout, LateDangling,
       LateEmpty, EnterSelect, SelectTimeout, SelectReady, CallNext,
       FdCallsDone, CollectComplied, ResetTriggers, DepsDone, PassDangling,
       Return, handleTimeout, Collect, Tick, StepBack, SelectInterrupted,
       Arrive, vars
  <2>2. On(Uncalled)' \subseteq alive
    <3>1. CASE Uncalled' \subseteq Uncalled
      BY <3>1 DEF Live, On
    <3>2. ASSUME NEW h \in Handle, NEW t \in Timeouts, WaitFor(h, t),
                 Uncalled' \subseteq
                   Uncalled \cup {[id |-> nextId, h |-> h, t |-> t]}
          PROVE  On(Uncalled)' \subseteq alive
      BY <3>2 DEF Live, On, WaitFor, MayWait
    <3> QED
      BY <3>1, <3>2, UncalledStep
  <2>3. On(elist)' \subseteq alive
    <3>1. CASE SelectReady \/ CollectComplied
      <4>1. PICK S \in SUBSET eventList : Collect(S)
        BY <3>1 DEF SelectReady, CollectComplied, Active, Complying
      <4>2. cur = {} /\ elist' \subseteq eventList
        BY <3>1, <4>1 DEF SelectReady, CollectComplied, Collect, Placed
      <4> QED
        BY <4>2 DEF Live, On, Uncalled
    <3>2. CASE ~ (SelectReady \/ CollectComplied)
      <4>1. elist' \subseteq elist
        BY <3>2 DEF Next, Client, Loop, Outside, Terminated, WaitFor,
           RefuseWait, Complied, Transfer, RefuseTransfer, MayTransfer, Destroy, Run, LoopHead,
           LateTimeout, LateDangling, LateEmpty, EnterSelect, SelectTimeout,
           CallNext, FdCallsDone, ResetTriggers, DepsDone, PassDangling,
           Return, handleTimeout, Tick, StepBack, SelectInterrupted, Arrive,
           vars
      <4> QED
        BY <4>1 DEF Live, On
    <3> QED
      BY <3>1, <3>2
  <2>4. NoDangling'
    <3>1. CASE LateDangling \/ EnterSelect \/ PassDangling
      <4>1. cur = {} /\ On(eventList) \subseteq alive
        BY <3>1 DEF LateDangling, EnterSelect, PassDangling, Placed, Live, On,
           Uncalled
      <4> QED
        BY <3>1, <4>1 DEF LateDangling, EnterSelect, PassDangling, Live,
           NoDangling, Dangling, On
    <3>2. CASE ~ (LateDangling \/ EnterSelect \/ PassDangling)
      BY <3>2 DEF NoDangling, Placed, Next, Client, Loop, Outside, Terminated,
         WaitFor, RefuseWait, Complied, Transfer, RefuseTransfer, MayTransfer, Destroy, Run, LoopHead,
         LateTimeout, LateEmpty, SelectTimeout, SelectReady, CallNext,
         FdCallsDone, CollectComplied, ResetTriggers, DepsDone, Return,
         handleTimeout, Tick, StepBack, SelectInterrupted, Arrive, vars,
         Collect, TypeOK
    <3> QED
      BY <3>1, <3>2
  <2> QED
    BY <2>1, <2>2, <2>3, <2>4 DEF Live
<1> QED
  BY <1>1, <1>2

\* A client that destroys no handle while an event waits on it, nor a handle of
\* the batch being called, never makes the loop follow a destroyed handle.
THEOREM NothingDangles ==
    {"destroy_idle", "destroy_outside"} \subseteq ClientRules
      => (Spec => []NoDangling)
<1> SUFFICES ASSUME {"destroy_idle", "destroy_outside"} \subseteq ClientRules
             PROVE  Spec => []NoDangling
  OBVIOUS
<1>1. TypeInv /\ [Next]_vars => TypeInv'
  BY TypeStep, AsleepStep DEF TypeInv
<1>2. TypeInv /\ Placed /\ [Next]_vars => Placed'
  BY PlacedStep DEF TypeInv
<1>3. TypeInv /\ Placed /\ Live /\ NoDangling /\ [Next]_vars
        => Live' /\ NoDangling'
  BY LiveStep DEF TypeInv
<1> QED
  BY TypeInit, PlacedInit, LiveInit, <1>1, <1>2, <1>3, PTL DEF Spec

-----------------------------------------------------------------------------
(* Handles stay ready until their callback. *)

LEMMA ReadyInit == Init => ReadyUntilCalled
BY DEF Init, ReadyUntilCalled

\* While an event is still to be called, waitFor() may not be called on its
\* handle by "one_wait", nor a transfer be made on it by "leaves_due"; complied()
\* sets what the event was collected for.
LEMMA ReadyStep ==
    ASSUME {"one_wait", "leaves_due"} \subseteq ClientRules, TypeOK, Placed,
           ReadyUntilCalled, [Next]_vars
    PROVE  ReadyUntilCalled'
<1> USE DEF world, handles, list, sleep, batch, history, GoTo, allButPc
<1>0. todo \subseteq EventDescr /\ \A e \in todo : e.h \in Handle
  BY DEF TypeOK, EventDescr
<1>1. ASSUME NEW h \in Handle, NEW t \in Timeouts, WaitFor(h, t)
      PROVE  ReadyUntilCalled'
  <2>1. \A e \in todo : e.h # h
    BY <1>1 DEF WaitFor, MayWait, On, Uncalled
  <2> QED
    BY <1>0, <1>1, <2>1 DEF WaitFor, ReadyUntilCalled, TypeOK
<1>2. ASSUME NEW d \in Depends, Complied(d) PROVE ReadyUntilCalled'
  BY <1>0, <1>2 DEF Complied, ReadyUntilCalled, TypeOK, Handle
<1>3. ASSUME NEW f \in Fds, Transfer(f) PROVE ReadyUntilCalled'
  <2>1. \A e \in todo : e.h # f
    BY <1>3 DEF Transfer, MayTransfer, On
  <2>2. PICK n \in 0 .. avail[f] - 1 : avail' = [avail EXCEPT ![f] = n]
    BY <1>3 DEF Transfer
  <2>3. \A e \in todo : e.h \in Fds => avail'[e.h] = avail[e.h]
    BY <2>1, <2>2 DEF TypeOK
  <2>4. todo' = todo /\ status' = status
    BY <1>3 DEF Transfer
  <2> QED
    BY <2>3, <2>4 DEF ReadyUntilCalled
<1>4. CASE LateTimeout \/ SelectTimeout
  <2>1. todo' = {}
    BY <1>4 DEF LateTimeout, SelectTimeout, handleTimeout, Placed, Resting
  <2> QED
    BY <2>1 DEF ReadyUntilCalled
<1>5. CASE SelectReady \/ CollectComplied
  <2>1. PICK S \in SUBSET eventList :
          Collect(S) /\ \A e \in S : e.h \in Fds => avail[e.h] > 0
    BY <1>5, LoopAssumption
       DEF SelectReady, CollectComplied, Active, Complying
  <2>2. \A e \in S : e.h \in Handle /\ e.h \in On(S)
    BY DEF On, TypeOK, EventDescr
  <2>3. todo' = S /\ avail' = avail /\ \A e \in S : status'[e.h] = "Ready"
    BY <2>1, <2>2 DEF Collect
  <2> QED
    BY <2>1, <2>3 DEF ReadyUntilCalled
<1>6. CASE CallNext
  BY <1>6 DEF CallNext, ReadyUntilCalled
<1>7. CASE Tick \/ StepBack \/ SelectInterrupted
  BY <1>7 DEF Tick, StepBack, SelectInterrupted, ReadyUntilCalled
<1>8. ASSUME NEW f \in Fds, Arrive(f) PROVE ReadyUntilCalled'
  BY <1>8 DEF Arrive, ReadyUntilCalled, TypeOK
<1>9. CASE \/ \E h \in Handle : Destroy(h) \/ \E t \in Timeouts : RefuseWait(h, t)
           \/ \E f \in Fds : RefuseTransfer(f)
           \/ UNCHANGED vars
  BY <1>9 DEF Destroy, RefuseWait, RefuseTransfer, vars, ReadyUntilCalled
<1>10. CASE \/ Run \/ LoopHead \/ LateDangling \/ LateEmpty \/ EnterSelect
            \/ FdCallsDone \/ ResetTriggers \/ DepsDone \/ PassDangling
            \/ Return
  BY <1>10 DEF Run, LoopHead, LateDangling, LateEmpty, EnterSelect,
     FdCallsDone, ResetTriggers, DepsDone, PassDangling, Return,
     ReadyUntilCalled
<1> QED
  BY <1>1, <1>2, <1>3, <1>4, <1>5, <1>6, <1>7, <1>8, <1>9, <1>10
     DEF Next, Client, Loop, Outside, Terminated

\* A client that has at most one event waiting on a handle, and leaves the data
\* of a handle found ready to the callbacks of that handle, finds the handle as it
\* was reported when the callback comes, after the others of its batch.
THEOREM ReadyHandlesStayReady ==
    {"one_wait", "leaves_due"} \subseteq ClientRules
      => (Spec => []ReadyUntilCalled)
<1> SUFFICES ASSUME {"one_wait", "leaves_due"} \subseteq ClientRules
             PROVE  Spec => []ReadyUntilCalled
  OBVIOUS
<1>1. TypeInv /\ [Next]_vars => TypeInv'
  BY TypeStep, AsleepStep DEF TypeInv
<1>2. TypeInv /\ Placed /\ [Next]_vars => Placed'
  BY PlacedStep DEF TypeInv
<1>3. TypeInv /\ Placed /\ ReadyUntilCalled /\ [Next]_vars => ReadyUntilCalled'
  BY ReadyStep DEF TypeInv
<1> QED
  BY TypeInit, PlacedInit, ReadyInit, <1>1, <1>2, <1>3, PTL DEF Spec

-----------------------------------------------------------------------------
(* Triggers. *)

\* Ids tell pending events apart, and those to come from all that are owed.
Numbered ==
    /\ \A e \in eventList : e.id < nextId
    /\ \A e, o \in eventList : e.id = o.id => e = o
    /\ \A n \in owed : n < nextId

\* While dependent events are being called, no event that waits on a handle of
\* theirs is owed a trigger: the reset that follows takes none away.
ResetTakesNone ==
    (\/ pc = "dep_calls"
     \/ pc = "callback" /\ returnTo = "dep_calls")
      => \A e \in eventList \ cur : e.h \in On(elist) => e.id \notin owed

\* An event is owed a trigger only on a handle that has one.
OwedTriggers ==
    \A e \in eventList \ cur : e.id \in owed => e.h \in Depends /\ triggered[e.h]

LEMMA TriggersInit == Init => Numbered /\ ResetTakesNone /\ OwedTriggers
BY DEF Init, Numbered, ResetTakesNone, OwedTriggers

LEMMA NumberedStep == TypeOK /\ Numbered /\ [Next]_vars => Numbered'
<1> SUFFICES ASSUME TypeOK, Numbered, [Next]_vars PROVE Numbered'
  OBVIOUS
<1> USE DEF world, handles, list, sleep, batch, history, GoTo, allButPc
<1>0. /\ nextId \in Nat /\ \A e \in eventList : e.id \in Nat
      /\ owed \subseteq Nat
  BY DEF TypeOK, EventDescr
<1>1. ASSUME NEW h \in Handle, NEW t \in Timeouts, WaitFor(h, t)
      PROVE  Numbered'
  <2> DEFINE new == [id |-> nextId, h |-> h, t |-> t]
  <2>1. /\ eventList' = eventList \cup {new} /\ nextId' = nextId + 1
        /\ owed' = owed /\ new.id = nextId
    BY <1>1 DEF WaitFor
  <2> HIDE DEF new
  <2> QED
    BY <1>0, <2>1 DEF Numbered
<1>2. ASSUME NEW d \in Depends, Complied(d) PROVE Numbered'
  BY <1>2 DEF Complied, Numbered, Ids
<1>3. CASE ~ (\/ \E h \in Handle, t \in Timeouts : WaitFor(h, t)
              \/ \E d \in Depends : Complied(d))
  <2>1. eventList' \subseteq eventList /\ nextId' = nextId /\ owed' \subseteq owed
    BY <1>3 DEF Next, Client, Loop, Outside, Terminated, RefuseWait, Transfer,
       RefuseTransfer,       Destroy, Run, LoopHead, LateTimeout, LateDangling, LateEmpty,
       EnterSelect, SelectTimeout, SelectReady, CallNext, FdCallsDone,
       CollectComplied, ResetTriggers, DepsDone, PassDangling, Return,
       AfterErase, handleTimeout, Collect, Tick, StepBack, SelectInterrupted,
       Arrive, vars
  <2> QED
    BY <2>1 DEF Numbered
<1> QED
  BY <1>1, <1>2, <1>3

LEMMA TriggersStep ==
    ASSUME "no_self_comply" \in ClientRules, TypeOK, Placed, Numbered,
           ResetTakesNone, OwedTriggers, [Next]_vars
    PROVE  ResetTakesNone' /\ OwedTriggers'
<1> USE DEF world, handles, list, sleep, batch, history, GoTo, allButPc
<1>0. /\ nextId \in Nat /\ \A e \in eventList : e.id \in Nat /\ e.h \in Handle
      /\ owed \subseteq Nat /\ triggered \in [Depends -> BOOLEAN]
  BY DEF TypeOK, EventDescr
<1>1. ASSUME NEW h \in Handle, NEW t \in Timeouts, WaitFor(h, t)
      PROVE  ResetTakesNone' /\ OwedTriggers'
  <2> DEFINE new == [id |-> nextId, h |-> h, t |-> t]
  <2>1. /\ eventList' = eventList \cup {new} /\ new.id = nextId
        /\ UNCHANGED <<cur, owed, triggered, elist, pc, returnTo>>
    BY <1>1 DEF WaitFor
  <2>2. new.id \notin owed
    BY <1>0, <2>1 DEF Numbered
  <2> HIDE DEF new
  <2> QED
    BY <2>1, <2>2 DEF ResetTakesNone, OwedTriggers, On
<1>2. ASSUME NEW d \in Depends, Complied(d)
      PROVE  ResetTakesNone' /\ OwedTriggers'
  <2>1. /\ d \notin On(elist)
        /\ owed' = owed \cup Ids({e \in eventList \ cur : e.h = d})
        /\ triggered' = [triggered EXCEPT ![d] = TRUE]
        /\ UNCHANGED <<eventList, cur, elist, pc, returnTo>>
    BY <1>2 DEF Complied, MayComply
  <2>2. \A e \in eventList \ cur : e.id \in owed' => e.id \in owed \/ e.h = d
    BY <2>1 DEF Ids, Numbered
  <2>3. ResetTakesNone'
    BY <2>1, <2>2 DEF ResetTakesNone, On
  <2>4. OwedTriggers'
    BY <1>0, <2>1, <2>2 DEF OwedTriggers
  <2> QED
    BY <2>3, <2>4
<1>3. CASE LateTimeout \/ SelectTimeout
  <2>1. PICK e \in eventList, back \in {"late", "deps"} : handleTimeout(e, back)
    BY <1>3 DEF LateTimeout, SelectTimeout
  <2>2. /\ cur' = {e} /\ eventList' = eventList /\ owed' = owed \ {e.id}
        /\ pc' = "callback" /\ returnTo' \in {"late", "deps"}
        /\ triggered' = triggered /\ cur = {}
    BY <1>3, <2>1 DEF LateTimeout, SelectTimeout, handleTimeout, Placed
  <2> QED
    BY <2>2 DEF ResetTakesNone, OwedTriggers
<1>4. CASE SelectReady
  BY <1>4 DEF SelectReady, Collect, ResetTakesNone, OwedTriggers
<1>5. CASE CollectComplied
  <2>1. /\ eventList' = eventList \ Complying /\ cur = {} /\ cur' = cur
        /\ owed' = owed /\ triggered' = triggered
    BY <1>5 DEF CollectComplied, Collect, Placed
  <2>2. \A e \in eventList' : e.id \notin owed'
    BY <2>1 DEF OwedTriggers, Complying
  <2> QED
    BY <2>1, <2>2 DEF ResetTakesNone, OwedTriggers
<1>6. CASE CallNext
  <2>1. /\ cur = {} /\ eventList' = eventList /\ owed' \subseteq owed
        /\ elist' = elist /\ triggered' = triggered
        /\ pc \in {"fd_calls", "dep_calls"} /\ returnTo' = pc /\ pc' = "callback"
    BY <1>6 DEF CallNext, Placed
  <2> QED
    BY <2>1 DEF ResetTakesNone, OwedTriggers
<1>7. CASE ResetTriggers
  <2>1. /\ triggered' = [d \in Depends |-> StillTriggered(d)] /\ pc' = "deps"
        /\ cur = {} /\ cur' = cur /\ eventList' = eventList /\ owed' = owed
        /\ pc = "dep_calls"
    BY <1>7 DEF ResetTriggers, Placed
  <2>2. \A e \in eventList : e.id \in owed =>
          e.h \in Depends /\ triggered[e.h] /\ e.h \notin On(elist)
    BY <2>1 DEF OwedTriggers, ResetTakesNone
  <2> QED
    BY <2>1, <2>2 DEF StillTriggered, ResetTakesNone, OwedTriggers
<1>8. CASE Return
  BY <1>8 DEF Return, AfterErase, ResetTakesNone, OwedTriggers
<1>9. CASE \/ Run \/ LoopHead \/ LateDangling \/ LateEmpty \/ EnterSelect
           \/ FdCallsDone \/ DepsDone \/ PassDangling
  BY <1>9 DEF Run, LoopHead, LateDangling, LateEmpty, EnterSelect,
     FdCallsDone, DepsDone, PassDangling, ResetTakesNone, OwedTriggers
<1>10. CASE \/ \E h \in Handle : \/ Destroy(h)
                                \/ \E t \in Timeouts : RefuseWait(h, t)
            \/ \E f \in Fds : Transfer(f) \/ RefuseTransfer(f)
            \/ Outside
            \/ UNCHANGED vars
  BY <1>10 DEF Destroy, RefuseWait, Transfer, RefuseTransfer, Outside, Tick, StepBack,
     SelectInterrupted, Arrive, vars, ResetTakesNone, OwedTriggers
<1> QED
  BY <1>1, <1>2, <1>3, <1>4, <1>5, <1>6, <1>7, <1>8, <1>9, <1>10
     DEF Next, Client, Loop, Terminated

TriggerInv == /\ TypeInv /\ Placed /\ Numbered /\ ResetTakesNone
              /\ OwedTriggers

LEMMA TriggerInvStep ==
    ASSUME "no_self_comply" \in ClientRules, TriggerInv, [Next]_vars
    PROVE  TriggerInv'
BY TypeStep, AsleepStep, PlacedStep, NumberedStep, TriggersStep
   DEF TriggerInv, TypeInv

\* If no callback calls complied() on a handle of its own batch, a handler that
\* waited when complied() was called finds the trigger set as long as it waits.
THEOREM TriggersAreKept ==
    "no_self_comply" \in ClientRules => (Spec => []NoLostTrigger)
<1> SUFFICES ASSUME "no_self_comply" \in ClientRules
             PROVE  Spec => []NoLostTrigger
  OBVIOUS
<1>1. Init => TriggerInv
  BY TypeInit, PlacedInit, TriggersInit DEF TriggerInv
<1>2. TriggerInv /\ [Next]_vars => TriggerInv'
  BY TriggerInvStep
<1>3. TriggerInv => NoLostTrigger
  BY DEF TriggerInv, OwedTriggers, NoLostTrigger
<1> QED
  BY <1>1, <1>2, <1>3, PTL DEF Spec

-----------------------------------------------------------------------------
(* Wakeups. *)

\* Owed events are still to be called, and none is owed where no dependent pass
\* comes before the loop sleeps.
OwedPending ==
    /\ owed \subseteq Ids(Uncalled)
    /\ (\/ pc \in {"start", "head", "late", "select"}
        \/ pc = "callback" /\ returnTo = "late") => owed = {}

LEMMA OwedInit == Init => OwedPending
BY DEF Init, OwedPending

LEMMA OwedStep ==
    ASSUME {"no_self_comply", "comply_in_pass"} \subseteq ClientRules,
           TriggerInv, OwedPending, [Next]_vars
    PROVE  OwedPending'
<1> USE DEF TriggerInv, TypeInv, world, handles, list, sleep, batch, history,
            GoTo, allButPc
<1>1. ASSUME NEW h \in Handle, NEW t \in Timeouts, WaitFor(h, t)
      PROVE  OwedPending'
  BY <1>1 DEF WaitFor, OwedPending, Ids, Uncalled, Numbered, MayWait
<1>2. ASSUME NEW d \in Depends, Complied(d) PROVE OwedPending'
  BY <1>2 DEF Complied, MayComply, OwedPending, Ids, Uncalled
<1>3. CASE LateTimeout \/ SelectTimeout
  <2>1. PICK e \in eventList, back \in {"late", "deps"} :
          handleTimeout(e, back) /\ (pc = "late" \/ pc = "select")
    BY <1>3 DEF LateTimeout, SelectTimeout
  <2>2. owed' = {}
    BY <2>1 DEF handleTimeout, OwedPending
  <2> QED
    BY <2>2 DEF OwedPending
<1>4. CASE SelectReady
  <2>1. owed' = {}
    BY <1>4 DEF SelectReady, Collect, OwedPending
  <2> QED
    BY <2>1 DEF OwedPending
<1>5. CASE CollectComplied
  <2>1. /\ eventList' = eventList \ Complying /\ todo' = Complying
        /\ cur = {} /\ cur' = cur /\ todo = {} /\ Complying \subseteq eventList
        /\ owed' = owed /\ pc' = "dep_calls"
    BY <1>5 DEF CollectComplied, Collect, Complying, Placed, Resting
  <2>2. Uncalled' = Uncalled
    BY <2>1 DEF Uncalled
  <2> QED
    BY <2>1, <2>2 DEF OwedPending, Ids
<1>6. CASE CallNext
  <2>1. PICK e \in todo :
          /\ todo' = todo \ {e} /\ cur' = {e} /\ owed' = owed \ {e.id}
          /\ eventList' = eventList /\ cur = {}
          /\ pc' = "callback" /\ returnTo' \in {"fd_calls", "dep_calls"}
    BY <1>6 DEF CallNext, Placed
  <2>2. Uncalled \subseteq Uncalled' \cup {e}
    BY <2>1 DEF Uncalled
  <2> QED
    BY <2>1, <2>2 DEF OwedPending, Ids
<1>7. CASE DepsDone
  <2>1. Complying = {} /\ cur = {} /\ todo = {} /\ owed' = owed
    BY <1>7 DEF DepsDone, Placed, Resting
  <2>2. \A e \in eventList : e.id \notin owed
    BY <2>1 DEF OwedTriggers, Complying
  <2>3. owed' = {}
    BY <2>1, <2>2 DEF OwedPending, Ids, Uncalled
  <2> QED
    BY <2>3 DEF OwedPending
<1>8. CASE Return
  <2>1. Uncalled' = Uncalled
    BY <1>8 DEF Return, AfterErase, Uncalled
  <2>2. owed' = owed /\ pc' = returnTo /\ pc' \notin {"start", "head", "select"}
        /\ pc = "callback" /\ returnTo' = returnTo
    BY <1>8 DEF Return, Placed
  <2> QED
    BY <2>1, <2>2 DEF OwedPending, Ids
<1>9. CASE \/ Run \/ LoopHead \/ LateDangling \/ LateEmpty \/ EnterSelect
           \/ FdCallsDone \/ ResetTriggers \/ PassDangling
  <2>1. Uncalled' = Uncalled /\ owed' = owed
    BY <1>9 DEF Run, LoopHead, LateDangling, LateEmpty, EnterSelect,
       FdCallsDone, ResetTriggers, PassDangling, Uncalled
  <2>2. \/ pc \in {"start", "head", "late"}
        \/ pc' \notin {"start", "head", "late", "select", "callback"}
    BY <1>9 DEF Run, LoopHead, LateDangling, LateEmpty, EnterSelect,
       FdCallsDone, ResetTriggers, PassDangling
  <2>3. pc' # "callback"
    BY <1>9 DEF Run, LoopHead, LateDangling, LateEmpty, EnterSelect,
       FdCallsDone, ResetTriggers, PassDangling
  <2> QED
    BY <2>1, <2>2, <2>3 DEF OwedPending, Ids
<1>10. CASE \/ \E h \in Handle : \/ Destroy(h)
                                \/ \E t \in Timeouts : RefuseWait(h, t)
            \/ \E f \in Fds : Transfer(f) \/ RefuseTransfer(f)
            \/ Outside
            \/ UNCHANGED vars
  BY <1>10 DEF Destroy, RefuseWait, Transfer, RefuseTransfer, Outside, Tick, StepBack,
     SelectInterrupted, Arrive, vars, OwedPending, Ids, Uncalled
<1> QED
  BY <1>1, <1>2, <1>3, <1>4, <1>5, <1>6, <1>7, <1>8, <1>9, <1>10
     DEF Next, Client, Loop, Terminated

\* If complied() is called only where the dependent pass follows, and not on a
\* handle of the batch, the loop does not sleep on a handler it should wake.
THEOREM WakeupsArePrompt ==
    {"no_self_comply", "comply_in_pass"} \subseteq ClientRules
      => (Spec => []PromptWakeup)
<1> SUFFICES ASSUME {"no_self_comply", "comply_in_pass"} \subseteq ClientRules
             PROVE  Spec => []PromptWakeup
  OBVIOUS
<1>1. Init => TriggerInv /\ OwedPending
  BY TypeInit, PlacedInit, TriggersInit, OwedInit DEF TriggerInv
<1>2. TriggerInv /\ [Next]_vars => TriggerInv'
  BY TriggerInvStep
<1>3. TriggerInv /\ OwedPending /\ [Next]_vars => OwedPending'
  BY OwedStep
<1>4. OwedPending => PromptWakeup
  BY DEF OwedPending, PromptWakeup
<1> QED
  BY <1>1, <1>2, <1>3, <1>4, PTL DEF Spec
=============================================================================
