------------------------- MODULE EventServiceProofs -------------------------
(***************************************************************************)
(* The event loop keeps every event, and implements EventService.          *)
(***************************************************************************)
EXTENDS EventLoopProofs

-----------------------------------------------------------------------------
(* Every event is in one place.                                            *)
(*                                                                         *)
(* Conserved is not inductive: it speaks of ids, and moves are of events.  *)
(* Placed adds that the events in the loop's hands have ids of their own,  *)
(* that the thread has a current event only in a callback, and that a call *)
(* list is empty wherever a new one is begun.                              *)

Placed ==
    /\ Conserved
    /\ \A e, o \in eventList \cup todo : e.id = o.id => e = o
    /\ Ids(cur) \subseteq called
    /\ pc \notin {"callback", "abort", "not_ready"} => cur = {}
    /\ pc \in {"start", "head", "late", "select", "deps"} => todo = {}
    /\ pc = "callback" /\ returnTo \notin {"fd_calls", "dep_calls"} => todo = {}

LEMMA PlacedInit == Init => Placed
BY DEF Init, Placed, Conserved, Ids

\* A step that moves no event.
LEMMA GoToPlaced ==
    ASSUME TypeOK, Placed, NEW p, GoTo(p),
           p \in {"callback", "abort", "not_ready"} \/ pc \notin {"callback", "abort", "not_ready"},
           p \in {"start", "head", "late", "select", "deps"} => todo = {},
           p # "callback"
    PROVE  Placed'
BY DEF Placed, Conserved, Ids, GoTo, allButPc, list, batch, history

LEMMA SameListsPlaced ==
    ASSUME Placed, UNCHANGED <<eventList, nextId, todo, called, cur, pc, returnTo>>
    PROVE  Placed'
BY DEF Placed, Conserved, Ids

LEMMA WaitForPlaced ==
    ASSUME TypeOK, Placed, NEW h \in Handle, NEW t \in Nat, WaitFor(h, t)
    PROVE  Placed'
<1> DEFINE new == [id |-> nextId, h |-> h, t |-> t]
<1>1. /\ eventList' = eventList \cup {new} /\ nextId' = nextId + 1
      /\ UNCHANGED <<todo, called, cur, pc, returnTo>>
  BY DEF WaitFor, batch, history
<1>2. \A e \in eventList \cup todo : e.id \in 0 .. nextId - 1
  BY DEF Placed, Conserved, Ids
<1>3. cur \subseteq EventDescr /\ \A c \in cur : c.id \in 0 .. nextId - 1
  BY DEF Placed, Conserved, Ids, TypeOK
<1>4. new.id = nextId /\ nextId \in Nat /\ nextId \notin 0 .. nextId - 1
  BY DEF TypeOK
<1> HIDE DEF new
<1>5. Ids(eventList' \ cur') = Ids(eventList \ cur) \cup {nextId}
  BY <1>1, <1>3, <1>4 DEF Ids
<1>6. 0 .. nextId' - 1 = (0 .. nextId - 1) \cup {nextId}
  BY <1>1, <1>4
<1>7. Conserved'
  <2>1. nextId \notin Ids(todo) \cup called
    BY <1>4 DEF Placed, Conserved
  <2>2. Ids(todo') = Ids(todo) /\ called' = called
    BY <1>1
  <2> QED
    BY <1>5, <1>6, <2>1, <2>2 DEF Placed, Conserved
<1>8. \A e, o \in eventList' \cup todo' : e.id = o.id => e = o
  BY <1>1, <1>2, <1>4 DEF Placed
<1> QED
  BY <1>1, <1>7, <1>8 DEF Placed, Ids

LEMMA HandleTimeoutPlaced ==
    ASSUME TypeOK, Placed, NEW e \in eventList, NEW back \in {"late", "deps"},
           pc \in {"late", "select"}, handleTimeout(e, back)
    PROVE  Placed'
<1>1. /\ UNCHANGED <<eventList, nextId, todo>>
      /\ cur' = {e} /\ called' = called \cup {e.id}
      /\ pc' = "callback" /\ returnTo' = back
  BY DEF handleTimeout, list, batch
<1>2. cur = {} /\ todo = {}
  BY DEF Placed
<1>3. Ids(eventList \ {e}) = Ids(eventList) \ {e.id}
  BY DEF Ids, Placed
<1>4. e.id \in Ids(eventList)
  BY DEF Ids
<1>5. Conserved'
  <2>1. eventList' \ cur' = eventList \ {e} /\ eventList \ cur = eventList
    BY <1>1, <1>2
  <2>2. Ids(eventList' \ cur') = Ids(eventList \ cur) \ {e.id}
    BY <2>1, <1>3
  <2>3. e.id \in Ids(eventList \ cur)
    BY <2>1, <1>4
  <2>4. Ids(todo') = Ids(todo) /\ called' = called \cup {e.id}
        /\ 0 .. nextId' - 1 = 0 .. nextId - 1
    BY <1>1
  <2> QED
    BY <2>2, <2>3, <2>4, Zenon DEF Placed, Conserved
<1> QED
  BY <1>1, <1>2, <1>5 DEF Placed, Ids

LEMMA CollectPlaced ==
    ASSUME TypeOK, Placed, NEW S \in SUBSET eventList, Collect(S),
           pc \in {"select", "deps"}, pc' \in {"fd_calls", "dep_calls"}
    PROVE  Placed'
<1>1. /\ eventList' = eventList \ S /\ todo' = S
      /\ UNCHANGED <<nextId, called, cur>>
  BY DEF Collect, history
<1>2. cur = {} /\ todo = {}
  BY DEF Placed
<1>3. Ids(eventList \ S) = Ids(eventList) \ Ids(S)
  BY DEF Ids, Placed
<1>4. Ids(S) \subseteq Ids(eventList)
  BY DEF Ids
<1>5. Conserved'
  <2>1. Ids(todo) = {} /\ Ids(todo') = Ids(S)
    BY <1>1, <1>2 DEF Ids
  <2>2. eventList' \ cur' = eventList \ S /\ eventList \ cur = eventList
    BY <1>1, <1>2
  <2>3. Ids(eventList' \ cur') = Ids(eventList \ cur) \ Ids(S)
    BY <2>2, <1>3
  <2>4. Ids(S) \subseteq Ids(eventList \ cur)
    BY <2>2, <1>4
  <2> QED
    BY <1>1, <2>1, <2>3, <2>4 DEF Placed, Conserved
<1> QED
  BY <1>1, <1>2, <1>5 DEF Placed

LEMMA CallNextPlaced ==
    ASSUME TypeOK, Placed, CallNext
    PROVE  Placed'
<1>1. PICK e \in todo : todo' = todo \ {e} /\ cur' = {e}
                        /\ called' = called \cup {e.id}
  BY DEF CallNext
<1>2. UNCHANGED <<eventList, nextId>> /\ pc' = "callback"
      /\ returnTo' \in {"fd_calls", "dep_calls"}
  BY DEF CallNext, list
<1>3. cur = {} /\ e \notin eventList
  BY DEF CallNext, Placed, Conserved, Ids
<1>4. Ids(todo \ {e}) = Ids(todo) \ {e.id}
  BY DEF Ids, Placed
<1>5. e.id \in Ids(todo)
  BY DEF Ids
<1>6. eventList' \ cur' = eventList \ cur
  BY <1>1, <1>2, <1>3
<1>7. Conserved'
  <2>1. Ids(eventList' \ cur') = Ids(eventList \ cur)
    BY <1>6
  <2>2. Ids(todo') = Ids(todo) \ {e.id} /\ called' = called \cup {e.id}
        /\ 0 .. nextId' - 1 = 0 .. nextId - 1
    BY <1>1, <1>2, <1>4
  <2>3. e.id \notin Ids(eventList \ cur)
    BY <1>5 DEF Placed, Conserved
  <2>4. Ids(eventList' \ cur') \cup Ids(todo') \cup called' = 0 .. nextId' - 1
    BY <1>5, <2>1, <2>2 DEF Placed, Conserved
  <2>5. /\ Ids(eventList' \ cur') \cap Ids(todo') = {}
        /\ Ids(eventList' \ cur') \cap called' = {}
    BY <2>1, <2>2, <2>3 DEF Placed, Conserved
  <2>6. Ids(todo') \cap called' = {}
    BY <2>2 DEF Placed, Conserved
  <2> QED
    BY <2>4, <2>5, <2>6 DEF Conserved
<1> QED
  BY <1>1, <1>2, <1>7 DEF Placed, Ids

LEMMA ReturnPlaced ==
    ASSUME TypeOK, Placed, Return
    PROVE  Placed'
<1>1. /\ eventList' = eventList \ cur /\ cur' = {} /\ pc' = returnTo
      /\ UNCHANGED <<nextId, todo, called, returnTo>>
  BY DEF Return, AfterErase, batch, history
<1>2. eventList' \ cur' = eventList \ cur
  BY <1>1
<1>3. Conserved'
  BY <1>1, <1>2 DEF Placed, Conserved
<1> QED
  BY <1>1, <1>3 DEF Return, Placed, Ids, TypeOK

LEMMA PlacedStep ==
    ASSUME TypeOK, Placed, [Next]_vars
    PROVE  Placed'
<1> USE DEF world, handles, list, sleep, batch, history
<1>1. ASSUME NEW h \in Handle, NEW t \in Timeouts, WaitFor(h, t)
      PROVE  Placed'
  BY <1>1, WaitForPlaced, TimeoutType
<1>2. ASSUME NEW h \in Handle, NEW t \in Timeouts, RefuseWait(h, t)
      PROVE  Placed'
  BY <1>2, GoToPlaced DEF RefuseWait
<1>3. CASE \/ \E h \in Handle : Destroy(h)
           \/ \E d \in Depends : Complied(d)
           \/ \E f \in Fds : Transfer(f)
  BY <1>3, SameListsPlaced DEF Destroy, Complied, Transfer
<1>4. CASE Run \/ LateDangling \/ LateEmpty \/ DepsDone \/ PassDangling
  BY <1>4, GoToPlaced DEF Run, LateDangling, LateEmpty, DepsDone,
     PassDangling, Placed
<1>5. CASE LoopHead \/ EnterSelect \/ FdCallsDone \/ ResetTriggers
  BY <1>5 DEF LoopHead, EnterSelect, FdCallsDone, ResetTriggers, Placed,
     Conserved, Ids
<1>6. CASE LateTimeout \/ SelectTimeout
  BY <1>6, HandleTimeoutPlaced DEF LateTimeout, SelectTimeout
<1>7. CASE SelectReady
  BY <1>7, CollectPlaced DEF SelectReady, Active
<1>8. CASE CollectComplied
  BY <1>8, CollectPlaced DEF CollectComplied, Complying
<1>9. CASE CallNext
  BY <1>9, CallNextPlaced
<1>10. CASE Return
  BY <1>10, ReturnPlaced
<1>11. CASE Outside
  BY <1>11, SameListsPlaced
     DEF Outside, Tick, StepBack, SelectInterrupted, Arrive
<1>12. CASE UNCHANGED vars
  BY <1>12, SameListsPlaced DEF vars, allButPc
<1>13. ASSUME NEW f \in Fds, RefuseTransfer(f)
       PROVE  Placed'
  BY <1>13, GoToPlaced DEF RefuseTransfer
<1> QED
  BY <1>1, <1>2, <1>3, <1>4, <1>5, <1>6, <1>7, <1>8, <1>9, <1>10, <1>11,
     <1>12, <1>13 DEF Next, Client, Loop, Terminated

\* No event is lost, duplicated or called twice, whatever the client and the
\* clock do.
THEOREM EventsConserved == Spec => []Conserved
<1>1. TypeInv /\ [Next]_vars => TypeInv'
  BY TypeStep, AsleepStep DEF TypeInv
<1>2. TypeInv /\ Placed /\ [Next]_vars => Placed'
  BY PlacedStep DEF TypeInv
<1>3. Placed => Conserved
  BY DEF Placed
<1> QED
  BY TypeInit, PlacedInit, <1>1, <1>2, <1>3, PTL DEF Spec

-----------------------------------------------------------------------------
(* The refinement: each step of the loop is a step of the service under the *)
(* mapping of Service, or changes nothing the service sees.                 *)

LEMMA RefineInit == Init => Service!Init
BY DEF Init, Service!Init

LEMMA RefineWaitFor ==
    ASSUME TypeOK, Placed, NEW h \in Handle, NEW t \in Nat, WaitFor(h, t)
    PROVE  Service!Next
<1> DEFINE new == [id |-> nextId, h |-> h, t |-> t]
<1>1. /\ eventList' = eventList \cup {new}
      /\ UNCHANGED <<clock, todo, called, cur>>
  BY DEF WaitFor, world, batch, history
<1>2. new.id = nextId /\ new \in EventDescr
  BY DEF EventDescr, TypeOK
<1>3. nextId \notin Ids(eventList \ cur) \cup Ids(todo) \cup called
  <2>1. nextId \notin 0 .. nextId - 1
    BY DEF TypeOK
  <2> QED
    BY <2>1 DEF Placed, Conserved
<1>4. nextId \notin Ids(cur)
  BY <1>3 DEF Placed
<1> HIDE DEF new
<1>5. new \notin eventList /\ new \notin cur
  BY <1>2, <1>3, <1>4 DEF Ids
<1>6. eventList' \ cur' = (eventList \ cur) \cup {new}
  BY <1>1, <1>5
<1>7. new.id \notin Service!Known
  BY <1>2, <1>3 DEF Service!Known, Ids
<1>8. Service!Register(new)
  BY <1>1, <1>6, <1>7 DEF Service!Register
<1>9. new \in (eventList' \ cur') \ (eventList \ cur)
  BY <1>5, <1>6
<1> QED
  BY <1>2, <1>8, <1>9 DEF Service!Next, Service!Event, EventDescr

LEMMA RefineHandleTimeout ==
    ASSUME TypeOK, Placed, pc \in {"late", "select"},
           NEW e \in eventList, NEW back, handleTimeout(e, back),
           e.t < clock + NsPerUs
    PROVE  Service!Next
<1>1. cur = {} /\ todo = {}
  BY DEF Placed
<1>2. \A o \in eventList : e.t <= o.t
  BY DEF handleTimeout, IsFirst, Before, TypeOK, EventDescr
<1>3. /\ eventList' = eventList /\ cur' = {e} /\ called' = called \cup {e.id}
      /\ UNCHANGED <<clock, todo>>
  BY DEF handleTimeout, world, list, batch
<1>4. Service!Expire(e)
  BY <1>1, <1>2, <1>3 DEF Service!Expire
<1> QED
  BY <1>1, <1>4 DEF Service!Next

LEMMA RefineCollect ==
    ASSUME TypeOK, Placed, pc \in {"select", "deps"},
           NEW H \in SUBSET (Handle \ Blockers), NEW S,
           S = {e \in eventList : e.h \in H}, Collect(S)
    PROVE  Service!Next
<1>1. cur = {} /\ todo = {}
  BY DEF Placed
<1>2. /\ S # {} /\ eventList' = eventList \ S /\ todo' = S
      /\ UNCHANGED <<clock, cur, called>>
  BY DEF Collect, world, history
<1>3. Service!BecomeReady(H)
  BY <1>1, <1>2 DEF Service!BecomeReady
<1> QED
  BY <1>3 DEF Service!Next

LEMMA RefineCallNext ==
    ASSUME TypeOK, Placed, CallNext
    PROVE  Service!Next
<1>1. PICK e \in todo : /\ IsFirst(e, todo) /\ todo' = todo \ {e}
                        /\ cur' = {e} /\ called' = called \cup {e.id}
  BY DEF CallNext
<1>2. \A o \in todo : e.t <= o.t
  BY <1>1 DEF IsFirst, Before, TypeOK, EventDescr
<1>3. cur = {} /\ e \notin eventList
  BY DEF CallNext, Placed, Conserved, Ids
<1>4. eventList' = eventList /\ clock' = clock
  BY DEF CallNext, list, world
<1>5. eventList' \ cur' = eventList \ cur
  BY <1>1, <1>3, <1>4
<1>6. Service!Serve(e)
  BY <1>1, <1>2, <1>4, <1>5 DEF Service!Serve
<1> QED
  BY <1>6 DEF Service!Next

LEMMA RefineStep ==
    ASSUME "clock_steps" \notin Platform, TypeOK, Timely, Placed, [Next]_vars
    PROVE  [Service!Next]_(Service!vars)
<1> USE DEF world, handles, list, sleep, batch, history, GoTo, allButPc,
            Service!vars
<1>1. ASSUME NEW h \in Handle, NEW t \in Timeouts, WaitFor(h, t)
      PROVE  Service!Next
  BY <1>1, RefineWaitFor, TimeoutType
<1>2. CASE \/ \E h \in Handle : \/ \E t \in Timeouts : RefuseWait(h, t)
                                \/ Destroy(h)
           \/ \E d \in Depends : Complied(d)
           \/ \E f \in Fds : Transfer(f) \/ RefuseTransfer(f)
  BY <1>2 DEF RefuseWait, Destroy, Complied, Transfer, RefuseTransfer
<1>3. CASE \/ Run \/ LoopHead \/ LateDangling \/ LateEmpty \/ EnterSelect
           \/ DepsDone \/ PassDangling \/ FdCallsDone \/ ResetTriggers
  BY <1>3 DEF Run, LoopHead, LateDangling, LateEmpty, EnterSelect, DepsDone,
     PassDangling, FdCallsDone, ResetTriggers
<1>4. CASE Return
  BY <1>4 DEF Return, AfterErase
<1>5. CASE LateTimeout
  <2>1. PICK e \in eventList : Late(e) /\ handleTimeout(e, "late")
    BY <1>5 DEF LateTimeout
  <2>2. e.t < clock + NsPerUs
    BY <2>1, UnitAssumption DEF Late, Timely, TypeOK, EventDescr
  <2> QED
    BY <1>5, <2>1, <2>2, RefineHandleTimeout DEF LateTimeout
<1>6. CASE SelectTimeout
  <2>1. PICK e \in eventList : handleTimeout(e, "deps")
    BY <1>6 DEF SelectTimeout
  <2>2. e.t < clock + NsPerUs
    BY <1>6, <2>1 DEF SelectTimeout, handleTimeout, Timely, SleptFor, TypeOK
  <2> QED
    BY <1>6, <2>1, <2>2, RefineHandleTimeout DEF SelectTimeout
<1>7. CASE SelectReady
  <2> DEFINE H == {f \in Fds : avail[f] > 0}
  <2>1. H \in SUBSET (Handle \ Blockers)
    BY LoopAssumption DEF Handle
  <2>2. Active = {e \in eventList : e.h \in H}
    BY DEF Active
  <2> QED
    BY <1>7, <2>1, <2>2, RefineCollect DEF SelectReady
<1>8. CASE CollectComplied
  <2> DEFINE H == {d \in Depends : triggered[d]}
  <2>1. H \in SUBSET (Handle \ Blockers)
    BY LoopAssumption DEF Handle
  <2>2. Complying = {e \in eventList : e.h \in H}
    BY DEF Complying
  <2> QED
    BY <1>8, <2>1, <2>2, RefineCollect DEF CollectComplied
<1>9. CASE CallNext
  BY <1>9, RefineCallNext
<1>10. CASE Tick
  <2>1. clock' > clock /\ UNCHANGED <<eventList, cur, todo, called>>
    BY <1>10, UnitAssumption DEF Tick, TypeOK
  <2> QED
    BY <2>1 DEF Service!Next, Service!Pass
<1>11. CASE SelectInterrupted \/ (\E f \in Fds : Arrive(f)) \/ UNCHANGED vars
  BY <1>11 DEF SelectInterrupted, Arrive, vars
<1> QED
  BY <1>1, <1>2, <1>3, <1>4, <1>5, <1>6, <1>7, <1>8, <1>9, <1>10, <1>11
     DEF Next, Client, Loop, Outside, StepBack, Terminated

\* As long as the clock is not set back, the loop implements the service,
\* whatever the client does.
THEOREM LoopImplementsService ==
    "clock_steps" \notin Platform => (Spec => ImplementsService)
<1> SUFFICES ASSUME "clock_steps" \notin Platform
             PROVE  Spec => ImplementsService
  OBVIOUS
<1>1. TypeInv /\ Timely /\ [Next]_vars => TypeInv' /\ Timely'
  BY TypeStep, AsleepStep, TimelyStep DEF TypeInv
<1>2. TypeInv /\ Placed /\ [Next]_vars => Placed'
  BY PlacedStep DEF TypeInv
<1>3. TypeInv /\ Timely /\ Placed /\ [Next]_vars
        => [Service!Next]_(Service!vars)
  BY RefineStep DEF TypeInv
<1> QED
  BY TypeInit, TimelyInit, PlacedInit, RefineInit, <1>1, <1>2, <1>3, PTL
     DEF Spec, ImplementsService, Service!Spec

=============================================================================
