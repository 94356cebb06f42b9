----------------------------- MODULE EventLoop -----------------------------
(***************************************************************************)
(* The event loop of libgea: ShadowEventHandler (waitFor, run,             *)
(* handleTimeout and the predicates run() scans the list with), the        *)
(* DependHandle trigger, and the client callbacks that run inside the loop *)
(* and call back into it.                                                  *)
(*                                                                         *)
(* The program has one thread.  What interleaves with it is the outside:   *)
(* the wall clock, data arriving on file descriptors and signals.          *)
(***************************************************************************)
EXTENDS GeaTime, FiniteSets

CONSTANTS
    Blockers,     \* handles of class Blocker: only ever time out
    Depends,      \* handles of class DependHandle
    Fds,          \* handles with a descriptor: UnixFdHandle and UdpHandle
    UnixFds,      \* those of them that are of class UnixFdHandle
    Delays,       \* what the client adds to the current time for a timeout
    ClientRules,  \* the rules the client keeps to, a subset of AllClientRules
    Platform,     \* what the platform does, a subset of AllPlatforms
    MaxEvents,    \* bound: calls of waitFor
    MaxClock,     \* bound: ticks of the clock other than those of a sleep
    MaxAvail      \* bound: data queued on one descriptor

Handle == Blockers \cup Depends \cup Fds

AllClientRules ==
    { "one_wait",        \* at most one uncalled event per handle
      "no_self_comply",  \* no complied() on a handle of the batch being called
      "comply_in_pass",  \* complied() only where the dependent pass follows
      "leaves_due",      \* no transfer on a handle found ready while the
                         \* callback of an event on it is still to come
      "destroy_idle",    \* no handle is destroyed while an event waits on it
      "destroy_outside", \* no handle of the batch being called is destroyed
      "keeps_handles" }  \* no handle is destroyed at all

AllPlatforms ==
    { "normalises",   \* select() carries tv_usec >= 10^6 into the seconds
      "keeps_tv",     \* select() leaves its timeval unchanged on EINTR
      "clock_steps" } \* the wall clock may be set back

ASSUME LoopAssumption ==
    /\ Blockers \cap Depends = {} /\ Blockers \cap Fds = {}
    /\ Depends \cap Fds = {} /\ UnixFds \subseteq Fds
    /\ Delays \subseteq Nat
    /\ ClientRules \subseteq AllClientRules
    /\ Platform \subseteq AllPlatforms
    /\ MaxEvents \in Nat /\ MaxClock \in Nat /\ MaxAvail \in Nat

\* An entry of the event list.  The id stands for the callback and its data
\* and counts the insertions: the multimap keeps equal keys in that order.
EventDescr == [id : Nat, h : Handle, t : Nat]

Status == {"Undefined", "Blocked", "Timeout", "Ready"}

PC == {"start",       \* in gea_main, before run()
       "head",        \* run(): while (!eventList.empty())
       "late",        \* run(): the loop over late events
       "select",      \* asleep in select()
       "fd_calls",    \* for_each over the events of active descriptors
       "deps",        \* remove_if(eventList, activeDepPred(elist))
       "dep_calls",   \* for_each over the triggered events
       "callback",    \* in a client callback
       "done",        \* run() has returned
       "abort",       \* waitFor() refused a timeout in the past
       "assert",      \* assert (sel_ret != -1)
       "not_ready",   \* assert (status == Ready) in UnixFdHandle
       "empty_read",  \* begin() of an empty list was dereferenced
       "dangling"}    \* a destroyed handle was dereferenced

Terminal == {"done", "abort", "assert", "not_ready", "empty_read", "dangling"}

VARIABLES
    clock,          \* AbsTime::now(), a multiple of NsPerUs
    avail,          \* Fds -> what can be transferred without blocking
    status,         \* Handle::status
    triggered,      \* ShadowDepend::triggered
    alive,          \* the handles that exist
    lastEventTime,  \* GEA.lastEventTime
    eventList,      \* the multimap of pending events
    nextId,         \* id of the next insertion
    pc,             \* where the thread is
    cur,            \* the event whose callback runs, {} outside callbacks
    returnTo,       \* where the callback returns to
    tNow,           \* run(): t_now
    remaining,      \* what is left of the sleep in select(), kernel state
    elist,          \* the EventCallList being built or called
    todo,           \* the events of elist not called yet
    ecTime,         \* the time stored in them
    called,         \* history: ids of the events called so far
    owed,           \* history: ids that waited on a handle when it complied
    lastTimeout     \* history: the timeout most recently delivered

world   == <<clock, avail>>
handles == <<status, triggered, alive>>
list    == <<eventList, nextId>>
batch   == <<elist, todo, ecTime>>
sleep   == <<tNow, remaining>>
history == <<called, owed, lastTimeout>>
allButPc == <<world, handles, lastEventTime, list, cur, returnTo, sleep,
              batch, history>>
vars    == <<pc, allButPc>>

-----------------------------------------------------------------------------
(* The event list. *)

\* The multimap's order: by timeout, equal timeouts in order of insertion.
\* Fault: in order of insertion only, a list instead of a multimap.
Before_ByInsertion(e, o) == e.id < o.id
Before(e, o) == e.t < o.t \/ (e.t = o.t /\ e.id < o.id)

IsFirst(e, S) == e \in S /\ \A o \in S \ {e} : Before(e, o)

Ids(S) == {e.id : e \in S}

\* The events whose callback is still to come.  While a timeout's callback
\* runs, its entry is still in the list.
Uncalled == (eventList \ cur) \cup todo

On(S) == {e.h : e \in S}

\* Some of these events refer to a handle that no longer exists.
Dangling(S) == ~ On(S) \subseteq alive

\* A step of the thread that changes nothing but where it is.
GoTo(p) == pc' = p /\ UNCHANGED allButPc

-----------------------------------------------------------------------------
Init ==
    /\ clock = 0 /\ lastEventTime = 0 /\ lastTimeout = 0
    /\ avail = [f \in Fds |-> 0]
    /\ status = [h \in Handle |-> "Undefined"]
    /\ triggered = [d \in Depends |-> FALSE]
    /\ alive = Handle
    /\ eventList = {} /\ nextId = 0
    /\ pc = "start" /\ cur = {} /\ returnTo = "head"
    /\ tNow = 0 /\ remaining = 0
    /\ elist = {} /\ todo = {} /\ ecTime = 0
    /\ called = {} /\ owed = {}

-----------------------------------------------------------------------------
(* The client: gea_main before the loop, the callbacks inside it. *)

InClient == pc \in {"start", "callback"}

\* The client computes a timeout from lastEventTime or from now().
Timeouts == {base + d : base \in {lastEventTime, clock}, d \in Delays}

MayWait(h) ==
    /\ InClient /\ h \in alive /\ nextId < MaxEvents
    /\ "one_wait" \in ClientRules => h \notin On(Uncalled)

WaitFor(h, timeout) ==
    /\ MayWait(h)
    /\ timeout >= lastEventTime
    /\ status' = [status EXCEPT ![h] = "Blocked"]
    /\ eventList' = eventList \cup {[id |-> nextId, h |-> h, t |-> timeout]}
    /\ nextId' = nextId + 1
    /\ UNCHANGED <<world, triggered, alive, lastEventTime, pc, cur, returnTo,
                   sleep, batch, history>>

\* waitFor() aborts the process when the timeout lies before lastEventTime.
RefuseWait(h, timeout) ==
    /\ MayWait(h)
    /\ timeout < lastEventTime
    /\ GoTo("abort")

MayComply(d) ==
    /\ InClient /\ d \in Depends \cap alive
    /\ "no_self_comply" \in ClientRules => d \notin On(elist)
    /\ "comply_in_pass" \in ClientRules => pc = "callback" /\ returnTo # "late"

Complied(d) ==
    /\ MayComply(d)
    /\ triggered' = [triggered EXCEPT ![d] = TRUE]
    /\ status' = [status EXCEPT ![d] = "Ready"]
    /\ owed' = owed \cup Ids({e \in eventList \ cur : e.h = d})
    /\ UNCHANGED <<world, alive, lastEventTime, list, pc, cur, returnTo, sleep,
                   batch, called, lastTimeout>>

\* read() and write() may be called on any handle the client has, not only on
\* the one whose callback runs.
MayTransfer(f) ==
    /\ InClient /\ f \in Fds \cap alive
    /\ "leaves_due" \in ClientRules => f \notin On(todo)

\* The client transfers some of what a descriptor has.  A UnixFdHandle asserts
\* that its status is Ready, and Handle() leaves the status uninitialised; a
\* transfer on an empty descriptor blocks the thread and is not a step.
Transfer(f) ==
    /\ MayTransfer(f)
    /\ f \in UnixFds => status[f] \in {"Ready", "Undefined"}
    /\ \E n \in 0 .. avail[f] - 1 : avail' = [avail EXCEPT ![f] = n]
    /\ UNCHANGED <<clock, handles, lastEventTime, list, pc, cur, returnTo,
                   sleep, batch, history>>

RefuseTransfer(f) ==
    /\ MayTransfer(f)
    /\ f \in UnixFds /\ status[f] # "Ready"
    /\ GoTo("not_ready")

\* ~Handle(): deletes the shadow handle; the event list is not searched.
Destroy(h) ==
    /\ InClient /\ h \in alive /\ "keeps_handles" \notin ClientRules
    /\ "destroy_idle" \in ClientRules => h \notin On(Uncalled)
    /\ "destroy_outside" \in ClientRules => h \notin On(elist)
    /\ alive' = alive \ {h}
    /\ UNCHANGED <<world, status, triggered, lastEventTime, list, pc, cur,
                   returnTo, sleep, batch, history>>

\* handleTimeout() erases its entry after the callback.
\* Fault: erase by key, which takes every entry with that timeout.
AfterErase_ByKey == {e \in eventList : \A c \in cur : e.t # c.t}
AfterErase == eventList \ cur

\* Fault: the handle is looked at once more after its callback.
Return_LooksAtHandle ==
    /\ pc = "callback"
    /\ pc' = IF Dangling(cur) THEN "dangling" ELSE returnTo
    /\ eventList' = AfterErase
    /\ cur' = {}
    /\ UNCHANGED <<world, handles, lastEventTime, nextId, returnTo, sleep,
                   batch, history>>

Return ==
    /\ pc = "callback"
    /\ pc' = returnTo
    /\ eventList' = AfterErase
    /\ cur' = {}
    /\ UNCHANGED <<world, handles, lastEventTime, nextId, returnTo, sleep,
                   batch, history>>

-----------------------------------------------------------------------------
(* run(): the timeouts. *)

Run == pc = "start" /\ GoTo("head")

LoopHead ==
    /\ pc = "head"
    /\ IF eventList = {}
         THEN pc' = "done" /\ UNCHANGED tNow
         ELSE pc' = "late" /\ tNow' = clock
    /\ UNCHANGED <<world, handles, lastEventTime, list, cur, returnTo,
                   remaining, batch, history>>

\* handleTimeout(): marks the handle, publishes the timeout as the time of
\* the event, and calls.
handleTimeout(e, back) ==
    /\ IsFirst(e, eventList)
    /\ e.h \in alive
    /\ status' = [status EXCEPT ![e.h] = "Timeout"]
    /\ lastEventTime' = e.t
    /\ lastTimeout' = e.t
    /\ cur' = {e} /\ returnTo' = back /\ pc' = "callback"
    /\ called' = called \cup {e.id}
    /\ owed' = owed \ {e.id}
    /\ UNCHANGED <<world, triggered, alive, list, sleep, batch>>

\* The condition of the loop over late events.
\* Fault: no event is late, as before version 3.3.
Late_Never(e) == FALSE
Late(e) == e.t - tNow <= 0

LateTimeout ==
    /\ pc = "late"
    /\ \E e \in eventList : Late(e) /\ handleTimeout(e, "late")

\* The late event waits on a destroyed handle.
LateDangling ==
    /\ pc = "late"
    /\ \E e \in eventList : IsFirst(e, eventList) /\ Late(e) /\ Dangling({e})
    /\ GoTo("dangling")

\* The loop over late events tests begin()->first without testing for
\* empty(): after the last event was late, there is no first.
LateEmpty ==
    /\ pc = "late" /\ eventList = {}
    /\ GoTo("empty_read")

-----------------------------------------------------------------------------
(* run(): select(). *)

\* No event is late: sleep until the first timeout, counted from t_now.
EnterSelect ==
    /\ pc = "late"
    /\ \E e \in eventList :
         /\ IsFirst(e, eventList) /\ ~ Late(e)
         /\ LET tv == duration2Timeval(e.t - tNow)
            IN  IF Dangling(eventList)
                  THEN pc' = "dangling" /\ UNCHANGED remaining
                ELSE IF "normalises" \in Platform \/ ValidTimeval(tv)
                  THEN pc' = "select" /\ remaining' = SelectNs(tv)
                ELSE pc' = "assert" /\ UNCHANGED remaining
    /\ UNCHANGED <<world, handles, lastEventTime, list, cur, returnTo, tNow,
                   batch, history>>

\* Fault: the bit is tested in a set that was not cleared.
Active_AnyFd == {e \in eventList : e.h \in Fds}

Active == {e \in eventList : e.h \in Fds /\ avail[e.h] > 0}

\* A signal interrupts the sleep and select() is called again with tv.
SelectInterrupted ==
    /\ pc = "select" /\ clock < MaxClock
    /\ "keeps_tv" \in Platform
    /\ \E e \in eventList :
         /\ IsFirst(e, eventList)
         /\ remaining' = SelectNs(duration2Timeval(e.t - tNow))
    /\ UNCHANGED <<world, handles, lastEventTime, list, pc, cur, returnTo,
                   tNow, batch, history>>

SelectTimeout ==
    /\ pc = "select" /\ remaining = 0 /\ Active = {}
    /\ \E e \in eventList : handleTimeout(e, "deps")

-----------------------------------------------------------------------------
(* run(): the events of active descriptors, then the dependent events. *)

\* Moves the events S from the event list to the call list.
Collect(S) ==
    /\ S # {}
    /\ eventList' = eventList \ S
    /\ elist' = S /\ todo' = S /\ ecTime' = clock
    /\ remaining' = 0
    /\ status' = [h \in Handle |-> IF h \in On(S) THEN "Ready" ELSE status[h]]
    /\ UNCHANGED <<world, triggered, alive, lastEventTime, nextId, cur,
                   returnTo, tNow, history>>

SelectReady ==
    /\ pc = "select"
    /\ Collect(Active)
    /\ pc' = "fd_calls"

\* for_each(elist.begin(), elist.end(), callECList(...)), one call
CallNext ==
    /\ pc \in {"fd_calls", "dep_calls"}
    /\ \E e \in todo :
         /\ IsFirst(e, todo)
         /\ todo' = todo \ {e}
         /\ cur' = {e}
         /\ called' = called \cup {e.id}
         /\ owed' = owed \ {e.id}
    /\ lastEventTime' = ecTime
    /\ returnTo' = pc /\ pc' = "callback"
    /\ UNCHANGED <<world, handles, list, sleep, elist, ecTime, lastTimeout>>

FdCallsDone ==
    /\ pc = "fd_calls" /\ todo = {}
    /\ elist' = {} /\ pc' = "deps"
    /\ UNCHANGED <<world, handles, lastEventTime, list, cur, returnTo, sleep,
                   todo, ecTime, history>>

\* Fault: only the first event that waits on a triggered handle.
Complying_FirstOnly ==
    {e \in eventList : /\ e.h \in Depends /\ triggered[e.h]
                       /\ \A o \in eventList \ {e} :
                            o.h \in Depends /\ triggered[o.h] => Before(e, o)}
\* Fault: the dependent pass only follows the calls for descriptors.
Complying_NotAfterTimeout ==
    {e \in eventList : e.h \in Depends /\ triggered[e.h] /\ returnTo # "deps"}

Complying == {e \in eventList : e.h \in Depends /\ triggered[e.h]}

CollectComplied ==
    /\ pc = "deps" /\ ~ Dangling(eventList)
    /\ Collect(Complying)
    /\ pc' = "dep_calls"

DepsDone ==
    /\ pc = "deps" /\ ~ Dangling(eventList)
    /\ Complying = {}
    /\ GoTo("head")

\* for_each(elist.begin(), elist.end(), resetDepTrigger()), after all calls
\* Fault: every trigger is reset, called or not.
StillTriggered_None(d) == FALSE
StillTriggered(d) == triggered[d] /\ d \notin On(elist)

ResetTriggers ==
    /\ pc = "dep_calls" /\ todo = {} /\ ~ Dangling(elist)
    /\ triggered' = [d \in Depends |-> StillTriggered(d)]
    /\ elist' = {} /\ pc' = "deps"
    /\ UNCHANGED <<world, status, alive, lastEventTime, list, cur, returnTo,
                   sleep, todo, ecTime, history>>

\* The scans of the dependent pass and the reset follow the shadow handle of
\* every event they visit.
PassDangling ==
    /\ \/ pc = "deps" /\ Dangling(eventList)
       \/ pc = "dep_calls" /\ todo = {} /\ Dangling(elist)
    /\ GoTo("dangling")

-----------------------------------------------------------------------------
(* The outside. *)

\* The clock advances; a sleeping thread's sleep gets shorter by as much.
Tick ==
    /\ clock < MaxClock \/ remaining > 0
    /\ clock' = clock + NsPerUs
    /\ remaining' = IF remaining > NsPerUs THEN remaining - NsPerUs ELSE 0
    /\ UNCHANGED <<avail, handles, lastEventTime, list, pc, cur, returnTo,
                   tNow, batch, history>>

\* The system's administrator or time daemon sets the clock back.
StepBack ==
    /\ "clock_steps" \in Platform
    /\ clock >= NsPerUs
    /\ clock' = clock - NsPerUs
    /\ UNCHANGED <<avail, handles, lastEventTime, list, pc, cur, returnTo,
                   sleep, batch, history>>

Arrive(f) ==
    /\ avail[f] < MaxAvail
    /\ avail' = [avail EXCEPT ![f] = @ + 1]
    /\ UNCHANGED <<clock, handles, lastEventTime, list, pc, cur, returnTo,
                   sleep, batch, history>>

\* run() has returned or the process is dead.
Terminated == pc \in Terminal /\ UNCHANGED vars

-----------------------------------------------------------------------------
Client == \/ \E h \in Handle :
               \/ \E timeout \in Timeouts :
                    WaitFor(h, timeout) \/ RefuseWait(h, timeout)
               \/ Destroy(h)
          \/ \E d \in Depends : Complied(d)
          \/ \E f \in Fds : Transfer(f) \/ RefuseTransfer(f)

Loop == \/ Run \/ LoopHead
        \/ LateTimeout \/ LateDangling \/ LateEmpty
        \/ EnterSelect \/ SelectTimeout \/ SelectReady
        \/ CallNext \/ FdCallsDone
        \/ CollectComplied \/ ResetTriggers \/ DepsDone \/ PassDangling
        \/ Return

Outside == Tick \/ StepBack \/ SelectInterrupted \/ \E f \in Fds : Arrive(f)

Next == Client \/ Loop \/ Outside \/ Terminated

Spec == Init /\ [][Next]_vars

\* The thread runs, callbacks return and time passes.  Nothing is assumed of
\* the client's calls, of arriving data or of signals.
Fairness == WF_vars(Loop) /\ WF_vars(Tick)

FairSpec == Spec /\ Fairness

-----------------------------------------------------------------------------
(* Properties. *)

TypeOK ==
    /\ clock \in Nat /\ avail \in [Fds -> Nat]
    /\ status \in [Handle -> Status] /\ triggered \in [Depends -> BOOLEAN]
    /\ alive \in SUBSET Handle
    /\ lastEventTime \in Nat /\ lastTimeout \in Nat
    /\ eventList \in SUBSET EventDescr /\ nextId \in Nat
    /\ pc \in PC /\ returnTo \in {"head", "late", "deps", "fd_calls", "dep_calls"}
    /\ cur \in SUBSET EventDescr
    /\ tNow \in Nat /\ remaining \in Nat
    /\ elist \in SUBSET EventDescr /\ todo \in SUBSET elist /\ ecTime \in Nat
    /\ called \in SUBSET Nat /\ owed \in SUBSET Nat

\* Every event given to waitFor() is in exactly one place: pending in the
\* list, collected for calling, or called.  The loop moves events between
\* the list and its call lists while callbacks insert new ones, and erases a
\* late event only after its callback; none may get lost or run twice.
Conserved ==
    /\ Ids(eventList \ cur) \cup Ids(todo) \cup called = 0 .. nextId - 1
    /\ Ids(eventList \ cur) \cap Ids(todo) = {}
    /\ Ids(eventList \ cur) \cap called = {}
    /\ Ids(todo) \cap called = {}

\* No event's time is published, and no timeout delivered, a microsecond or
\* more before the clock reaches it: select() is never armed too short, an
\* interrupted sleep is not cut short, and the late loop compares with a
\* clock reading that is not ahead.
NotEarly == lastEventTime < clock + NsPerUs /\ lastTimeout < clock + NsPerUs

\* A client whose timeouts lie at least a microsecond after lastEventTime or
\* after now() is never aborted by waitFor(): lastEventTime, taken from a
\* timeout the clock has not quite reached, does not overtake now() by more.
NeverAborts == pc # "abort"

\* What an event was collected for still holds when its callback begins: its
\* handle is Ready, and a descriptor has data.  Callbacks earlier in the
\* batch wait, comply, and transfer in between, on their own handles and on
\* others, any number of times.
ReadyUntilCalled == \A e \in todo : /\ status[e.h] = "Ready"
                                    /\ e.h \in Fds => avail[e.h] > 0

\* A handler that was waiting on a DependHandle when complied() was called
\* finds the trigger set for as long as it waits: the reset after a batch
\* does not take it away.
NoLostTrigger == \A e \in eventList \ cur : e.id \in owed => triggered[e.h]

\* The loop does not go to sleep on a handler that complied() should have
\* woken up (include/gea/DependHandle.h:34).
PromptWakeup == pc = "select" => owed = {}

\* The loop never follows the shadow handle of a destroyed handle.
NoDangling == pc # "dangling"

\* The late loop does not read the first entry of an empty list.
NeverReadsEmptyList == pc # "empty_read"

\* Timeouts are delivered in the order of their times, to within one
\* microsecond, whatever the callbacks in between insert.
TimeoutOrder == [][lastTimeout' > lastTimeout - NsPerUs]_lastTimeout

\* select() is armed to return no later than the first timeout.
SleepsUntilFirst ==
    [][pc = "late" /\ pc' = "select" =>
         \A e \in eventList : IsFirst(e, eventList) => tNow + remaining' <= e.t]_vars

\* The loop implements the service it is documented to provide.
Service == INSTANCE EventService WITH
             Silent  <- Blockers,
             Granule <- NsPerUs,
             now     <- clock,
             waiting <- eventList \ cur,
             ready   <- todo,
             served  <- called

ImplementsService == Service!Spec

\* Every event given to waitFor() is called in the end, by its handle or at
\* the latest by its timeout, unless waitFor(), read() or write() has aborted
\* the process.
EveryEventCalled ==
    \A i \in 0 .. MaxEvents - 1 :
        nextId > i ~> i \in called \/ pc \in {"abort", "not_ready"}
=============================================================================
