---------------------------- MODULE EventService ----------------------------
(***************************************************************************)
(* What the event handler promises the client, without saying how: every   *)
(* event registered with waitFor() is served once, either because its      *)
(* handle became ready or because its timeout was the first and has come;  *)
(* everybody waiting on a handle that became ready is served with it, and  *)
(* what became ready is served before any other event.                     *)
(***************************************************************************)
EXTENDS Integers

CONSTANTS
    Handle,    \* what an event can wait on
    Silent,    \* the handles that never become ready
    Granule    \* resolution of the clock

VARIABLES
    now,       \* the current time
    waiting,   \* the events registered and neither ready nor served
    ready,     \* the events whose handle has become ready
    served     \* ids of the events served

vars == <<now, waiting, ready, served>>

Event == [id : Nat, h : Handle, t : Nat]

Known == {e.id : e \in waiting \cup ready} \cup served

Init == now = 0 /\ waiting = {} /\ ready = {} /\ served = {}

Register(e) ==
    /\ e.id \notin Known
    /\ waiting' = waiting \cup {e}
    /\ UNCHANGED <<now, ready, served>>

\* The first timeout has come, up to the clock's resolution.
Expire(e) ==
    /\ ready = {}
    /\ e \in waiting /\ \A o \in waiting : e.t <= o.t
    /\ e.t < now + Granule
    /\ waiting' = waiting \ {e}
    /\ served' = served \cup {e.id}
    /\ UNCHANGED <<now, ready>>

\* The handles H became ready: all who wait on them, and nobody else.
BecomeReady(H) ==
    /\ ready = {}
    /\ ready' = {e \in waiting : e.h \in H} /\ ready' # {}
    /\ waiting' = waiting \ ready'
    /\ UNCHANGED <<now, served>>

\* Ready events are served in the order of their timeouts.
Serve(e) ==
    /\ e \in ready /\ \A o \in ready : e.t <= o.t
    /\ ready' = ready \ {e}
    /\ served' = served \cup {e.id}
    /\ UNCHANGED <<now, waiting>>

Pass == /\ now' > now
        /\ UNCHANGED <<waiting, ready, served>>

Next == \/ \E e \in waiting' \ waiting : e \in Event /\ Register(e)
        \/ \E e \in waiting : Expire(e)
        \/ \E H \in SUBSET (Handle \ Silent) : BecomeReady(H)
        \/ \E e \in ready : Serve(e)
        \/ Pass

Spec == Init /\ [][Next]_vars
=============================================================================
