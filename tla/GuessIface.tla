----------------------------- MODULE GuessIface -----------------------------
(***************************************************************************)
(* guess_iface(): which of the machine's addresses is the program's own.   *)
(* Interfaces collect points; the list of them is scanned for one with     *)
(* exactly 5 points, then 4, and so on.  Every scan asks the kernel anew,  *)
(* one system call per detail, while interfaces come and go.               *)
(***************************************************************************)
EXTENDS Integers, FiniteSets

CONSTANTS
    NDev,       \* the interfaces are 1 .. NDev, in the order of the kernel
    MAX_DEV,    \* room in devList: 12
    Wlan,       \* those with "wlan" in their names
    Kinds,      \* the states an interface can be in, a subset of Iface
    MaxChanges  \* bound: changes of interfaces

Devices == 1 .. NDev

\* What the kernel says of an interface.  A removed one is not present; private
\* stands for an address in 10/8 or 192.168/16.
Iface == [present : BOOLEAN, address : BOOLEAN, up : BOOLEAN,
          broadcast : BOOLEAN, loopback : BOOLEAN, private : BOOLEAN]

ASSUME IfaceAssumption ==
    /\ NDev \in Nat /\ MAX_DEV \in Nat /\ MaxChanges \in Nat
    /\ Wlan \subseteq Devices /\ Kinds \subseteq Iface

VARIABLES
    iface,    \* the machine's interfaces
    pc,       \* "guess": about to scan, "device": at the head of the loop,
              \* "address": the flags are known, "done"; and, after a failed
              \* assertion, "assert" on a detail of an interface, "no_socket"
              \* on socket(), "no_list" on the list of interfaces
    level,    \* the level of the present scan
    lev,      \* what the current device leaves of it
    todo,     \* the entries of devList not dealt with
    open,     \* the scan's socket is open
    chosen,   \* the device whose address was taken, 0 before
    steady,   \* history: devices unchanged and found by every scan so far
    changes   \* number of changes so far

search == <<pc, level, lev, todo, open, chosen>>
vars   == <<search, iface, steady, changes>>

-----------------------------------------------------------------------------
(* Points. *)

Point(b) == IF b THEN 1 ELSE 0

FlagPoints(k) == Point(k.up) + Point(k.broadcast) - Point(k.loopback)

Points(d, k) == Point(d \in Wlan) + FlagPoints(k) + Point(k.private)

\* Fault: a point was added and the search still starts at three.
TopLevel_Three == 3
TopLevel == 5

\* No interface has less than -1 points, so all scans below are alike: -2
\* stands for every level from there on.
\* Fault: the level is decremented twice for each scan.
Lower_Twice(l) == IF l > 0 THEN l - 2 ELSE -2
Lower(l) == IF l > -2 THEN l - 1 ELSE -2

\* SIOCGIFCONF: the interfaces that have an address, as many as fit.
HasAddress(d) == iface[d].present /\ iface[d].address

\* Fault: interfaces without an address are listed too.
Listing_Present == {d \in Devices : iface[d].present}
Listing ==
    {d \in Devices : /\ HasAddress(d)
                     /\ Cardinality({e \in 1 .. d : HasAddress(e)}) <= MAX_DEV}

IsNext(d) == d \in todo /\ \A e \in todo : d <= e

-----------------------------------------------------------------------------
Init ==
    /\ iface \in [Devices -> Kinds]
    /\ pc = "guess" /\ level = TopLevel /\ lev = 0 /\ todo = {}
    /\ open = FALSE /\ chosen = 0
    /\ steady = Devices /\ changes = 0

\* An interface comes, goes or changes.
Change(d) ==
    /\ changes < MaxChanges
    /\ \E k \in Kinds \ {iface[d]} : iface' = [iface EXCEPT ![d] = k]
    /\ steady' = steady \ {d}
    /\ changes' = changes + 1
    /\ UNCHANGED search

\* socket() and ioctl(fd, SIOCGIFCONF, &ifConf)
Scan ==
    /\ pc = "guess"
    /\ open' = TRUE
    /\ todo' = Listing
    /\ steady' = steady \cap Listing
    /\ pc' = "device"
    /\ UNCHANGED <<iface, level, lev, chosen, changes>>

\* assert(fd >= 0) on the result of socket(), or assert(ret >= 0) on that of
\* SIOCGIFCONF: the kernel may refuse either.
ScanFails ==
    /\ pc = "guess"
    /\ pc' \in {"no_socket", "no_list"}
    /\ open' = (pc' = "no_list")
    /\ UNCHANGED <<iface, level, lev, todo, chosen, steady, changes>>

\* The name, then ioctl(fd, SIOCGIFFLAGS, ...) with its assertion.
Flags(d) ==
    /\ pc = "device" /\ IsNext(d)
    /\ IF iface[d].present
         THEN /\ pc' = "address"
              /\ lev' = level - Point(d \in Wlan) - FlagPoints(iface[d])
         ELSE pc' = "assert" /\ UNCHANGED lev
    /\ UNCHANGED <<iface, level, todo, open, chosen, steady, changes>>

\* ioctl(fd, SIOCGIFADDR, ...) with its assertion, the point for a private
\* network, and the comparison.
Address(d) ==
    /\ pc = "address" /\ IsNext(d)
    /\ HasAddress(d)
    /\ lev' = lev - Point(iface[d].private)
    /\ IF lev' = 0
         THEN /\ pc' = "done" /\ chosen' = d /\ open' = FALSE
              /\ UNCHANGED todo
         ELSE /\ pc' = "device" /\ todo' = todo \ {d}
              /\ UNCHANGED <<chosen, open>>
    /\ UNCHANGED <<iface, level, steady, changes>>

AddressGone(d) ==
    /\ pc = "address" /\ IsNext(d)
    /\ ~ HasAddress(d)
    /\ pc' = "assert"
    /\ UNCHANGED <<iface, level, lev, todo, open, chosen, steady, changes>>

\* The scan found nothing: while (!guess_iface(lvl--, ret));
\* Fault: the socket is left open.
NextLevel_Open ==
    /\ pc = "device" /\ todo = {}
    /\ level' = Lower(level)
    /\ pc' = "guess"
    /\ UNCHANGED <<iface, lev, todo, open, chosen, steady, changes>>

NextLevel ==
    /\ pc = "device" /\ todo = {}
    /\ open' = FALSE
    /\ level' = Lower(level)
    /\ pc' = "guess"
    /\ UNCHANGED <<iface, lev, todo, chosen, steady, changes>>

Ended == pc \in {"done", "assert", "no_socket", "no_list"}

Stopped == Ended /\ UNCHANGED vars

Step == \/ Scan \/ ScanFails \/ NextLevel
        \/ \E d \in Devices : Flags(d) \/ Address(d) \/ AddressGone(d)

Next == Step \/ Stopped \/ \E d \in Devices : Change(d)

\* The thread runs; nothing is assumed of the interfaces.
Spec == Init /\ [][Next]_vars /\ WF_vars(Step)

-----------------------------------------------------------------------------
(* Properties. *)

\* Every variable has its type; the socket is open exactly during a scan, up
\* to a failed assertion.
TypeOK ==
    /\ iface \in [Devices -> Iface]
    /\ pc \in {"guess", "device", "address", "done", "assert", "no_socket",
              "no_list"}
    /\ level \in Int /\ lev \in Int
    /\ todo \subseteq Devices /\ chosen \in {0} \cup Devices
    /\ open \in BOOLEAN
    /\ open <=> pc \in {"device", "address", "assert", "no_list"}
    /\ steady \subseteq Devices /\ changes \in Nat

\* However the other interfaces change during the search, the one chosen beats
\* every interface that was there throughout: none of those has more points
\* than the level it was found at, and none with as many comes before it.
BestOfSteady ==
    pc = "done" =>
        \A d \in steady : /\ Points(d, iface[d]) <= level
                          /\ d < chosen => Points(d, iface[d]) < level

\* An assertion on a detail of an interface only fails at one that changed
\* under the search.
SteadyNeverAborts ==
    pc = "assert" => \A d \in steady : ~ IsNext(d)

\* While an interface stays as it is and is listed, every step of the thread
\* brings the search nearer to its end: a scan is shorter by what was looked at,
\* and the levels do not go below the least an interface can have.
Turn == 2 * NDev + 3

InScan == CASE pc = "guess"   -> Turn - 1
            [] pc = "device"  -> 2 * Cardinality(todo) + 1
            [] pc = "address" -> 2 * Cardinality(todo)

Left == IF Ended THEN 0 ELSE (level + 2) * Turn + InScan

NearsTheEnd == [][Step /\ steady' # {} => Left' \in Nat /\ Left' < Left]_vars

\* The search ends as long as one interface stays as it is and is listed.
EndsIfSteady == <>(Ended \/ steady = {})
=============================================================================
