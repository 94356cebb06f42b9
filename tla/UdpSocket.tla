----------------------------- MODULE UdpSocket -----------------------------
(***************************************************************************)
(* The UDP handles of libgea (UdpHandle, ShadowUdpHandle) on the kernel's  *)
(* table of descriptors: construction, setSrc() with its replacement of    *)
(* the socket, setDest() with the broadcast option, transfers, and         *)
(* destruction.  In EventLoop these handles are among Fds.                 *)
(*                                                                         *)
(* The client calls from gea_main and from callbacks of the event loop.    *)
(* What interleaves with it: datagrams, and other programs that take and   *)
(* release addresses.                                                      *)
(***************************************************************************)
EXTENDS Naturals, FiniteSets

CONSTANTS
    Handles,      \* the UdpHandle objects
    IPs,          \* IP addresses, IPADDR_ANY and IPADDR_BROADCAST too
    IPADDR_BROADCAST,
    Ports,        \* port numbers
    NoName,       \* the address of a socket that is not bound
    Ephemeral,    \* an address the kernel picked because none was bound
    ClientRules,  \* the rules the client keeps to, a subset of AllClientRules
    MaxFd,        \* bound: the largest descriptor of the process
    MaxDue,       \* bound: events of one handle in one batch
    MaxQueue      \* bound: datagrams queued on one socket

AllClientRules ==
    { "source_first",   \* no setSrc() after a write() without a source
      "dest_last",      \* no second setSrc() while the destination is broadcast
      "keeps_ready",    \* no setSrc() on a handle found ready before its
                        \* callbacks have come and the last has read
      "leaves_due" }    \* no read() on a handle while one of its callbacks is
                        \* still to come

\* A UdpAddress, as setIP() and setPort() make it; a copy has the same fields.
UdpAddress(ip, port) ==
    [ip |-> ip, port |-> port, isBroadcast |-> ip = IPADDR_BROADCAST]

Addrs == {UdpAddress(ip, port) : ip \in IPs, port \in Ports}
Broadcast == {a \in Addrs : a.isBroadcast}

ASSUME SocketAssumption ==
    /\ NoName \notin Addrs /\ Ephemeral \notin Addrs /\ NoName # Ephemeral
    /\ ClientRules \subseteq AllClientRules
    /\ MaxFd \in Nat /\ MaxDue \in Nat /\ MaxQueue \in Nat

\* Descriptor 0 is standard input; 1 and 2 are not of interest.
Fd == 0 .. MaxFd

\* What the kernel keeps for a socket.
Socket == [name : Addrs \cup {NoName, Ephemeral}, reuse : BOOLEAN,
           broadcast : BOOLEAN, queue : 0 .. MaxQueue]

Mode == {"Send", "Recv"}

\* A ShadowUdpHandle, with the descriptor and mode of its shadow handle.
UdpHandle == [unixFd : Fd, unixMode : Mode, addr : Addrs \cup {NoName},
              src : Addrs \cup {NoName}, already_bound : BOOLEAN]

VARIABLES
    opened,     \* the descriptors in use
    sock,       \* Fd -> the socket behind it, if it is one
    taken,      \* the addresses bind() refuses: other programs have them
    others,     \* those in use outside of UDP handles
    alive,      \* the handles that exist
    udp,        \* Handles -> the object
    batch,      \* Handles -> a receiver's events found ready and not yet called
    reading,    \* the receiver whose callback runs, until it has read
    stopped,    \* an assertion has failed
    promise     \* history: the source last asked for, and not refused

kernel == <<opened, sock, taken, others>>
calls  == <<batch, reading>>
vars   == <<kernel, alive, udp, calls, stopped, promise>>

Fresh == [name |-> NoName, reuse |-> FALSE, broadcast |-> FALSE, queue |-> 0]

\* Stands for an object that does not exist.
NoUdp == [unixFd |-> 0, unixMode |-> "Send", addr |-> NoName, src |-> NoName,
          already_bound |-> FALSE]

FdOf(h) == udp[h].unixFd
SocketOf(h) == sock[FdOf(h)]

NoneDue == [h \in Handles |-> 0]

\* A callback of h that is to come, or one that runs, may still read.
Expected(h) == batch[h] > 0 \/ h \in reading

-----------------------------------------------------------------------------
(* The kernel. *)

\* What socket() may return: the lowest free descriptor, nothing if all are
\* in use.  Fault: the result -1 is used without the constructor's assertion.
NewFds_Unchecked ==
    IF Fd \subseteq opened THEN {MaxFd + 1} ELSE
    {n \in Fd \ opened : \A m \in Fd \ opened : n <= m}
NewFds == {n \in Fd \ opened : \A m \in Fd \ opened : n <= m}

\* bind() of socket s on descriptor f to a: a socket is bound once, and an
\* address is shared only if all who share it asked to.
Binds(f, s, a) ==
    /\ s.name = NoName
    /\ a \notin taken
    /\ \A g \in opened \ {f} : sock[g].name = a => sock[g].reuse /\ s.reuse

\* The options setSrc() sets before bind().  Fault: SO_REUSEADDR left out.
Options_None(s) == s
Options(s) == [s EXCEPT !.reuse = TRUE]

\* The socket s on descriptor f after setsockopt() and bind(), which may fail.
Bound(f, s, a) ==
    LET o == Options(s) IN
    IF Binds(f, o, a) THEN [o EXCEPT !.name = a] ELSE o

\* Descriptors in use after socket() = n, dup2(n, f), close(n).
\* Fault: n is not closed.
AfterRebind_Leaks(f, n) == opened \cup {f, n}
AfterRebind(f, n) == (opened \cup {f, n}) \ {n}

\* The broadcast option after setDest(a) on a handle whose destination was d.
\* Fault: the old destination is looked at.
MayBroadcast_OldDest(s, d, a) == s.broadcast \/ d \in Broadcast
MayBroadcast(s, d, a) == s.broadcast \/ a \in Broadcast

-----------------------------------------------------------------------------
Init ==
    /\ opened = {0} /\ others = {0}
    /\ sock = [f \in Fd |-> Fresh]
    /\ taken \in SUBSET Addrs
    /\ alive = {} /\ batch = NoneDue /\ reading = {} /\ stopped = FALSE
    /\ udp = [h \in Handles |-> NoUdp]
    /\ promise = [h \in Handles |-> NoName]

\* UdpHandle(mode, a): the socket, setDest(a), and setSrc(a) for a receiver,
\* whose result is ignored.
Create(h, mode, a) ==
    /\ h \notin alive
    /\ \E f \in NewFds :
         LET s == [Fresh EXCEPT !.broadcast = MayBroadcast(Fresh, a, a)]
             recv == mode = "Recv"
         IN /\ opened' = opened \cup {f}
            /\ sock' = [sock EXCEPT ![f] = IF recv THEN Bound(f, s, a) ELSE s]
            /\ udp' = [udp EXCEPT ![h] =
                         [unixFd |-> f, unixMode |-> mode, addr |-> a,
                          src |-> IF recv THEN a ELSE NoName,
                          already_bound |-> recv]]
            /\ promise' = [promise EXCEPT ![h] =
                             IF recv /\ a \notin taken THEN a ELSE NoName]
    /\ alive' = alive \cup {h}
    /\ UNCHANGED <<taken, others, calls, stopped>>

\* An assertion ends the process; the kernel takes its descriptors back.
Abort ==
    /\ stopped' = TRUE
    /\ opened' = {} /\ others' = {} /\ sock' = [f \in Fd |-> Fresh]
    /\ alive' = {} /\ batch' = NoneDue /\ reading' = {}
    /\ udp' = [h \in Handles |-> NoUdp]
    /\ promise' = [h \in Handles |-> NoName]
    /\ UNCHANGED taken

\* assert (udp_socket >= 0)
CreateFails(h) == h \notin alive /\ NewFds = {} /\ Abort

\* ~UdpHandle(), which closes the descriptor unless it is 0.  What the loop does
\* with events that still wait on the handle is the concern of EventLoop.
Destroy(h) ==
    /\ h \in alive
    /\ alive' = alive \ {h}
    /\ batch' = [batch EXCEPT ![h] = 0] /\ reading' = reading \ {h}
    /\ IF FdOf(h) > 0
       THEN /\ opened' = opened \ {FdOf(h)}
            /\ sock' = [sock EXCEPT ![FdOf(h)] = Fresh]
       ELSE UNCHANGED <<opened, sock>>
    /\ udp' = [udp EXCEPT ![h] = NoUdp]
    /\ promise' = [promise EXCEPT ![h] = NoName]
    /\ UNCHANGED <<taken, others, stopped>>

MaySetSrc(h) ==
    /\ "source_first" \in ClientRules => SocketOf(h).name # Ephemeral
    /\ "dest_last" \in ClientRules =>
         ~ (udp[h].already_bound /\ udp[h].addr \in Broadcast)
    /\ "keeps_ready" \in ClientRules => ~ Expected(h)

\* setSrc(a): a handle that was bound before gets a new socket on the same
\* descriptor.  If socket() fails, dup2() and close() fail too.
SetSrc(h, a) ==
    /\ h \in alive /\ MaySetSrc(h)
    /\ LET f == FdOf(h)
           replaces == udp[h].already_bound /\ NewFds # {}
           s == IF replaces THEN Fresh ELSE sock[f]
       IN /\ IF replaces
             THEN \E n \in NewFds : opened' = AfterRebind(f, n)
             ELSE UNCHANGED opened
          /\ sock' = [sock EXCEPT ![f] = Bound(f, s, a)]
          /\ promise' = [promise EXCEPT ![h] =
                           IF a \in taken \/ (udp[h].already_bound /\ ~ replaces)
                           THEN NoName ELSE a]
    /\ udp' = [udp EXCEPT ![h].src = a, ![h].already_bound = TRUE]
    /\ UNCHANGED <<taken, others, alive, calls, stopped>>

SetDest(h, a) ==
    /\ h \in alive
    /\ sock' = [sock EXCEPT ![FdOf(h)].broadcast =
                  MayBroadcast(SocketOf(h), udp[h].addr, a)]
    /\ udp' = [udp EXCEPT ![h].addr = a]
    /\ UNCHANGED <<opened, taken, others, alive, calls, stopped, promise>>

\* sendto(): the kernel gives an unbound socket an address first, also when
\* it then refuses a broadcast.
Write(h) ==
    /\ h \in alive /\ udp[h].unixMode = "Send"
    /\ sock' = [sock EXCEPT ![FdOf(h)].name =
                  IF @ = NoName THEN Ephemeral ELSE @]
    /\ UNCHANGED <<opened, taken, others, alive, udp, calls, stopped, promise>>

\* read() may be called anywhere: in the callback of the handle, once or more,
\* in that of another, or before the loop runs.
MayRead(h) ==
    /\ h \in alive /\ udp[h].unixMode = "Recv"
    /\ "leaves_due" \in ClientRules => batch[h] = 0

\* recvfrom(): src becomes the sender.  With nothing queued the call would
\* block the thread.
Read(h, sender) ==
    /\ MayRead(h)
    /\ SocketOf(h).queue > 0
    /\ sock' = [sock EXCEPT ![FdOf(h)].queue = @ - 1]
    /\ udp' = [udp EXCEPT ![h].src = sender]
    /\ reading' = reading \ {h}
    /\ UNCHANGED <<opened, taken, others, alive, batch, stopped, promise>>

\* recvfrom() fails for another reason than a signal: src is taken from a
\* variable that was never written.
ReadFails(h, garbage) ==
    /\ MayRead(h)
    /\ udp' = [udp EXCEPT ![h].src = garbage]
    /\ reading' = reading \ {h}
    /\ UNCHANGED <<kernel, alive, batch, stopped, promise>>

\* write() on a receiver and read() on a sender fail an assertion.
WrongMode(h) == h \in alive /\ Abort

\* select() found this receiver ready.  Senders always are: their callbacks are
\* steps of the client like any others, and are not counted in batch.
\* Fault: found ready whatever is queued.
Active_AnyQueue(h) == udp[h].unixMode = "Recv"
Active(h) == udp[h].unixMode = "Recv" /\ SocketOf(h).queue > 0

\* select() returns: the events that wait on ready receivers are due, any number
\* of them on each.
Select(due) ==
    /\ batch = NoneDue /\ reading = {}
    /\ due # NoneDue
    /\ \A h \in Handles : due[h] > 0 => h \in alive /\ Active(h)
    /\ batch' = due
    /\ UNCHANGED <<kernel, alive, udp, reading, stopped, promise>>

\* The loop calls the next event of the batch, and the callback returns.
Call(h) ==
    /\ reading = {} /\ batch[h] > 0
    /\ batch' = [batch EXCEPT ![h] = @ - 1]
    /\ reading' = {h}
    /\ UNCHANGED <<kernel, alive, udp, stopped, promise>>

Return ==
    /\ reading # {}
    /\ reading' = {}
    /\ UNCHANGED <<kernel, alive, udp, batch, stopped, promise>>

-----------------------------------------------------------------------------
(* The outside. *)

\* A datagram reaches a bound socket.
Arrive(f) ==
    /\ f \in opened
    /\ sock[f].name # NoName /\ sock[f].queue < MaxQueue
    /\ sock' = [sock EXCEPT ![f].queue = @ + 1]
    /\ UNCHANGED <<opened, taken, others, alive, udp, calls, stopped, promise>>

\* Another program takes an address no socket of this one has, or gives it up.
OthersBind(a) ==
    /\ \/ a \in taken /\ taken' = taken \ {a}
       \/ /\ a \notin taken /\ taken' = taken \cup {a}
          /\ \A f \in opened : sock[f].name # a
    /\ UNCHANGED <<opened, sock, others, alive, udp, calls, stopped, promise>>

\* The rest of the process opens and closes descriptors: files, and standard
\* input, which new_input() of gea_start closes at its end.
OthersOpen(f) ==
    /\ f \in NewFds
    /\ opened' = opened \cup {f} /\ others' = others \cup {f}
    /\ UNCHANGED <<sock, taken, alive, udp, calls, stopped, promise>>

OthersClose(f) ==
    /\ f \in others
    /\ opened' = opened \ {f} /\ others' = others \ {f}
    /\ UNCHANGED <<sock, taken, alive, udp, calls, stopped, promise>>

Client(h) ==
    \/ \E mode \in Mode, a \in Addrs : Create(h, mode, a)
    \/ CreateFails(h)
    \/ Destroy(h)
    \/ \E a \in Addrs : SetSrc(h, a)
    \/ \E a \in Addrs : SetDest(h, a)
    \/ Write(h)
    \/ \E a \in Addrs : Read(h, a) \/ ReadFails(h, a)
    \/ WrongMode(h)

Step ==
    \/ \E h \in Handles : Client(h)
    \/ \E due \in [Handles -> 0 .. MaxDue] : Select(due)
    \/ \E h \in Handles : Call(h)
    \/ Return
    \/ \E f \in Fd : Arrive(f) \/ OthersOpen(f) \/ OthersClose(f)
    \/ \E a \in Addrs : OthersBind(a)

Terminated == stopped /\ UNCHANGED vars

Next == (~ stopped /\ Step) \/ Terminated

Spec == Init /\ [][Next]_vars

-----------------------------------------------------------------------------
(* Properties. *)

\* Every variable keeps its type: descriptors of handles are descriptors,
\* queues stay within their bound.
TypeOK ==
    /\ opened \subseteq Fd /\ others \subseteq opened
    /\ sock \in [Fd -> Socket]
    /\ taken \subseteq Addrs
    /\ alive \subseteq Handles
    /\ batch \in [Handles -> 0 .. MaxDue] /\ reading \subseteq alive
    /\ \A h \in Handles : batch[h] > 0 => h \in alive
    /\ udp \in [Handles -> UdpHandle]
    /\ stopped \in BOOLEAN
    /\ promise \in [Handles -> Addrs \cup {NoName}]

\* However often sources are set again, every handle has an open descriptor of
\* its own, one nobody else in the process has, and no descriptor is left
\* behind - except 0, which ~ShadowUdpHandle() does not close.
DescriptorsAccounted ==
    /\ \A h \in alive : FdOf(h) \in opened \ others
    /\ \A g, h \in alive : FdOf(g) = FdOf(h) => g = h
    /\ \A f \in opened \ (others \cup {0}) : \E h \in alive : f = FdOf(h)

\* A handle sends from, and listens at, the source last asked for, unless the
\* system refused that source when it was asked for: whatever setSrc() did
\* before, with whatever result, and whichever handles share the address.  A
\* sender's getSrc() says so.
SourceHonoured ==
    \A h \in alive : promise[h] # NoName =>
        /\ SocketOf(h).name = promise[h]
        /\ udp[h].unixMode = "Send" => udp[h].src = promise[h]

\* A handle whose destination is the broadcast address may send to it: the
\* option is on the socket the descriptor has now.
BroadcastPermitted ==
    \A h \in alive : udp[h].addr \in Broadcast => SocketOf(h).broadcast

\* A receiver found ready still has a datagram when its last callback of the
\* batch comes, and until that has read: whatever was read, written, re-bound,
\* closed and opened by the callbacks before it, and by itself, its first read()
\* does not block the event loop.
ReadyHasData ==
    \A h \in alive : Expected(h) => SocketOf(h).queue > 0
=============================================================================
