-------------------------- MODULE UdpSocketProofs --------------------------
(***************************************************************************)
(* Proofs about UdpSocket, for all sets of handles and addresses and any   *)
(* number of descriptors.                                                  *)
(*                                                                         *)
(* Descriptors come first: that no two handles share one is why a change   *)
(* of one socket leaves every other handle alone, which the other three    *)
(* invariants need in almost every step.                                   *)
(***************************************************************************)
EXTENDS UdpSocket, TLAPS

\* Types and descriptors are inductive only together: a destroyed handle closes
\* its descriptor, which must not be one of the others'.
Descriptors == TypeOK /\ DescriptorsAccounted

-----------------------------------------------------------------------------
(* What setSrc() makes of a socket. *)

LEMMA FreshType == Fresh \in Socket /\ NoUdp \in UdpHandle
BY SocketAssumption DEF Fresh, NoUdp, Socket, UdpHandle, Fd, Mode

LEMMA NoneDueType == NoneDue \in [Handles -> 0 .. MaxDue]
BY SocketAssumption DEF NoneDue

LEMMA BoundType ==
    ASSUME NEW f, NEW s \in Socket, NEW a \in Addrs
    PROVE  Bound(f, s, a) \in Socket
BY DEF Bound, Options, Socket

\* Only the name and SO_REUSEADDR change; the name is the one asked for if
\* bind() succeeds, and the old one otherwise.
LEMMA BoundEffect ==
    ASSUME NEW f, NEW s \in Socket, NEW a \in Addrs
    PROVE  /\ Bound(f, s, a).reuse
           /\ Bound(f, s, a).broadcast = s.broadcast
           /\ Bound(f, s, a).queue = s.queue
           /\ Bound(f, s, a).name =
                IF Binds(f, Options(s), a) THEN a ELSE s.name
BY DEF Bound, Options, Socket

-----------------------------------------------------------------------------
(* Types and descriptors. *)

LEMMA DescriptorsInit == Init => Descriptors
<1> SUFFICES ASSUME Init PROVE Descriptors
  OBVIOUS
<1>1. 0 \in Fd
  BY SocketAssumption DEF Fd
<1>2. sock \in [Fd -> Socket] /\ udp \in [Handles -> UdpHandle]
  BY FreshType DEF Init
<1>3. promise \in [Handles -> Addrs \cup {NoName}]
  BY DEF Init
<1>4. /\ batch \in [Handles -> 0 .. MaxDue] /\ reading = {}
      /\ \A h \in Handles : ~ batch[h] > 0
  BY SocketAssumption DEF Init, NoneDue
<1> QED
  BY <1>1, <1>2, <1>3, <1>4
     DEF Init, Descriptors, TypeOK, DescriptorsAccounted

\* When the process ends it has no handle and no descriptor.
LEMMA DescriptorsAbort ==
    ASSUME Descriptors, Abort
    PROVE  Descriptors'
<1>1. TypeOK'
  BY FreshType, NoneDueType DEF Abort, Descriptors, TypeOK, NoneDue
<1>2. DescriptorsAccounted'
  BY DEF Abort, DescriptorsAccounted
<1> QED
  BY <1>1, <1>2 DEF Descriptors

LEMMA DescriptorsCreate ==
    ASSUME Descriptors, NEW h \in Handles, NEW mode \in Mode, NEW a \in Addrs,
           Create(h, mode, a)
    PROVE  Descriptors'
<1> DEFINE s == [Fresh EXCEPT !.broadcast = MayBroadcast(Fresh, a, a)]
<1>0. s \in Socket
  BY FreshType DEF Socket, MayBroadcast, Fresh
<1>1. PICK f \in NewFds :
        /\ opened' = opened \cup {f}
        /\ sock' = [sock EXCEPT ![f] = IF mode = "Recv" THEN Bound(f, s, a) ELSE s]
        /\ udp' = [udp EXCEPT ![h] =
                     [unixFd |-> f, unixMode |-> mode, addr |-> a,
                      src |-> IF mode = "Recv" THEN a ELSE NoName,
                      already_bound |-> (mode = "Recv")]]
        /\ promise' = [promise EXCEPT ![h] =
                         IF mode = "Recv" /\ a \notin taken THEN a ELSE NoName]
  BY DEF Create
<1>2. f \in Fd /\ f \notin opened
  BY DEF NewFds
<1>3. Bound(f, s, a) \in Socket
  BY <1>0, BoundType
<1>4. TypeOK'
  <2>1. sock' \in [Fd -> Socket]
    BY <1>0, <1>1, <1>2, <1>3 DEF Descriptors, TypeOK
  <2>2. udp' \in [Handles -> UdpHandle]
    BY <1>1, <1>2 DEF Descriptors, TypeOK, UdpHandle
  <2> QED
    BY <1>1, <1>2, <2>1, <2>2 DEF Descriptors, TypeOK, Create, calls
<1>5. DescriptorsAccounted'
  <2>1. udp'[h].unixFd = f /\ \A g \in Handles \ {h} : udp'[g] = udp[g]
    BY <1>1 DEF Descriptors, TypeOK
  <2>2. /\ opened' = opened \cup {f} /\ others' = others
        /\ alive' = alive \cup {h} /\ h \notin alive
    BY <1>1 DEF Create
  <2>3. \A g \in alive : FdOf(g)' = FdOf(g) /\ FdOf(g) # f
    BY <1>2, <2>1, <2>2 DEF Descriptors, TypeOK, DescriptorsAccounted, FdOf
  <2>4. FdOf(h)' = f
    BY <2>1 DEF FdOf
  <2>5. \A g \in alive' : FdOf(g)' \in opened' \ others'
    BY <1>2, <2>2, <2>3, <2>4 DEF Descriptors, TypeOK, DescriptorsAccounted
  <2>6. \A g, k \in alive' : FdOf(g)' = FdOf(k)' => g = k
    BY <2>2, <2>3, <2>4 DEF Descriptors, DescriptorsAccounted
  <2>7. \A d \in opened' \ (others' \cup {0}) : \E g \in alive' : d = FdOf(g)'
    BY <2>2, <2>3, <2>4 DEF Descriptors, DescriptorsAccounted
  <2> QED
    BY <2>5, <2>6, <2>7 DEF DescriptorsAccounted
<1> QED
  BY <1>4, <1>5 DEF Descriptors

LEMMA DescriptorsDestroy ==
    ASSUME Descriptors, NEW h \in Handles, Destroy(h)
    PROVE  Descriptors'
<1>1. TypeOK'
  <2>1. /\ batch' \in [Handles -> 0 .. MaxDue] /\ reading' \subseteq alive'
        /\ \A g \in Handles : batch'[g] > 0 => g \in alive'
    BY SocketAssumption DEF Descriptors, TypeOK, Destroy
  <2> QED
    BY <2>1, FreshType
       DEF Descriptors, TypeOK, DescriptorsAccounted, Destroy, FdOf
<1>2. DescriptorsAccounted'
  <2>1. /\ others' = others /\ alive' = alive \ {h} /\ h \in alive
        /\ opened' = IF FdOf(h) > 0 THEN opened \ {FdOf(h)} ELSE opened
    BY DEF Destroy
  <2>2. \A g \in alive' : FdOf(g)' = FdOf(g)
    BY DEF Descriptors, TypeOK, FdOf, Destroy
  <2>3. FdOf(h) \in Nat
    <3>1. FdOf(h) \in Fd
      BY <2>1 DEF Descriptors, TypeOK, DescriptorsAccounted
    <3> QED
      BY <3>1, SocketAssumption DEF Fd
  <2>4. \A g \in alive' : FdOf(g)' \in opened' \ others'
    BY <2>1, <2>2 DEF Descriptors, DescriptorsAccounted
  <2>5. \A g, k \in alive' : FdOf(g)' = FdOf(k)' => g = k
    BY <2>1, <2>2 DEF Descriptors, DescriptorsAccounted
  <2>6. \A d \in opened' \ (others' \cup {0}) : \E g \in alive' : d = FdOf(g)'
    BY <2>1, <2>2, <2>3 DEF Descriptors, DescriptorsAccounted
  <2> QED
    BY <2>4, <2>5, <2>6 DEF DescriptorsAccounted
<1> QED
  BY <1>1, <1>2 DEF Descriptors

LEMMA DescriptorsSetSrc ==
    ASSUME Descriptors, NEW h \in Handles, NEW a \in Addrs, SetSrc(h, a)
    PROVE  Descriptors'
<1> DEFINE f == FdOf(h)
           replaces == udp[h].already_bound /\ NewFds # {}
           s == IF replaces THEN Fresh ELSE sock[f]
<1>1. f \in opened \ others /\ f \in Fd
  BY DEF Descriptors, DescriptorsAccounted, TypeOK, SetSrc
<1>2. s \in Socket
  BY <1>1, FreshType DEF Descriptors, TypeOK
<1>3. sock' = [sock EXCEPT ![f] = Bound(f, s, a)]
  BY DEF SetSrc
<1>4. opened' = opened
  <2>1. CASE replaces
    BY <1>1, <2>1 DEF SetSrc, AfterRebind, NewFds
  <2>2. CASE ~ replaces
    BY <2>2 DEF SetSrc
  <2> QED
    BY <2>1, <2>2
<1>5. /\ udp' \in [Handles -> UdpHandle]
      /\ \A g \in Handles : udp'[g].unixFd = udp[g].unixFd
  BY DEF SetSrc, Descriptors, TypeOK, UdpHandle
<1>6. TypeOK'
  <2>1. sock' \in [Fd -> Socket]
    BY <1>2, <1>3, BoundType DEF Descriptors, TypeOK
  <2> QED
    BY <1>4, <1>5, <2>1 DEF Descriptors, TypeOK, SetSrc, calls
<1>7. DescriptorsAccounted'
  BY <1>4, <1>5 DEF Descriptors, TypeOK, DescriptorsAccounted, FdOf, SetSrc
<1> QED
  BY <1>6, <1>7 DEF Descriptors

LEMMA DescriptorsStep == Descriptors /\ [Next]_vars => Descriptors'
<1> SUFFICES ASSUME Descriptors, [Next]_vars PROVE Descriptors'
  OBVIOUS
<1>1. ASSUME NEW h \in Handles, Client(h) PROVE Descriptors'
  <2>1. ASSUME NEW mode \in Mode, NEW a \in Addrs, Create(h, mode, a)
        PROVE  Descriptors'
    BY <2>1, DescriptorsCreate
  <2>2. CASE CreateFails(h) \/ WrongMode(h)
    BY <2>2, DescriptorsAbort DEF CreateFails, WrongMode
  <2>3. CASE Destroy(h)
    BY <2>3, DescriptorsDestroy
  <2>4. ASSUME NEW a \in Addrs, SetSrc(h, a) PROVE Descriptors'
    BY <2>4, DescriptorsSetSrc
  <2>5. ASSUME NEW a \in Addrs, SetDest(h, a) PROVE Descriptors'
    <3>1. FdOf(h) \in Fd
      BY <2>5 DEF SetDest, Descriptors, TypeOK, UdpHandle, FdOf
    <3>2. sock' \in [Fd -> Socket]
      <4> DEFINE b == MayBroadcast(SocketOf(h), udp[h].addr, a)
      <4>1. b \in BOOLEAN
        BY <3>1 DEF MayBroadcast, SocketOf, Descriptors, TypeOK, Socket
      <4>2. [sock[FdOf(h)] EXCEPT !.broadcast = b] \in Socket
        BY <3>1, <4>1 DEF Descriptors, TypeOK, Socket
      <4>3. sock' = [sock EXCEPT ![FdOf(h)] =
                       [sock[FdOf(h)] EXCEPT !.broadcast = b]]
        BY <2>5 DEF SetDest
      <4> QED
        BY <3>1, <4>2, <4>3 DEF Descriptors, TypeOK
    <3>3. /\ udp' \in [Handles -> UdpHandle]
          /\ \A g \in Handles : udp'[g].unixFd = udp[g].unixFd
      BY <2>5 DEF SetDest, Descriptors, TypeOK, UdpHandle
    <3> QED
      BY <2>5, <3>2, <3>3
         DEF SetDest, Descriptors, TypeOK, DescriptorsAccounted, FdOf, calls
  <2>6. CASE Write(h)
    <3>1. FdOf(h) \in Fd
      BY <2>6 DEF Write, Descriptors, TypeOK, UdpHandle, FdOf
    <3>2. sock' \in [Fd -> Socket]
      <4> DEFINE n == IF SocketOf(h).name = NoName THEN Ephemeral
                      ELSE SocketOf(h).name
      <4>1. [sock[FdOf(h)] EXCEPT !.name = n] \in Socket
        BY <3>1 DEF SocketOf, Descriptors, TypeOK, Socket
      <4>2. sock' = [sock EXCEPT ![FdOf(h)] = [sock[FdOf(h)] EXCEPT !.name = n]]
        BY <2>6 DEF Write, SocketOf
      <4> QED
        BY <3>1, <4>1, <4>2 DEF Descriptors, TypeOK
    <3> QED
      BY <2>6, <3>2
         DEF Write, Descriptors, TypeOK, DescriptorsAccounted, FdOf, calls
  <2>7. ASSUME NEW a \in Addrs, Read(h, a) PROVE Descriptors'
    <3>1. FdOf(h) \in Fd
      BY <2>7 DEF Read, Descriptors, TypeOK, UdpHandle, FdOf
    <3>2. sock' \in [Fd -> Socket]
      BY <2>7, <3>1, SocketAssumption
         DEF Read, SocketOf, Descriptors, TypeOK, Socket
    <3>3. /\ udp' \in [Handles -> UdpHandle]
          /\ \A g \in Handles : udp'[g].unixFd = udp[g].unixFd
      BY <2>7 DEF Read, Descriptors, TypeOK, UdpHandle
    <3> QED
      BY <2>7, <3>2, <3>3
         DEF Read, Descriptors, TypeOK, DescriptorsAccounted, FdOf
  <2>8. ASSUME NEW a \in Addrs, ReadFails(h, a) PROVE Descriptors'
    <3>1. /\ udp' \in [Handles -> UdpHandle]
          /\ \A g \in Handles : udp'[g].unixFd = udp[g].unixFd
      BY <2>8 DEF ReadFails, Descriptors, TypeOK, UdpHandle
    <3> QED
      BY <2>8, <3>1
         DEF ReadFails, kernel, Descriptors, TypeOK, DescriptorsAccounted, FdOf
  <2> QED
    BY <1>1, <2>1, <2>2, <2>3, <2>4, <2>5, <2>6, <2>7, <2>8 DEF Client
<1>2. CASE \/ \E due \in [Handles -> 0 .. MaxDue] : Select(due)
           \/ \E h \in Handles : Call(h)
           \/ Return
  <2>1. /\ batch' \in [Handles -> 0 .. MaxDue] /\ reading' \subseteq alive
        /\ \A h \in Handles : batch'[h] > 0 => h \in alive
    BY <1>2, SocketAssumption DEF Select, Call, Return, Descriptors, TypeOK
  <2>2. UNCHANGED <<kernel, alive, udp, stopped, promise>>
    BY <1>2 DEF Select, Call, Return
  <2> QED
    BY <2>1, <2>2
       DEF kernel, Descriptors, TypeOK, DescriptorsAccounted, FdOf
<1>3. ASSUME NEW f \in Fd, Arrive(f) PROVE Descriptors'
  <2>1. sock' \in [Fd -> Socket]
    BY <1>3, SocketAssumption DEF Arrive, Descriptors, TypeOK, Socket
  <2> QED
    BY <1>3, <2>1
       DEF Arrive, Descriptors, TypeOK, DescriptorsAccounted, FdOf, calls
<1>4. ASSUME NEW f \in Fd, OthersOpen(f) PROVE Descriptors'
  BY <1>4
     DEF OthersOpen, NewFds, Descriptors, TypeOK, DescriptorsAccounted, FdOf,
         calls
<1>5. ASSUME NEW f \in Fd, OthersClose(f) PROVE Descriptors'
  BY <1>5
     DEF OthersClose, Descriptors, TypeOK, DescriptorsAccounted, FdOf, calls
<1>6. ASSUME NEW a \in Addrs, OthersBind(a) PROVE Descriptors'
  BY <1>6
     DEF OthersBind, Descriptors, TypeOK, DescriptorsAccounted, FdOf, calls
<1>7. CASE UNCHANGED vars
  BY <1>7
     DEF vars, kernel, Descriptors, TypeOK, DescriptorsAccounted, FdOf, calls
<1> QED
  BY <1>1, <1>2, <1>3, <1>4, <1>5, <1>6, <1>7 DEF Next, Step, Terminated

LEMMA DescriptorsAlways == Spec => []Descriptors
BY DescriptorsInit, DescriptorsStep, PTL DEF Spec

\* Every variable keeps its type: no handle that exists is left without a
\* descriptor when socket() has none.
THEOREM TypeCorrect == Spec => []TypeOK
<1>1. Descriptors => TypeOK
  BY DEF Descriptors
<1> QED
  BY <1>1, DescriptorsAlways, PTL

\* Every handle has a descriptor of its own and none is left behind, through
\* any sequence of constructions, new sources and destructions, and however
\* few descriptors there are.
THEOREM NoDescriptorLost == Spec => []DescriptorsAccounted
<1>1. Descriptors => DescriptorsAccounted
  BY DEF Descriptors
<1> QED
  BY <1>1, DescriptorsAlways, PTL

-----------------------------------------------------------------------------
(* What a step may do to the socket of a handle it is not about: nothing. *)

\* The sockets of all handles but h are as before, and so are the objects.
LeavesAlone(h) ==
    \A g \in alive \ {h} :
        /\ SocketOf(g)' = SocketOf(g)
        /\ udp'[g] = udp[g]

LEMMA StepIsLocal ==
    ASSUME Descriptors, NEW h \in Handles, Client(h), ~ Abort
    PROVE  LeavesAlone(h)
<1> SUFFICES ASSUME NEW g \in alive \ {h}
             PROVE  SocketOf(g)' = SocketOf(g) /\ udp'[g] = udp[g]
  BY DEF LeavesAlone
<1>0. /\ g \in Handles /\ FdOf(g) \in Fd /\ FdOf(g) \in opened
      /\ sock \in [Fd -> Socket] /\ udp \in [Handles -> UdpHandle]
  BY DEF Descriptors, TypeOK, DescriptorsAccounted
<1>1. h \in alive => FdOf(g) # FdOf(h)
  BY DEF Descriptors, DescriptorsAccounted
<1>2. SUFFICES /\ udp'[g] = udp[g]
               /\ sock'[FdOf(g)] = sock[FdOf(g)]
  BY DEF SocketOf, FdOf
<1>3. ASSUME NEW mode \in Mode, NEW a \in Addrs, Create(h, mode, a)
      PROVE  udp'[g] = udp[g] /\ sock'[FdOf(g)] = sock[FdOf(g)]
  BY <1>0, <1>3 DEF Create, NewFds
<1>4. CASE Destroy(h)
  BY <1>0, <1>1, <1>4 DEF Destroy
<1>5. ASSUME NEW a \in Addrs, SetSrc(h, a)
      PROVE  udp'[g] = udp[g] /\ sock'[FdOf(g)] = sock[FdOf(g)]
  BY <1>0, <1>1, <1>5 DEF SetSrc
<1>6. ASSUME NEW a \in Addrs, SetDest(h, a)
      PROVE  udp'[g] = udp[g] /\ sock'[FdOf(g)] = sock[FdOf(g)]
  BY <1>0, <1>1, <1>6 DEF SetDest
<1>7. CASE Write(h)
  BY <1>0, <1>1, <1>7 DEF Write
<1>8. ASSUME NEW a \in Addrs, Read(h, a)
      PROVE  udp'[g] = udp[g] /\ sock'[FdOf(g)] = sock[FdOf(g)]
  <2>1. h \in alive
    BY <1>8 DEF Read, MayRead
  <2> QED
    BY <1>0, <1>1, <1>8, <2>1 DEF Read
<1>9. ASSUME NEW a \in Addrs, ReadFails(h, a)
      PROVE  udp'[g] = udp[g] /\ sock'[FdOf(g)] = sock[FdOf(g)]
  BY <1>0, <1>9 DEF ReadFails, kernel
<1> QED
  BY <1>3, <1>4, <1>5, <1>6, <1>7, <1>8, <1>9
     DEF Client, CreateFails, WrongMode

\* What the other steps may do to a socket: add a datagram.
LEMMA OutsideStep ==
    ASSUME Descriptors,
           \/ \E due \in [Handles -> 0 .. MaxDue] : Select(due)
           \/ (\E h \in Handles : Call(h)) \/ Return
           \/ \E f \in Fd : Arrive(f) \/ OthersOpen(f) \/ OthersClose(f)
           \/ \E a \in Addrs : OthersBind(a)
           \/ UNCHANGED vars
    PROVE  /\ alive' = alive /\ udp' = udp /\ promise' = promise
           /\ \A f \in Fd : /\ sock'[f].name = sock[f].name
                            /\ sock'[f].reuse = sock[f].reuse
                            /\ sock'[f].broadcast = sock[f].broadcast
                            /\ sock[f].queue > 0 => sock'[f].queue > 0
<1>1. ASSUME NEW f \in Fd, Arrive(f)
      PROVE  \A g \in Fd : /\ sock'[g].name = sock[g].name
                           /\ sock'[g].reuse = sock[g].reuse
                           /\ sock'[g].broadcast = sock[g].broadcast
                           /\ sock[g].queue > 0 => sock'[g].queue > 0
  <2>1. sock' = [sock EXCEPT ![f].queue = @ + 1]
    BY <1>1 DEF Arrive
  <2>2. sock[f] \in Socket /\ sock[f].queue \in Nat
    BY SocketAssumption DEF Descriptors, TypeOK, Socket
  <2> QED
    BY <2>1, <2>2 DEF Descriptors, TypeOK, Socket
<1>2. ASSUME NEW f \in Fd, Arrive(f)
      PROVE  alive' = alive /\ udp' = udp /\ promise' = promise
  BY <1>2 DEF Arrive
<1>3. ASSUME \/ \E due \in [Handles -> 0 .. MaxDue] : Select(due)
             \/ (\E h \in Handles : Call(h)) \/ Return
             \/ \E f \in Fd : OthersOpen(f) \/ OthersClose(f)
             \/ \E a \in Addrs : OthersBind(a)
             \/ UNCHANGED vars
      PROVE  alive' = alive /\ udp' = udp /\ promise' = promise /\ sock' = sock
  BY <1>3
     DEF Select, Call, Return, OthersOpen, OthersClose, OthersBind, vars, kernel
<1> QED
  BY <1>1, <1>2, <1>3

LEMMA AliveHandle ==
    ASSUME Descriptors, NEW h \in alive
    PROVE  h \in Handles /\ FdOf(h) \in Fd /\ SocketOf(h) \in Socket
BY DEF Descriptors, TypeOK, DescriptorsAccounted, SocketOf

\* Create gives the handle this socket, on a free descriptor.
NewSocket(f, mode, a) ==
    LET s == [Fresh EXCEPT !.broadcast = MayBroadcast(Fresh, a, a)]
    IN  IF mode = "Recv" THEN Bound(f, s, a) ELSE s

Creates(f, h, mode, a) ==
    /\ f \notin opened
    /\ alive' = alive \cup {h}
    /\ sock' = [sock EXCEPT ![f] = NewSocket(f, mode, a)]
    /\ SocketOf(h)' = NewSocket(f, mode, a)
    /\ udp'[h] = [unixFd |-> f, unixMode |-> mode, addr |-> a,
                  src |-> IF mode = "Recv" THEN a ELSE NoName,
                  already_bound |-> (mode = "Recv")]
    /\ promise' = [promise EXCEPT ![h] =
                     IF mode = "Recv" /\ a \notin taken THEN a ELSE NoName]

LEMMA CreateEffect ==
    ASSUME Descriptors, NEW h \in Handles, NEW mode \in Mode, NEW a \in Addrs,
           Create(h, mode, a)
    PROVE  \E f \in Fd : Creates(f, h, mode, a)
<1>1. PICK f \in NewFds :
        /\ sock' = [sock EXCEPT ![f] = NewSocket(f, mode, a)]
        /\ udp' = [udp EXCEPT ![h] =
                     [unixFd |-> f, unixMode |-> mode, addr |-> a,
                      src |-> IF mode = "Recv" THEN a ELSE NoName,
                      already_bound |-> (mode = "Recv")]]
        /\ promise' = [promise EXCEPT ![h] =
                         IF mode = "Recv" /\ a \notin taken THEN a ELSE NoName]
  BY DEF Create, NewSocket
<1>2. f \in Fd /\ f \notin opened
  BY DEF NewFds
<1>3. udp'[h].unixFd = f /\ sock'[f] = NewSocket(f, mode, a)
  BY <1>1, <1>2 DEF Descriptors, TypeOK
<1>4. SocketOf(h)' = NewSocket(f, mode, a)
  BY <1>3 DEF SocketOf, FdOf
<1> QED
  BY <1>1, <1>2, <1>4 DEF Descriptors, TypeOK, Create, Creates

\* The socket setSrc() works on: a new one if it replaces the old.
Base(h) == IF udp[h].already_bound /\ NewFds # {} THEN Fresh ELSE SocketOf(h)

LEMMA SetSrcEffect ==
    ASSUME Descriptors, NEW h \in Handles, NEW a \in Addrs, SetSrc(h, a)
    PROVE  /\ h \in alive /\ alive' = alive /\ calls' = calls /\ MaySetSrc(h)
           /\ Base(h) \in Socket
           /\ sock' = [sock EXCEPT ![FdOf(h)] = Bound(FdOf(h), Base(h), a)]
           /\ SocketOf(h)' = Bound(FdOf(h), Base(h), a)
           /\ udp'[h] = [udp[h] EXCEPT !.src = a, !.already_bound = TRUE]
           /\ promise' = [promise EXCEPT ![h] =
                            IF a \in taken \/ (udp[h].already_bound /\ NewFds = {})
                            THEN NoName ELSE a]
<1>1. h \in alive /\ alive' = alive /\ calls' = calls /\ MaySetSrc(h)
  BY DEF SetSrc
<1>2. Base(h) \in Socket /\ FdOf(h) \in Fd
  BY <1>1, AliveHandle, FreshType DEF Base
<1>3. sock' = [sock EXCEPT ![FdOf(h)] = Bound(FdOf(h), Base(h), a)]
  BY DEF SetSrc, Base, SocketOf
<1>4. udp'[h] = [udp[h] EXCEPT !.src = a, !.already_bound = TRUE]
  BY DEF SetSrc, Descriptors, TypeOK
<1>5. FdOf(h)' = FdOf(h)
  BY <1>4 DEF FdOf, Descriptors, TypeOK, UdpHandle
<1>6. SocketOf(h)' = Bound(FdOf(h), Base(h), a)
  BY <1>2, <1>3, <1>5 DEF SocketOf, Descriptors, TypeOK
<1>7. promise' = [promise EXCEPT ![h] =
                    IF a \in taken \/ (udp[h].already_bound /\ NewFds = {})
                    THEN NoName ELSE a]
  BY DEF SetSrc
<1> QED
  BY <1>1, <1>2, <1>3, <1>4, <1>6, <1>7

\* Everything else a client does to the socket of its own handle.
LEMMA OtherEffect ==
    ASSUME Descriptors, NEW h \in alive,
           \/ \E a \in Addrs : SetDest(h, a) \/ Read(h, a) \/ ReadFails(h, a)
           \/ Write(h)
    PROVE  /\ alive' = alive /\ promise' = promise
           /\ SocketOf(h)'.reuse = SocketOf(h).reuse
           /\ SocketOf(h).name # NoName => SocketOf(h)'.name = SocketOf(h).name
           /\ SocketOf(h).name = NoName => SocketOf(h)'.name \in {NoName, Ephemeral}
           /\ SocketOf(h).broadcast => SocketOf(h)'.broadcast
           /\ udp'[h].addr \in Broadcast =>
                udp[h].addr \in Broadcast \/ SocketOf(h)'.broadcast
           /\ udp'[h].already_bound = udp[h].already_bound
           /\ udp'[h].unixMode = udp[h].unixMode
           /\ udp'[h].unixMode = "Send" => udp'[h].src = udp[h].src
           /\ \A f \in Fd \ {FdOf(h)} : sock'[f] = sock[f]
<1> DEFINE s == SocketOf(h)
           t == sock'[FdOf(h)]
<1>0. /\ h \in Handles /\ FdOf(h) \in Fd /\ SocketOf(h) \in Socket
      /\ sock \in [Fd -> Socket] /\ udp \in [Handles -> UdpHandle]
      /\ udp[h] \in UdpHandle
  BY AliveHandle DEF Descriptors, TypeOK
<1>1. ASSUME NEW a \in Addrs, SetDest(h, a)
      PROVE  /\ t = [s EXCEPT !.broadcast = MayBroadcast(s, udp[h].addr, a)]
             /\ udp'[h] = [udp[h] EXCEPT !.addr = a]
             /\ \A f \in Fd \ {FdOf(h)} : sock'[f] = sock[f]
             /\ alive' = alive /\ promise' = promise
  BY <1>0, <1>1 DEF SetDest, SocketOf
<1>2. ASSUME NEW a \in Addrs, Read(h, a)
      PROVE  /\ t = [s EXCEPT !.queue = @ - 1]
             /\ udp'[h] = [udp[h] EXCEPT !.src = a] /\ udp[h].unixMode = "Recv"
             /\ \A f \in Fd \ {FdOf(h)} : sock'[f] = sock[f]
             /\ alive' = alive /\ promise' = promise
  BY <1>0, <1>2 DEF Read, MayRead, SocketOf
<1>3. CASE Write(h)
  <2>1. /\ t = [s EXCEPT !.name = IF @ = NoName THEN Ephemeral ELSE @]
        /\ udp' = udp
        /\ \A f \in Fd \ {FdOf(h)} : sock'[f] = sock[f]
        /\ alive' = alive /\ promise' = promise
    BY <1>0, <1>3 DEF Write, SocketOf
  <2>2. SocketOf(h)' = t
    BY <2>1 DEF SocketOf, FdOf
  <2> QED
    BY <1>0, <2>1, <2>2 DEF Socket
<1>4. ASSUME NEW a \in Addrs, SetDest(h, a) \/ Read(h, a)
      PROVE  SocketOf(h)' = t
  <2>1. udp'[h].unixFd = udp[h].unixFd
    BY <1>0, <1>1, <1>2, <1>4 DEF UdpHandle
  <2> QED
    BY <2>1 DEF SocketOf, FdOf
<1>5. CASE \E a \in Addrs : SetDest(h, a)
  <2>1. PICK a \in Addrs : SetDest(h, a)
    BY <1>5
  <2> DEFINE b == MayBroadcast(s, udp[h].addr, a)
  <2>2. (s.broadcast \/ a \in Broadcast) => b
    BY DEF MayBroadcast
  <2>3. SocketOf(h)' = [s EXCEPT !.broadcast = b]
    BY <1>1, <1>4, <2>1
  <2>4. udp'[h] = [udp[h] EXCEPT !.addr = a]
    BY <1>1, <2>1
  <2> QED
    BY <1>0, <1>1, <2>1, <2>2, <2>3, <2>4 DEF Socket, UdpHandle
<1>6. CASE \E a \in Addrs : Read(h, a)
  <2>1. PICK a \in Addrs : Read(h, a)
    BY <1>6
  <2>2. SocketOf(h)' = [s EXCEPT !.queue = @ - 1]
    BY <1>2, <1>4, <2>1
  <2>3. udp'[h] = [udp[h] EXCEPT !.src = a] /\ udp[h].unixMode = "Recv"
    BY <1>2, <2>1
  <2> QED
    BY <1>0, <1>2, <2>1, <2>2, <2>3 DEF Socket, UdpHandle
<1>7. CASE \E a \in Addrs : ReadFails(h, a)
  <2>1. PICK a \in Addrs : ReadFails(h, a)
    BY <1>7
  <2>2. /\ udp'[h] = [udp[h] EXCEPT !.src = a] /\ udp[h].unixMode = "Recv"
        /\ sock' = sock /\ alive' = alive /\ promise' = promise
    BY <1>0, <2>1 DEF ReadFails, MayRead, kernel
  <2>3. SocketOf(h)' = s
    BY <1>0, <2>2 DEF SocketOf, FdOf, UdpHandle
  <2> QED
    BY <1>0, <2>2, <2>3 DEF UdpHandle
<1> QED
  BY <1>3, <1>5, <1>6, <1>7

-----------------------------------------------------------------------------
(* The broadcast option. *)

LEMMA BroadcastStep ==
    ASSUME "dest_last" \in ClientRules, Descriptors, BroadcastPermitted, [Next]_vars
    PROVE  BroadcastPermitted'
<1>1. CASE (\E h \in Handles : Client(h)) /\ ~ Abort
  <2>1. PICK h \in Handles : Client(h)
    BY <1>1
  <2>2. ASSUME NEW g \in alive \ {h}, udp'[g].addr \in Broadcast
        PROVE  SocketOf(g)'.broadcast
    BY <1>1, <2>1, <2>2, StepIsLocal DEF LeavesAlone, BroadcastPermitted
  <2>3. ASSUME NEW mode \in Mode, NEW a \in Addrs, Create(h, mode, a)
        PROVE  /\ udp'[h].addr \in Broadcast => SocketOf(h)'.broadcast
               /\ alive' = alive \cup {h}
    <3>1. PICK f \in Fd : Creates(f, h, mode, a)
      BY <2>3, CreateEffect
    <3> DEFINE s == [Fresh EXCEPT !.broadcast = MayBroadcast(Fresh, a, a)]
    <3>2. s \in Socket /\ (a \in Broadcast => s.broadcast)
      BY FreshType DEF Fresh, Socket, MayBroadcast
    <3>3. Bound(f, s, a).broadcast = s.broadcast
      BY <3>2, BoundEffect
    <3> QED
      BY <3>1, <3>2, <3>3 DEF NewSocket, Creates
  <2>4. ASSUME NEW a \in Addrs, SetSrc(h, a)
        PROVE  /\ udp'[h].addr \in Broadcast => SocketOf(h)'.broadcast
               /\ alive' = alive
    <3>1. /\ h \in alive /\ alive' = alive /\ MaySetSrc(h)
          /\ Base(h) \in Socket
          /\ SocketOf(h)' = Bound(FdOf(h), Base(h), a)
          /\ udp'[h] = [udp[h] EXCEPT !.src = a, !.already_bound = TRUE]
      BY <2>4, SetSrcEffect, Zenon
    <3>2. udp'[h].addr = udp[h].addr
      BY <3>1 DEF Descriptors, TypeOK, UdpHandle
    <3>3. SocketOf(h)'.broadcast = Base(h).broadcast
      BY <3>1, BoundEffect
    <3>4. udp[h].addr \in Broadcast => Base(h) = SocketOf(h)
      BY <3>1 DEF MaySetSrc, Base
    <3> QED
      BY <3>1, <3>2, <3>3, <3>4 DEF BroadcastPermitted
  <2>5. CASE Destroy(h)
    BY <2>2, <2>5 DEF Destroy, BroadcastPermitted
  <2>6. CASE \/ \E a \in Addrs : SetDest(h, a) \/ Read(h, a) \/ ReadFails(h, a)
             \/ Write(h)
    <3>1. alive' = alive
      BY <2>6 DEF SetDest, Read, ReadFails, Write
    <3>2. h \in alive /\ udp'[h].addr \in Broadcast => SocketOf(h)'.broadcast
      BY <2>6, OtherEffect DEF BroadcastPermitted
    <3> QED
      BY <2>2, <3>1, <3>2 DEF BroadcastPermitted
  <2> QED
    BY <1>1, <2>1, <2>2, <2>3, <2>4, <2>5, <2>6
       DEF Client, CreateFails, WrongMode, BroadcastPermitted
<1>2. CASE ~ \E h \in Handles : Client(h)
  <2>1. /\ alive' = alive /\ udp' = udp
        /\ \A f \in Fd : sock'[f].broadcast = sock[f].broadcast
    BY <1>2, OutsideStep DEF Next, Step, Terminated
  <2> QED
    BY <2>1, AliveHandle DEF BroadcastPermitted, SocketOf, FdOf
<1>3. CASE Abort
  BY <1>3 DEF Abort, BroadcastPermitted
<1> QED
  BY <1>1, <1>2, <1>3

\* For a client that chooses its broadcast destinations after its sources: a
\* handle with a broadcast destination may always send to it.
THEOREM BroadcastsAllowed ==
    ASSUME "dest_last" \in ClientRules
    PROVE  Spec => []BroadcastPermitted
<1>1. Init => BroadcastPermitted
  BY DEF Init, BroadcastPermitted
<1>2. Descriptors /\ BroadcastPermitted /\ [Next]_vars => BroadcastPermitted'
  BY BroadcastStep
<1> QED
  BY <1>1, <1>2, DescriptorsAlways, PTL DEF Spec

-----------------------------------------------------------------------------
(* Sources. *)

\* Every socket with an address of the client's has SO_REUSEADDR, so none keeps
\* another from binding; and a handle setSrc() was never called on has no such
\* address, so bind() has not been called on its socket.
Shareable == \A f \in Fd : sock[f].name \in Addrs => sock[f].reuse

NotYetBound ==
    \A h \in alive : ~ udp[h].already_bound => SocketOf(h).name \notin Addrs

Sources == SourceHonoured /\ Shareable /\ NotYetBound

\* What Sources says of one handle, with p for its promise.
Sourced(p, s, u) ==
    /\ p # NoName => s.name = p /\ (u.unixMode = "Send" => u.src = p)
    /\ ~ u.already_bound => s.name \notin Addrs

LEMMA SharedBind ==
    ASSUME Shareable, opened \subseteq Fd, NEW f, NEW s \in Socket,
           s.name = NoName, NEW a \in Addrs, a \notin taken
    PROVE  Binds(f, Options(s), a)
BY DEF Shareable, Binds, Options, Socket

LEMMA SourcesCreate ==
    ASSUME Descriptors, Sources, NEW h \in Handles, NEW mode \in Mode,
           NEW a \in Addrs, Create(h, mode, a)
    PROVE  Shareable' /\ Sourced(promise[h], SocketOf(h), udp[h])'
           /\ alive' = alive \cup {h}
<1>1. PICK f \in Fd : Creates(f, h, mode, a)
  BY CreateEffect
<1> DEFINE s == [Fresh EXCEPT !.broadcast = MayBroadcast(Fresh, a, a)]
<1>2. s \in Socket /\ s.name = NoName /\ NoName \notin Addrs
  BY FreshType, SocketAssumption DEF Fresh, Socket, MayBroadcast
<1>3. a \notin taken => Binds(f, Options(s), a)
  BY <1>2, SharedBind DEF Sources, Descriptors, TypeOK
<1>4. /\ Bound(f, s, a).reuse
      /\ Bound(f, s, a).name = IF Binds(f, Options(s), a) THEN a ELSE s.name
  BY <1>2, BoundEffect
<1>5. /\ NewSocket(f, mode, a).name \in Addrs => NewSocket(f, mode, a).reuse
      /\ mode = "Recv" /\ a \notin taken => NewSocket(f, mode, a).name = a
      /\ mode # "Recv" => NewSocket(f, mode, a).name = NoName
  BY <1>2, <1>3, <1>4 DEF NewSocket
<1>6. Shareable'
  BY <1>1, <1>5 DEF Creates, Sources, Shareable, Descriptors, TypeOK
<1>7. promise'[h] = IF mode = "Recv" /\ a \notin taken THEN a ELSE NoName
  BY <1>1 DEF Creates, Descriptors, TypeOK
<1>8. Sourced(promise'[h], SocketOf(h)', udp'[h])
  <2>1. /\ SocketOf(h)' = NewSocket(f, mode, a)
        /\ udp'[h].unixMode = mode
        /\ udp'[h].already_bound = (mode = "Recv")
    BY <1>1 DEF Creates
  <2>2. CASE mode = "Recv"
    BY <1>5, <1>7, <2>1, <2>2 DEF Sourced
  <2>3. CASE mode # "Recv"
    BY <1>2, <1>5, <1>7, <2>1, <2>3 DEF Sourced
  <2> QED
    BY <2>2, <2>3
<1> QED
  BY <1>1, <1>6, <1>8 DEF Creates, Sourced

LEMMA SourcesSetSrc ==
    ASSUME "source_first" \in ClientRules, Descriptors, Sources,
           NEW h \in Handles, NEW a \in Addrs, SetSrc(h, a)
    PROVE  Shareable' /\ Sourced(promise[h], SocketOf(h), udp[h])'
           /\ alive' = alive
<1> DEFINE f == FdOf(h)
           s == Base(h)
<1>1. /\ h \in alive /\ alive' = alive /\ MaySetSrc(h)
      /\ s \in Socket
      /\ sock' = [sock EXCEPT ![f] = Bound(f, s, a)]
      /\ SocketOf(h)' = Bound(f, s, a)
      /\ udp'[h] = [udp[h] EXCEPT !.src = a, !.already_bound = TRUE]
      /\ promise' = [promise EXCEPT ![h] =
                       IF a \in taken \/ (udp[h].already_bound /\ NewFds = {})
                       THEN NoName ELSE a]
  BY SetSrcEffect, Zenon
<1>2. /\ Bound(f, s, a).reuse
      /\ Bound(f, s, a).name = IF Binds(f, Options(s), a) THEN a ELSE s.name
  BY <1>1, BoundEffect
<1>3. Shareable'
  BY <1>1, <1>2, AliveHandle DEF Sources, Shareable, Descriptors, TypeOK
<1>4. ~ (udp[h].already_bound /\ NewFds = {}) => s.name = NoName
  <2>1. CASE udp[h].already_bound
    BY <2>1 DEF Base, Fresh
  <2>2. CASE ~ udp[h].already_bound
    <3>1. s = SocketOf(h) /\ s.name # Ephemeral
      BY <1>1, <2>2 DEF Base, MaySetSrc
    <3>2. s.name \notin Addrs
      BY <1>1, <2>2, <3>1 DEF Sources, NotYetBound
    <3> QED
      BY <1>1, <3>1, <3>2 DEF Socket
  <2> QED
    BY <2>1, <2>2
<1>5. promise'[h] # NoName => Bound(f, s, a).name = a /\ promise'[h] = a
  <2> SUFFICES ASSUME promise'[h] # NoName
               PROVE  Bound(f, s, a).name = a /\ promise'[h] = a
    OBVIOUS
  <2>1. /\ a \notin taken /\ ~ (udp[h].already_bound /\ NewFds = {})
        /\ promise'[h] = a
    BY <1>1 DEF Descriptors, TypeOK
  <2>2. Binds(f, Options(s), a)
    BY <1>1, <1>4, <2>1, SharedBind DEF Sources, Descriptors, TypeOK
  <2> QED
    BY <1>2, <2>1, <2>2
<1>6. udp'[h].src = a /\ udp'[h].already_bound
  BY <1>1 DEF Descriptors, TypeOK, UdpHandle
<1> QED
  BY <1>1, <1>3, <1>5, <1>6 DEF Sourced

LEMMA SourcesOther ==
    ASSUME Descriptors, Sources, NEW h \in alive,
           \/ \E a \in Addrs : SetDest(h, a) \/ Read(h, a) \/ ReadFails(h, a)
           \/ Write(h)
    PROVE  Shareable' /\ Sourced(promise[h], SocketOf(h), udp[h])'
           /\ alive' = alive
<1> DEFINE s == SocketOf(h)
           t == SocketOf(h)'
<1>1. /\ alive' = alive /\ promise' = promise
      /\ t.reuse = s.reuse
      /\ s.name # NoName => t.name = s.name
      /\ s.name = NoName => t.name \in {NoName, Ephemeral}
      /\ udp'[h].already_bound = udp[h].already_bound
      /\ udp'[h].unixMode = udp[h].unixMode
      /\ udp'[h].unixMode = "Send" => udp'[h].src = udp[h].src
      /\ \A f \in Fd \ {FdOf(h)} : sock'[f] = sock[f]
  BY OtherEffect, Zenon
<1>2. FdOf(h)' = FdOf(h) /\ FdOf(h) \in Fd
  <2>1. udp'[h].unixFd = udp[h].unixFd
    BY AliveHandle
       DEF SetDest, Read, ReadFails, Write, Descriptors, TypeOK, UdpHandle
  <2> QED
    BY <2>1, AliveHandle DEF FdOf
<1>3. t = sock'[FdOf(h)] /\ s = sock[FdOf(h)]
  BY <1>2 DEF SocketOf
<1>4. s.name \in Addrs \/ s.name \in {NoName, Ephemeral}
  BY AliveHandle DEF Socket
<1>5. Shareable'
  BY <1>1, <1>2, <1>3, <1>4, SocketAssumption DEF Sources, Shareable
<1>6. Sourced(promise'[h], t, udp'[h])
  BY <1>1, <1>4, SocketAssumption
     DEF Sources, SourceHonoured, NotYetBound, Sourced
<1> QED
  BY <1>1, <1>5, <1>6 DEF Sourced

LEMMA SourcesStep ==
    ASSUME "source_first" \in ClientRules, Descriptors, Sources, [Next]_vars
    PROVE  Sources'
<1>1. CASE (\E h \in Handles : Client(h)) /\ ~ Abort
  <2>1. PICK h \in Handles : Client(h)
    BY <1>1
  <2>2. ASSUME NEW g \in alive \ {h}
        PROVE  Sourced(promise[g], SocketOf(g), udp[g])'
    <3>1. SocketOf(g)' = SocketOf(g) /\ udp'[g] = udp[g]
      BY <1>1, <2>1, StepIsLocal DEF LeavesAlone
    <3>2. promise'[g] = promise[g]
      <4> g \in Handles /\ promise \in [Handles -> Addrs \cup {NoName}]
        BY DEF Descriptors, TypeOK
      <4> QED
        BY <1>1, <2>1 DEF Client, Create, CreateFails, Destroy, SetSrc, SetDest,
                          Write, Read, ReadFails, WrongMode
    <3> QED
      BY <3>1, <3>2 DEF Sources, SourceHonoured, NotYetBound, Sourced
  <2>3. CASE Shareable' /\ Sourced(promise[h], SocketOf(h), udp[h])'
             /\ alive' \in {alive, alive \cup {h}}
    <3>1. \A g \in alive' : Sourced(promise'[g], SocketOf(g)', udp'[g])
      BY <2>2, <2>3 DEF Sourced
    <3> QED
      BY <2>3, <3>1 DEF Sources, SourceHonoured, NotYetBound, Sourced
  <2>4. CASE \E mode \in Mode, a \in Addrs : Create(h, mode, a)
    BY <2>3, <2>4, SourcesCreate
  <2>5. CASE \E a \in Addrs : SetSrc(h, a)
    BY <2>3, <2>5, SourcesSetSrc
  <2>6. CASE Destroy(h)
    <3>1. alive' = alive \ {h}
      BY <2>6 DEF Destroy
    <3>2. Shareable'
      BY <2>6, SocketAssumption
         DEF Destroy, Sources, Shareable, Descriptors, TypeOK, Fresh
    <3>3. \A g \in alive' : Sourced(promise'[g], SocketOf(g)', udp'[g])
      BY <2>2, <3>1 DEF Sourced
    <3> QED
      BY <3>2, <3>3 DEF Sources, SourceHonoured, NotYetBound, Sourced
  <2>7. CASE \/ \E a \in Addrs : SetDest(h, a) \/ Read(h, a) \/ ReadFails(h, a)
             \/ Write(h)
    <3>1. h \in alive
      BY <2>7 DEF SetDest, Read, ReadFails, MayRead, Write
    <3> QED
      BY <2>3, <2>7, <3>1, SourcesOther
  <2> QED
    BY <1>1, <2>1, <2>4, <2>5, <2>6, <2>7 DEF Client, CreateFails, WrongMode
<1>2. CASE ~ \E h \in Handles : Client(h)
  <2>1. /\ alive' = alive /\ udp' = udp /\ promise' = promise
        /\ \A f \in Fd : sock'[f].name = sock[f].name /\ sock'[f].reuse = sock[f].reuse
    BY <1>2, OutsideStep DEF Next, Step, Terminated
  <2> QED
    BY <2>1, AliveHandle
       DEF Sources, SourceHonoured, Shareable, NotYetBound, SocketOf, FdOf
<1>3. CASE Abort
  BY <1>3, SocketAssumption
     DEF Abort, Fresh, Sources, SourceHonoured, Shareable, NotYetBound
<1> QED
  BY <1>1, <1>2, <1>3

\* For a client that sets a source before it sends without one: setSrc() gives
\* the handle the source, at the first call and at every later one, unless the
\* system refuses it; other handles and programs do not take it away.
THEOREM SourcesHonoured ==
    ASSUME "source_first" \in ClientRules
    PROVE  Spec => []SourceHonoured
<1>1. Init => Sources
  BY SocketAssumption
     DEF Init, Fresh, Sources, SourceHonoured, Shareable, NotYetBound
<1>2. Descriptors /\ Sources /\ [Next]_vars => Sources'
  BY SourcesStep
<1>3. Sources => SourceHonoured
  BY DEF Sources
<1> QED
  BY <1>1, <1>2, <1>3, DescriptorsAlways, PTL DEF Spec

-----------------------------------------------------------------------------
(* Readiness. *)

\* What the client's calls do to the callbacks expected: only those of the
\* handle they are about change, and no call adds one.
LEMMA ExpectedStep ==
    ASSUME Descriptors, NEW h \in Handles, Client(h), ~ Abort,
           NEW g \in Handles, Expected(g)'
    PROVE  Expected(g)
<1>1. CASE Destroy(h)
  BY <1>1 DEF Destroy, Expected, Descriptors, TypeOK
<1>2. CASE \E a \in Addrs : Read(h, a) \/ ReadFails(h, a)
  BY <1>2 DEF Read, ReadFails, Expected
<1>3. CASE \/ \E mode \in Mode, a \in Addrs : Create(h, mode, a)
           \/ \E a \in Addrs : SetSrc(h, a) \/ SetDest(h, a)
           \/ Write(h)
  BY <1>3 DEF Create, SetSrc, SetDest, Write, calls, Expected
<1> QED
  BY <1>1, <1>2, <1>3 DEF Client, CreateFails, WrongMode

\* A handle whose callback is expected keeps its datagrams through every call:
\* "leaves_due" leaves its read() to the last of its callbacks, which is then no
\* longer waited for, and "keeps_ready" its socket.
LEMMA ReadyClient ==
    ASSUME {"keeps_ready", "leaves_due"} \subseteq ClientRules, Descriptors,
           ReadyHasData, NEW h \in Handles, Client(h), ~ Abort
    PROVE  ReadyHasData'
<1> SUFFICES ASSUME NEW g \in alive', Expected(g)'
             PROVE  SocketOf(g)'.queue > 0
  BY DEF ReadyHasData
<1>0. /\ alive \subseteq Handles /\ reading \subseteq alive
      /\ \A k \in Handles : batch[k] > 0 => k \in alive
      /\ batch \in [Handles -> 0 .. MaxDue]
      /\ udp \in [Handles -> UdpHandle] /\ sock \in [Fd -> Socket]
  BY DEF Descriptors, TypeOK
<1>1. g \in Handles
  BY DescriptorsStep, <1>0
     DEF Client, Create, CreateFails, Destroy, SetSrc, SetDest, Write, Read,
         ReadFails, WrongMode
<1>2. Expected(g)
  BY <1>1, ExpectedStep
<1>3. g \in alive /\ SocketOf(g).queue > 0
  BY <1>0, <1>1, <1>2 DEF Expected, ReadyHasData
<1>4. CASE g # h
  BY <1>3, <1>4, StepIsLocal DEF LeavesAlone
<1>5. CASE g = h
  <2>1. ~ \E mode \in Mode, a \in Addrs : Create(h, mode, a)
    BY <1>3, <1>5 DEF Create
  <2>2. ~ Destroy(h)
    BY <1>5 DEF Destroy
  <2>3. ~ \E a \in Addrs : SetSrc(h, a)
    BY <1>2, <1>5 DEF SetSrc, MaySetSrc
  <2>4. ~ \E a \in Addrs : Read(h, a) \/ ReadFails(h, a)
    BY <1>5 DEF Read, ReadFails, MayRead, Expected
  <2>5. CASE Write(h)
    <3>1. FdOf(h)' = FdOf(h)
      BY <2>5 DEF Write, FdOf
    <3>2. sock'[FdOf(h)].queue = sock[FdOf(h)].queue
      BY <1>0, <1>3, <1>5, <2>5, AliveHandle DEF Write, Socket
    <3> QED
      BY <1>3, <1>5, <3>1, <3>2 DEF SocketOf
  <2>6. CASE \E a \in Addrs : SetDest(h, a)
    <3>1. PICK a \in Addrs : SetDest(h, a)
      BY <2>6
    <3>2. udp'[h] = [udp[h] EXCEPT !.addr = a]
      BY <1>0, <3>1 DEF SetDest
    <3>3. FdOf(h)' = FdOf(h)
      BY <1>0, <3>2 DEF FdOf, UdpHandle
    <3>4. sock'[FdOf(h)].queue = sock[FdOf(h)].queue
      BY <1>0, <1>3, <1>5, <3>1, AliveHandle DEF SetDest, Socket
    <3> QED
      BY <1>3, <1>5, <3>3, <3>4 DEF SocketOf
  <2> QED
    BY <2>1, <2>2, <2>3, <2>4, <2>5, <2>6 DEF Client, CreateFails, WrongMode
<1> QED
  BY <1>4, <1>5

LEMMA ReadyStep ==
    ASSUME {"keeps_ready", "leaves_due"} \subseteq ClientRules, Descriptors,
           ReadyHasData, [Next]_vars
    PROVE  ReadyHasData'
<1>1. CASE Abort
  BY <1>1 DEF Abort, ReadyHasData
<1>2. CASE (\E h \in Handles : Client(h)) /\ ~ Abort
  BY <1>2, ReadyClient
<1>3. CASE \E due \in [Handles -> 0 .. MaxDue] : Select(due)
  <2>1. PICK due \in [Handles -> 0 .. MaxDue] : Select(due)
    BY <1>3
  <2>2. /\ \A h \in alive : Expected(h)' => SocketOf(h).queue > 0
        /\ alive \subseteq Handles
    BY <2>1 DEF Select, Active, Expected, Descriptors, TypeOK
  <2>3. alive' = alive /\ udp' = udp /\ sock' = sock
    BY <2>1 DEF Select, kernel
  <2> QED
    BY <2>2, <2>3 DEF ReadyHasData, SocketOf, FdOf
<1>4. CASE (\E h \in Handles : Call(h)) \/ Return
  <2>1. \A h \in alive : Expected(h)' => Expected(h)
    BY <1>4 DEF Call, Return, Expected, Descriptors, TypeOK
  <2>2. alive' = alive /\ udp' = udp /\ sock' = sock
    BY <1>4 DEF Call, Return, kernel
  <2> QED
    BY <2>1, <2>2 DEF ReadyHasData, SocketOf, FdOf
<1>5. CASE \/ \E f \in Fd : Arrive(f) \/ OthersOpen(f) \/ OthersClose(f)
           \/ \E a \in Addrs : OthersBind(a)
           \/ UNCHANGED vars
  <2>1. /\ alive' = alive /\ udp' = udp
        /\ \A f \in Fd : sock[f].queue > 0 => sock'[f].queue > 0
    BY <1>5, OutsideStep
  <2>2. calls' = calls
    BY <1>5 DEF Arrive, OthersOpen, OthersClose, OthersBind, vars
  <2> QED
    BY <2>1, <2>2, AliveHandle DEF ReadyHasData, Expected, calls, SocketOf, FdOf
<1> QED
  BY <1>1, <1>2, <1>3, <1>4, <1>5 DEF Next, Step, Terminated

\* For a client that reads no receiver while one of its callbacks is still to
\* come, and sets it no new source before the last of them has read: when that
\* callback comes, its read() does not block the thread, whatever the callbacks
\* before it did to this handle and to others.
THEOREM ReadyCanRead ==
    ASSUME {"keeps_ready", "leaves_due"} \subseteq ClientRules
    PROVE  Spec => []ReadyHasData
<1>1. Init => ReadyHasData
  BY DEF Init, ReadyHasData
<1>2. Descriptors /\ ReadyHasData /\ [Next]_vars => ReadyHasData'
  BY ReadyStep
<1> QED
  BY <1>1, <1>2, DescriptorsAlways, PTL DEF Spec
=============================================================================
