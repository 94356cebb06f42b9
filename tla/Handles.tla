------------------------------- MODULE Handles -------------------------------
(***************************************************************************)
(* Handles in memory: what the constructors and destructors of Blocker,    *)
(* DependHandle, UnixFdHandle and UdpHandle do to the objects behind a     *)
(* handle and to the process's descriptors, and which descriptor the event *)
(* loop and a transfer find through a handle.                              *)
(*                                                                         *)
(* A memory is a record of one function for each member.  An operator that *)
(* stands for a C++ function takes the memory it starts from, and returns  *)
(* the one it leaves behind.                                               *)
(***************************************************************************)
EXTENDS Integers, FiniteSets

CONSTANTS
    Addr,   \* addresses of objects
    MaxFd,  \* descriptors are 0 .. MaxFd
    File,   \* what descriptors are open on, other than sockets
    NULL    \* the zero pointer

Fd == 0 .. MaxFd
Mode == {"Read", "Write", "Exception"}

HandleClass == {"Blocker", "DependHandle", "UnixFdHandle", "UdpHandle"}
Class == HandleClass \cup {"ShadowUdpHandle", "ShadowHandle", "ShadowDepend"}

HandleType == {"TypeUnixFdHandle", "TypeBlocker", "TypeDepend", "TypeUdpHandle"}

\* A socket is known by the address of the ShadowUdpHandle that opened it.
\* Only a handle has a shadow and a sub; a ShadowUdpHandle is a handle too.
Memory ==
    [class  : [Addr -> Class \cup {"free"}],
     shadow : [Addr -> Addr \cup {NULL}],         \* shadowHandle
     sub    : [Addr -> Addr \cup {NULL}],         \* subDepend, subUdpHandle
     master : [Addr -> Addr \cup {NULL}],         \* of what a sub points to
     type   : [Addr -> HandleType \cup {"zero"}], \* handleType of a shadow
     mode   : [Addr -> Mode],                     \* unixMode
     fd     : [Addr -> Fd \cup {-1}],             \* unixFd
     open   : [Fd -> File \cup Addr \cup {NULL}]] \* the kernel's table

Free(m) == {a \in Addr : m.class[a] = "free"}

\* The allocator takes any free address, a freed one too.
New(m) == CHOOSE a \in Addr : a \in Free(m)

Place(m, a, c) == [m EXCEPT !.class = [@ EXCEPT ![a] = c]]

\* Nothing looks at what a freed object held, so it is cleared.
Erase(m, a) ==
    [m EXCEPT !.class  = [@ EXCEPT ![a] = "free"],
              !.shadow = [@ EXCEPT ![a] = NULL],
              !.sub    = [@ EXCEPT ![a] = NULL],
              !.master = [@ EXCEPT ![a] = NULL],
              !.type   = [@ EXCEPT ![a] = "zero"],
              !.mode   = [@ EXCEPT ![a] = "Read"],
              !.fd     = [@ EXCEPT ![a] = 0]]

\* The kernel gives the lowest descriptor.
FreeFds(m) == {n \in Fd : m.open[n] = NULL}
Lowest(m) == CHOOSE n \in FreeFds(m) : \A o \in FreeFds(m) : n <= o

-----------------------------------------------------------------------------
(* Every handle has a shadow. *)

\* new ShadowHandle(), which sets all members to zero.
createShadowHandle(m, h) ==
    LET s == New(m) IN
    [m EXCEPT !.class  = [@ EXCEPT ![s] = "ShadowHandle"],
              !.shadow = [@ EXCEPT ![h] = s]]

destroyShadowHandle(m, h) ==
    [Erase(m, m.shadow[h]) EXCEPT !.shadow = [@ EXCEPT ![h] = NULL]]

\* Handle() leaves the status as it is.
Handle(m, h) == createShadowHandle(m, h)

\* Fault: the shadow is forgotten.
EndHandle_KeepsShadow(m, h) == [m EXCEPT !.shadow = [@ EXCEPT ![h] = NULL]]
EndHandle(m, h) == destroyShadowHandle(m, h)

SetType(m, h, t) == [m EXCEPT !.type = [@ EXCEPT ![m.shadow[h]] = t]]

-----------------------------------------------------------------------------
(* Blocker *)

createSubBlocker(m, h) == SetType(m, h, "TypeBlocker")

destroySubBlocker(m, h) == m

Blocker(m, h) == createSubBlocker(Handle(m, h), h)

EndBlocker(m, h) == EndHandle(destroySubBlocker(m, h), h)

-----------------------------------------------------------------------------
(* DependHandle *)

ShadowDepend(m, d, h) ==
    [m EXCEPT !.class  = [@ EXCEPT ![d] = "ShadowDepend"],
              !.master = [@ EXCEPT ![d] = h]]

createSubDepend(m, h) ==
    LET m1 == SetType(m, h, "TypeDepend")
        d  == New(m1)
    IN  [ShadowDepend(m1, d, h) EXCEPT !.sub = [@ EXCEPT ![h] = d]]

DependHandle(m, h) == createSubDepend(Handle(m, h), h)

\* The destructor creates a sub once more, and deletes none.
EndDependHandle(m, h) == EndHandle(createSubDepend(m, h), h)

-----------------------------------------------------------------------------
(* UnixFdHandle *)

UnixFdHandle(m, h, n, md) ==
    LET m1 == SetType(Handle(m, h), h, "TypeUnixFdHandle") IN
    [m1 EXCEPT !.mode = [@ EXCEPT ![m1.shadow[h]] = md],
               !.fd   = [@ EXCEPT ![m1.shadow[h]] = n]]

\* The descriptor is the client's, and stays open.
\* Fault: it is closed.
EndUnixFdHandle_Closes(m, h) ==
    EndHandle([m EXCEPT !.open = [n \in Fd |-> IF n = m.fd[m.shadow[h]]
                                                 THEN NULL ELSE @[n]],
                        !.fd = [@ EXCEPT ![m.shadow[h]] = 0]], h)
EndUnixFdHandle(m, h) ==
    EndHandle([m EXCEPT !.fd = [@ EXCEPT ![m.shadow[h]] = 0]], h)

-----------------------------------------------------------------------------
(* UdpHandle: a handle on a handle, the ShadowUdpHandle with its socket. *)

ShadowUdpHandle(m, u, md) ==
    LET m1 == UnixFdHandle(m, u, -1, md)
        n  == Lowest(m1)
    IN  [m1 EXCEPT !.open = [@ EXCEPT ![n] = u],
                   !.fd   = [@ EXCEPT ![m1.shadow[u]] = n]]

\* Descriptor 0 is not closed.
CloseSocket(m, u) ==
    [m EXCEPT !.open = [n \in Fd |-> IF n > 0 /\ n = m.fd[m.shadow[u]]
                                       THEN NULL ELSE @[n]]]

EndShadowUdpHandle(m, u) == EndUnixFdHandle(CloseSocket(m, u), u)

createSubUdpHandle(m, h, md) ==
    LET u  == New(m)
        m1 == ShadowUdpHandle(Place(m, u, "ShadowUdpHandle"), u, md)
        m2 == [m1 EXCEPT !.sub    = [@ EXCEPT ![h] = u],
                         !.master = [@ EXCEPT ![u] = h]]
    IN  SetType(m2, h, "TypeUdpHandle")

destroySubUdpHandle(m, h) ==
    LET u == m.sub[h] IN
    [Erase(EndShadowUdpHandle(m, u), u) EXCEPT !.sub = [@ EXCEPT ![h] = NULL]]

UdpHandle(m, h, md) == createSubUdpHandle(Handle(m, h), h, md)

\* Fault: the ShadowUdpHandle is forgotten.
EndUdpHandle_KeepsSub(m, h) == EndHandle(m, h)
EndUdpHandle(m, h) == EndHandle(destroySubUdpHandle(m, h), h)

-----------------------------------------------------------------------------
(* new and delete *)

\* What an object of a class and the objects behind it take.
Cells(c) == CASE c \in {"Blocker", "UnixFdHandle"} -> 2
              [] c = "DependHandle" -> 3
              [] c = "UdpHandle" -> 4

Construct(m, h, c, n, md) ==
    CASE c = "Blocker"      -> Blocker(Place(m, h, c), h)
      [] c = "DependHandle" -> DependHandle(Place(m, h, c), h)
      [] c = "UnixFdHandle" -> UnixFdHandle(Place(m, h, c), h, n, md)
      [] c = "UdpHandle"    -> UdpHandle(Place(m, h, c), h, md)

Destroy(m, h) ==
    Erase(CASE m.class[h] = "Blocker"      -> EndBlocker(m, h)
            [] m.class[h] = "DependHandle" -> EndDependHandle(m, h)
            [] m.class[h] = "UnixFdHandle" -> EndUnixFdHandle(m, h)
            [] m.class[h] = "UdpHandle"    -> EndUdpHandle(m, h), h)

-----------------------------------------------------------------------------
(* The way from a handle to its descriptor. *)

\* fill_fd_sets() and activeFdHandlePred go by the type in the shadow.
HasDescriptor(m, h) ==
    m.type[m.shadow[h]] \in {"TypeUnixFdHandle", "TypeUdpHandle"}

\* Fault: a UDP handle's own shadow, which has descriptor 0.
Watched_Itself(m, h) == h
Watched(m, h) ==
    IF m.type[m.shadow[h]] = "TypeUnixFdHandle" THEN h ELSE m.sub[h]

Watch(m, h) == LET s == m.shadow[Watched(m, h)] IN <<m.fd[s], m.mode[s]>>

\* read() and write() go by the class.
TransferOn(m, h) ==
    IF m.class[h] = "UdpHandle" THEN m.fd[m.shadow[m.sub[h]]]
                                ELSE m.fd[m.shadow[h]]
=============================================================================
