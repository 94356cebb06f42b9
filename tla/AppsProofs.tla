----------------------------- MODULE AppsProofs -----------------------------
(***************************************************************************)
(* What the constructors and destructors of handles keep in order, and     *)
(* what the rules of the applications are good for, for all memories,      *)
(* descriptors, names and applications.                                    *)
(***************************************************************************)
EXTENDS Apps, FiniteSetTheorems, WellFoundedInduction, TLAPS

-----------------------------------------------------------------------------
(* The allocator. *)

LEMMA NewIsFree ==
    ASSUME NEW m \in Memory, Free(m) # {}
    PROVE  New(m) \in Addr /\ m.class[New(m)] = "free"
BY DEF New, Free

\* What is free after an object has been put at a free address.
LEMMA OneLess ==
    ASSUME NEW m \in Memory, NEW k \in Nat, Cardinality(Free(m)) >= k + 1,
           NEW a \in Free(m), NEW m2, Free(m2) = Free(m) \ {a}
    PROVE  Cardinality(Free(m2)) >= k
<1>1. IsFiniteSet(Free(m))
  BY AppsAssumption, FS_Subset DEF Free
<1>2. Cardinality(Free(m2)) = Cardinality(Free(m)) - 1
  BY <1>1, FS_RemoveElement
<1>3. Cardinality(Free(m)) \in Nat
  BY <1>1, FS_CardinalityType
<1> QED
  BY <1>2, <1>3

LEMMA SomeFree ==
    ASSUME NEW m \in Memory, NEW k \in Nat \ {0}, Cardinality(Free(m)) >= k
    PROVE  New(m) \in Free(m)
BY FS_EmptySet, NewIsFree DEF Free

\* Where a descriptor is free, there is a lowest one.
LEMMA LowestIsFree ==
    ASSUME NEW m \in Memory, FreeFds(m) # {}
    PROVE  Lowest(m) \in Fd /\ m.open[Lowest(m)] = NULL
<1> DEFINE R == {ss \in Nat \X Nat : ss[1] < ss[2]}
<1>1. IsWellFoundedOn(R, Nat)
  BY NatLessThanWellFounded DEF OpToRel
<1>2. FreeFds(m) \subseteq Nat
  BY AppsAssumption DEF FreeFds, Fd
<1>3. PICK n \in FreeFds(m) : \A o \in FreeFds(m) : <<o, n>> \notin R
  BY <1>1, <1>2, WFMin
<1>4. \A o \in FreeFds(m) : n <= o
  <2> TAKE o \in FreeFds(m)
  <2>1. o \in Nat /\ n \in Nat /\ <<o, n>> \in Nat \X Nat
    BY <1>2
  <2>2. ~ (<<o, n>>[1] < <<o, n>>[2])
    BY <1>3, <2>1
  <2> QED
    BY <2>1, <2>2
<1>5. Lowest(m) \in FreeFds(m)
  BY <1>4 DEF Lowest
<1> QED
  BY <1>5 DEF FreeFds

-----------------------------------------------------------------------------
(* What each constructor makes of the memory. *)

\* A memory, member by member.
Holds(m, class, shadow, sub, master, type, mode, fd, open) ==
    /\ m \in Memory
    /\ m.class = class /\ m.shadow = shadow /\ m.sub = sub /\ m.master = master
    /\ m.type = type /\ m.mode = mode /\ m.fd = fd /\ m.open = open

\* An object is as it was.
Same(m, m2, a) ==
    /\ m2.class[a] = m.class[a] /\ m2.shadow[a] = m.shadow[a] /\ m2.sub[a] = m.sub[a]
    /\ m2.master[a] = m.master[a] /\ m2.type[a] = m.type[a]
    /\ m2.mode[a] = m.mode[a] /\ m2.fd[a] = m.fd[a]

\* Objects come to the free addresses N, all others are as they were.
Adds(m, m2, N) ==
    /\ m2 \in Memory /\ N \subseteq Free(m)
    /\ \A a \in Addr \ N : Same(m, m2, a)

WithShadow(m, h, c, s) ==
    /\ m.class[h] = c /\ m.shadow[h] = s
    /\ m.class[s] = "ShadowHandle" /\ m.type[s] = TypeOf(c)

AddsBlocker(m, m2, h, s) ==
    /\ s # h /\ Adds(m, m2, {h, s}) /\ WithShadow(m2, h, "Blocker", s)
    /\ m2.open = m.open

AddsUnixFd(m, m2, h, s, n, md) ==
    /\ s # h /\ Adds(m, m2, {h, s}) /\ WithShadow(m2, h, "UnixFdHandle", s)
    /\ m2.mode[s] = md /\ m2.fd[s] = n
    /\ m2.open = m.open

AddsDepend(m, m2, h, s, d) ==
    /\ s # h /\ d \notin {h, s}
    /\ Adds(m, m2, {h, s, d}) /\ WithShadow(m2, h, "DependHandle", s)
    /\ m2.class[d] = "ShadowDepend" /\ m2.sub[h] = d /\ m2.master[d] = h
    /\ m2.open = m.open

\* A UdpHandle takes a shadow s, a ShadowUdpHandle u with a shadow t of its own,
\* and a descriptor f.
AddsUdp(m, m2, h, s, u, t, f, md) ==
    /\ s # h /\ u \notin {h, s} /\ t \notin {h, s, u}
    /\ Adds(m, m2, {h, s, u, t})
    /\ WithShadow(m2, h, "UdpHandle", s) /\ WithShadow(m2, u, "ShadowUdpHandle", t)
    /\ m2.sub[h] = u /\ m2.master[u] = h
    /\ m2.mode[t] = md /\ m2.fd[t] = f
    /\ m.open[f] = NULL /\ m2.open = [m.open EXCEPT ![f] = u]

AddsHandle(m, m2, h, c, n, md) ==
    \/ c = "Blocker" /\ \E s \in Addr : AddsBlocker(m, m2, h, s)
    \/ c = "UnixFdHandle" /\ \E s \in Addr : AddsUnixFd(m, m2, h, s, n, md)
    \/ c = "DependHandle" /\ \E s, d \in Addr : AddsDepend(m, m2, h, s, d)
    \/ c = "UdpHandle" /\ \E s, u, t \in Addr, f \in Fd :
                             AddsUdp(m, m2, h, s, u, t, f, md)

LEMMA HandleMade ==
    ASSUME NEW m \in Memory, NEW h \in Addr, New(m) \in Addr
    PROVE  Holds(Handle(m, h),
                 [m.class EXCEPT ![New(m)] = "ShadowHandle"],
                 [m.shadow EXCEPT ![h] = New(m)],
                 m.sub, m.master, m.type, m.mode, m.fd, m.open)
BY DEF Holds, Handle, createShadowHandle, Memory, Class

LEMMA TypeSet ==
    ASSUME NEW m \in Memory, NEW h \in Addr, NEW t \in HandleType,
           m.shadow[h] \in Addr
    PROVE  Holds(SetType(m, h, t), m.class, m.shadow, m.sub, m.master,
                 [m.type EXCEPT ![m.shadow[h]] = t], m.mode, m.fd, m.open)
BY DEF Holds, SetType, Memory

\* The beginning of every constructor, in a memory with k cells more than a
\* handle and its shadow take.
LEMMA HandlePlaced ==
    ASSUME NEW m \in Memory, NEW h \in Free(m),
           NEW c \in HandleClass \cup {"ShadowUdpHandle"},
           NEW k \in Nat, Cardinality(Free(m)) >= k + 2
    PROVE  \E s \in Free(m) \ {h} :
             LET m1 == Handle(Place(m, h, c), h) IN
             /\ Holds(m1,
                      [m.class EXCEPT ![h] = c, ![s] = "ShadowHandle"],
                      [m.shadow EXCEPT ![h] = s],
                      m.sub, m.master, m.type, m.mode, m.fd, m.open)
             /\ Free(m1) = Free(m) \ {h, s}
             /\ Cardinality(Free(m1)) >= k
<1> DEFINE m0 == Place(m, h, c)
           s == New(m0)
           m1 == Handle(m0, h)
<1>1. /\ Holds(m0, [m.class EXCEPT ![h] = c], m.shadow, m.sub, m.master, m.type,
               m.mode, m.fd, m.open)
      /\ Free(m0) = Free(m) \ {h}
  BY DEF Holds, Place, Memory, Free, Class, HandleClass
<1> HIDE DEF m0
<1>2. Cardinality(Free(m0)) >= k + 1
  <2>1. k + 1 \in Nat /\ k + 2 = (k + 1) + 1
    OBVIOUS
  <2> QED
    BY <1>1, <2>1, OneLess
<1>3. s \in Free(m0)
  BY <1>1, <1>2, SomeFree DEF Holds
<1>4. Holds(m1, [m0.class EXCEPT ![s] = "ShadowHandle"], [m0.shadow EXCEPT ![h] = s],
            m0.sub, m0.master, m0.type, m0.mode, m0.fd, m0.open)
  BY <1>1, <1>3, HandleMade DEF Holds, Free
<1> HIDE DEF m1, s
<1>5. Holds(m1, [m.class EXCEPT ![h] = c, ![s] = "ShadowHandle"],
            [m.shadow EXCEPT ![h] = s], m.sub, m.master, m.type,
            m.mode, m.fd, m.open)
  BY <1>1, <1>4 DEF Holds
<1>6. Free(m1) = Free(m0) \ {s}
  BY <1>1, <1>3, <1>4 DEF Holds, Memory, Free
<1>7. Cardinality(Free(m1)) >= k
  BY <1>1, <1>2, <1>3, <1>6, OneLess DEF Holds
<1> QED
  BY <1>1, <1>3, <1>5, <1>6, <1>7 DEF m0, m1

\* The same with the type that all but UdpHandle set at once.
LEMMA HandleAt ==
    ASSUME NEW m \in Memory, NEW h \in Free(m),
           NEW c \in HandleClass \cup {"ShadowUdpHandle"}, NEW t \in HandleType,
           NEW k \in Nat, Cardinality(Free(m)) >= k + 2
    PROVE  \E s \in Free(m) \ {h} :
             LET m1 == SetType(Handle(Place(m, h, c), h), h, t) IN
             /\ Holds(m1,
                      [m.class EXCEPT ![h] = c, ![s] = "ShadowHandle"],
                      [m.shadow EXCEPT ![h] = s],
                      m.sub, m.master,
                      [m.type EXCEPT ![s] = t],
                      m.mode, m.fd, m.open)
             /\ Free(m1) = Free(m) \ {h, s}
             /\ Cardinality(Free(m1)) >= k
<1> DEFINE m0 == Handle(Place(m, h, c), h)
           m1 == SetType(m0, h, t)
<1>1. PICK s \in Free(m) \ {h} :
        /\ Holds(m0, [m.class EXCEPT ![h] = c, ![s] = "ShadowHandle"],
                 [m.shadow EXCEPT ![h] = s],
                 m.sub, m.master, m.type, m.mode, m.fd, m.open)
        /\ Free(m0) = Free(m) \ {h, s}
        /\ Cardinality(Free(m0)) >= k
  BY HandlePlaced
<1> HIDE DEF m0
<1>2. m0 \in Memory /\ h \in Addr /\ m0.shadow[h] = s /\ s \in Addr
  BY <1>1 DEF Holds, Memory, Free
<1>3. Holds(m1, m0.class, m0.shadow, m0.sub, m0.master, [m0.type EXCEPT ![s] = t],
            m0.mode, m0.fd, m0.open)
  BY <1>2, TypeSet
<1> HIDE DEF m1
<1>4. Free(m1) = Free(m0)
  BY <1>3 DEF Holds, Free
<1>5. Holds(m1, [m.class EXCEPT ![h] = c, ![s] = "ShadowHandle"],
            [m.shadow EXCEPT ![h] = s], m.sub, m.master, [m.type EXCEPT ![s] = t],
            m.mode, m.fd, m.open)
  BY <1>1, <1>3 DEF Holds
<1> QED
  BY <1>1, <1>4, <1>5 DEF m0, m1

LEMMA BlockerMade ==
    ASSUME NEW m \in Memory, NEW h \in Free(m), Cardinality(Free(m)) >= 2
    PROVE  \E s \in Addr : AddsBlocker(m, Blocker(Place(m, h, "Blocker"), h), h, s)
<1> DEFINE m1 == SetType(Handle(Place(m, h, "Blocker"), h), h, "TypeBlocker")
<1>1. "Blocker" \in HandleClass /\ "TypeBlocker" \in HandleType
  BY DEF HandleClass, HandleType
<1>2. Cardinality(Free(m)) >= 0 + 2
  OBVIOUS
<1>3. PICK s \in Free(m) \ {h} :
        Holds(m1, [m.class EXCEPT ![h] = "Blocker", ![s] = "ShadowHandle"],
              [m.shadow EXCEPT ![h] = s], m.sub, m.master,
              [m.type EXCEPT ![s] = "TypeBlocker"], m.mode, m.fd, m.open)
  BY <1>1, <1>2, HandleAt
<1>4. Blocker(Place(m, h, "Blocker"), h) = m1
  BY DEF Blocker, createSubBlocker
<1> HIDE DEF m1
<1>5. AddsBlocker(m, m1, h, s)
  BY <1>3 DEF AddsBlocker, Adds, WithShadow, Holds, Same, TypeOf, Memory, Free
<1> QED
  BY <1>3, <1>4, <1>5 DEF Free

LEMMA UnixFdMade ==
    ASSUME NEW m \in Memory, NEW h \in Free(m), Cardinality(Free(m)) >= 2,
           NEW n \in Fd, NEW md \in Mode
    PROVE  \E s \in Addr :
             AddsUnixFd(m, UnixFdHandle(Place(m, h, "UnixFdHandle"), h, n, md),
                        h, s, n, md)
<1> DEFINE m1 == SetType(Handle(Place(m, h, "UnixFdHandle"), h), h, "TypeUnixFdHandle")
           m2 == UnixFdHandle(Place(m, h, "UnixFdHandle"), h, n, md)
<1>1. "UnixFdHandle" \in HandleClass /\ "TypeUnixFdHandle" \in HandleType
  BY DEF HandleClass, HandleType
<1>2. Cardinality(Free(m)) >= 0 + 2
  OBVIOUS
<1>3. PICK s \in Free(m) \ {h} :
        Holds(m1, [m.class EXCEPT ![h] = "UnixFdHandle", ![s] = "ShadowHandle"],
              [m.shadow EXCEPT ![h] = s], m.sub, m.master,
              [m.type EXCEPT ![s] = "TypeUnixFdHandle"], m.mode, m.fd, m.open)
  BY <1>1, <1>2, HandleAt
<1>4. m2 =
        [m1 EXCEPT !.mode = [@ EXCEPT ![m1.shadow[h]] = md],
                   !.fd   = [@ EXCEPT ![m1.shadow[h]] = n]]
  BY DEF UnixFdHandle
<1> HIDE DEF m1, m2
<1>5. Holds(m2, m1.class, m1.shadow, m1.sub, m1.master, m1.type,
            [m1.mode EXCEPT ![s] = md], [m1.fd EXCEPT ![s] = n], m1.open)
  <2>1. m1.shadow[h] = s
    BY <1>3 DEF Holds, Memory, Free
  <2> QED
    BY <1>3, <1>4, <2>1 DEF Holds, Memory, Free
<1>6. AddsUnixFd(m, m2, h, s, n, md)
  BY <1>3, <1>5 DEF AddsUnixFd, Adds, WithShadow, Holds, Same, TypeOf, Memory, Free
<1> QED
  BY <1>3, <1>6 DEF Free, m2

LEMMA DependMade ==
    ASSUME NEW m \in Memory, NEW h \in Free(m), Cardinality(Free(m)) >= 3
    PROVE  \E s, d \in Addr :
             AddsDepend(m, DependHandle(Place(m, h, "DependHandle"), h), h, s, d)
<1> DEFINE m1 == SetType(Handle(Place(m, h, "DependHandle"), h), h, "TypeDepend")
           d == New(m1)
           m2 == DependHandle(Place(m, h, "DependHandle"), h)
<1>1. "DependHandle" \in HandleClass /\ "TypeDepend" \in HandleType
  BY DEF HandleClass, HandleType
<1>2. Cardinality(Free(m)) >= 1 + 2
  OBVIOUS
<1>3. PICK s \in Free(m) \ {h} :
        /\ Holds(m1, [m.class EXCEPT ![h] = "DependHandle", ![s] = "ShadowHandle"],
                 [m.shadow EXCEPT ![h] = s], m.sub, m.master,
                 [m.type EXCEPT ![s] = "TypeDepend"], m.mode, m.fd, m.open)
        /\ Free(m1) = Free(m) \ {h, s}
        /\ Cardinality(Free(m1)) >= 1
  BY <1>1, <1>2, HandleAt
<1>4. m2 =
        [ShadowDepend(m1, d, h) EXCEPT !.sub = [@ EXCEPT ![h] = d]]
  BY DEF DependHandle, createSubDepend
<1> HIDE DEF m1
<1>5. d \in Free(m) \ {h, s}
  BY <1>3, SomeFree DEF Holds
<1> HIDE DEF d, m2
<1>6. Holds(m2, [m1.class EXCEPT ![d] = "ShadowDepend"], m1.shadow,
            [m1.sub EXCEPT ![h] = d], [m1.master EXCEPT ![d] = h],
            m1.type, m1.mode, m1.fd, m1.open)
  BY <1>3, <1>4, <1>5 DEF ShadowDepend, Holds, Memory, Free, Class
<1>7. AddsDepend(m, m2, h, s, d)
  BY <1>3, <1>5, <1>6
     DEF AddsDepend, Adds, WithShadow, Holds, Same, TypeOf, Memory, Free
<1> QED
  BY <1>3, <1>5, <1>7 DEF Free, m2

LEMMA UdpMade ==
    ASSUME NEW m \in Memory, NEW h \in Free(m), Cardinality(Free(m)) >= 4,
           NEW md \in Mode, FreeFds(m) # {}
    PROVE  \E s, u, t \in Addr, f \in Fd :
             AddsUdp(m, UdpHandle(Place(m, h, "UdpHandle"), h, md), h, s, u, t, f, md)
<1> DEFINE m1 == Handle(Place(m, h, "UdpHandle"), h)
           u == New(m1)
           m2 == SetType(Handle(Place(m1, u, "ShadowUdpHandle"), u), u, "TypeUnixFdHandle")
           m3 == UnixFdHandle(Place(m1, u, "ShadowUdpHandle"), u, -1, md)
           n == Lowest(m3)
           m4 == ShadowUdpHandle(Place(m1, u, "ShadowUdpHandle"), u, md)
           m5 == [m4 EXCEPT !.sub    = [@ EXCEPT ![h] = u],
                            !.master = [@ EXCEPT ![u] = h]]
<1>0. UdpHandle(Place(m, h, "UdpHandle"), h, md) = SetType(m5, h, "TypeUdpHandle")
  BY DEF UdpHandle, createSubUdpHandle
<1>1. PICK s \in Free(m) \ {h} :
        /\ Holds(m1, [m.class EXCEPT ![h] = "UdpHandle", ![s] = "ShadowHandle"],
                 [m.shadow EXCEPT ![h] = s],
                 m.sub, m.master, m.type, m.mode, m.fd, m.open)
        /\ Free(m1) = Free(m) \ {h, s}
        /\ Cardinality(Free(m1)) >= 2
  <2>1. "UdpHandle" \in HandleClass /\ Cardinality(Free(m)) >= 2 + 2
    BY DEF HandleClass
  <2> QED
    BY <2>1, HandlePlaced
<1> HIDE DEF m1
<1>2. u \in Free(m1) /\ m1 \in Memory
  BY <1>1, SomeFree DEF Holds
<1> HIDE DEF u
<1>3. PICK t \in Free(m1) \ {u} :
        Holds(m2, [m1.class EXCEPT ![u] = "ShadowUdpHandle", ![t] = "ShadowHandle"],
              [m1.shadow EXCEPT ![u] = t], m1.sub, m1.master,
              [m1.type EXCEPT ![t] = "TypeUnixFdHandle"], m1.mode, m1.fd, m1.open)
  <2>1. "TypeUnixFdHandle" \in HandleType /\ Cardinality(Free(m1)) >= 0 + 2
    BY <1>1 DEF HandleType
  <2> QED
    BY <1>2, <2>1, HandleAt
<1>4. m3 = [m2 EXCEPT !.mode = [@ EXCEPT ![m2.shadow[u]] = md],
                      !.fd   = [@ EXCEPT ![m2.shadow[u]] = -1]]
  BY DEF UnixFdHandle
<1>5. m4 = [m3 EXCEPT !.open = [@ EXCEPT ![n] = u],
                      !.fd   = [@ EXCEPT ![m3.shadow[u]] = n]]
  BY DEF ShadowUdpHandle
<1> HIDE DEF m2, m3, m4
<1>6. m2.shadow[u] = t /\ t \in Addr /\ u \in Addr
  BY <1>2, <1>3 DEF Holds, Memory, Free
<1>7. Holds(m3, m2.class, m2.shadow, m2.sub, m2.master, m2.type,
            [m2.mode EXCEPT ![t] = md], [m2.fd EXCEPT ![t] = -1], m2.open)
  BY <1>3, <1>4, <1>6 DEF Holds, Memory
<1>8. n \in FreeFds(m) /\ n \in Fd
  <2>1. FreeFds(m3) = FreeFds(m)
    BY <1>1, <1>3, <1>7 DEF Holds, FreeFds
  <2> QED
    BY <1>7, <2>1, LowestIsFree DEF Holds, FreeFds
<1> HIDE DEF n
<1>9. Holds(m4, m2.class, m2.shadow, m2.sub, m2.master, m2.type,
            [m2.mode EXCEPT ![t] = md], [m2.fd EXCEPT ![t] = n],
            [m2.open EXCEPT ![n] = u])
  <2>1. m3.shadow[u] = t
    BY <1>6, <1>7 DEF Holds
  <2>2. m3.fd = [m2.fd EXCEPT ![t] = -1] /\ m2.fd \in [Addr -> Fd \cup {-1}]
    BY <1>3, <1>7 DEF Holds, Memory
  <2>3. [m3.fd EXCEPT ![t] = n] = [m2.fd EXCEPT ![t] = n]
    BY <1>6, <2>2
  <2>4. Holds(m4, m3.class, m3.shadow, m3.sub, m3.master, m3.type, m3.mode,
              [m3.fd EXCEPT ![t] = n], [m3.open EXCEPT ![n] = u])
    BY <1>5, <1>6, <1>7, <1>8, <2>1 DEF Holds, Memory
  <2> QED
    BY <1>7, <2>3, <2>4 DEF Holds
<1>10. Holds(m5, m2.class, m2.shadow, [m2.sub EXCEPT ![h] = u],
             [m2.master EXCEPT ![u] = h], m2.type,
             [m2.mode EXCEPT ![t] = md], [m2.fd EXCEPT ![t] = n],
             [m2.open EXCEPT ![n] = u])
  BY <1>6, <1>9 DEF Holds, Memory, Free
<1> HIDE DEF m5
<1>11. m5.shadow[h] = s /\ s \in Addr /\ h \in Addr
  BY <1>1, <1>2, <1>3, <1>10 DEF Holds, Memory, Free
<1>12. Holds(SetType(m5, h, "TypeUdpHandle"), m5.class, m5.shadow, m5.sub, m5.master,
             [m5.type EXCEPT ![s] = "TypeUdpHandle"], m5.mode, m5.fd, m5.open)
  <2>1. m5 \in Memory /\ "TypeUdpHandle" \in HandleType
    BY <1>10 DEF Holds, HandleType
  <2> QED
    BY <1>11, <2>1, TypeSet
<1>13. /\ s \in Free(m) /\ u \in Free(m) /\ t \in Free(m)
       /\ s # h /\ u \notin {h, s} /\ t \notin {h, s, u}
  BY <1>1, <1>2, <1>3
<1> DEFINE m6 == SetType(m5, h, "TypeUdpHandle")
<1> HIDE DEF m6
<1>14. Holds(m6,
             [m.class EXCEPT ![h] = "UdpHandle", ![s] = "ShadowHandle",
                             ![u] = "ShadowUdpHandle", ![t] = "ShadowHandle"],
             [m.shadow EXCEPT ![h] = s, ![u] = t],
             [m.sub EXCEPT ![h] = u],
             [m.master EXCEPT ![u] = h],
             [m.type EXCEPT ![t] = "TypeUnixFdHandle", ![s] = "TypeUdpHandle"],
             [m.mode EXCEPT ![t] = md],
             [m.fd EXCEPT ![t] = n],
             [m.open EXCEPT ![n] = u])
  BY <1>1, <1>3, <1>10, <1>12 DEF Holds, m6
<1>15. AddsUdp(m, m6, h, s, u, t, n, md)
  BY <1>8, <1>13, <1>14
     DEF AddsUdp, Adds, WithShadow, Holds, Same, TypeOf, Memory, Free, FreeFds
<1> QED
  BY <1>0, <1>8, <1>13, <1>15 DEF Free, m6

-----------------------------------------------------------------------------
(* What each destructor and delete make of the memory. *)

\* The objects at D are gone, all others are as they were.
Gone(m, m2, D) ==
    /\ m2 \in Memory
    /\ \A a \in Addr : IF a \in D THEN m2.class[a] = "free" ELSE Same(m, m2, a)

LEMMA Erased ==
    ASSUME NEW m \in Memory, NEW a \in Addr
    PROVE  Gone(m, Erase(m, a), {a}) /\ Erase(m, a).open = m.open
<1>1. 0 \in Fd
  BY AppsAssumption DEF Fd
<1> QED
  BY <1>1 DEF Gone, Same, Erase, Memory, Mode

LEMMA HandleEnded ==
    ASSUME NEW m \in Memory, NEW h \in Addr, m.shadow[h] \in Addr \ {h}
    PROVE  /\ EndHandle(m, h) \in Memory
           /\ EndHandle(m, h).class[m.shadow[h]] = "free"
           /\ EndHandle(m, h).class[h] = m.class[h]
           /\ EndHandle(m, h).sub[h] = m.sub[h]
           /\ \A a \in Addr \ {h, m.shadow[h]} : Same(m, EndHandle(m, h), a)
           /\ EndHandle(m, h).open = m.open
<1> DEFINE m1 == Erase(m, m.shadow[h])
<1>1. Gone(m, m1, {m.shadow[h]}) /\ m1.open = m.open
  BY Erased
<1>2. EndHandle(m, h) = [m1 EXCEPT !.shadow = [@ EXCEPT ![h] = NULL]]
  BY DEF EndHandle, destroyShadowHandle
<1> HIDE DEF m1
<1>3. Holds(EndHandle(m, h), m1.class, [m1.shadow EXCEPT ![h] = NULL], m1.sub,
            m1.master, m1.type, m1.mode, m1.fd, m1.open)
  BY <1>1, <1>2 DEF Gone, Holds, Memory
<1>4. m1.shadow \in [Addr -> Addr \cup {NULL}]
  BY <1>1 DEF Gone, Memory
<1> QED
  BY <1>1, <1>3, <1>4 DEF Gone, Same, Holds

\* delete of a handle without a sub.
LEMMA HandleGone ==
    ASSUME NEW m \in Memory, NEW h \in Addr, m.shadow[h] \in Addr \ {h}
    PROVE  /\ Gone(m, Erase(EndHandle(m, h), h), {h, m.shadow[h]})
           /\ Erase(EndHandle(m, h), h).open = m.open
<1> DEFINE m1 == EndHandle(m, h)
           m2 == Erase(m1, h)
<1>1. /\ m1 \in Memory
      /\ m1.class[m.shadow[h]] = "free"
      /\ \A a \in Addr \ {h, m.shadow[h]} : Same(m, m1, a)
      /\ m1.open = m.open
  BY HandleEnded
<1> HIDE DEF m1
<1>2. Gone(m1, m2, {h}) /\ m2.open = m1.open
  BY <1>1, Erased
<1> HIDE DEF m2
<1> QED
  BY <1>1, <1>2 DEF Gone, Same, m1, m2

LEMMA BlockerGone ==
    ASSUME NEW m \in Memory, NEW h \in Addr, m.shadow[h] \in Addr \ {h},
           m.class[h] = "Blocker"
    PROVE  /\ Gone(m, Destroy(m, h), {h, m.shadow[h]})
           /\ Destroy(m, h).open = m.open
BY HandleGone DEF Destroy, EndBlocker, destroySubBlocker

LEMMA UnixFdGone ==
    ASSUME NEW m \in Memory, NEW h \in Addr, m.shadow[h] \in Addr \ {h},
           m.class[h] = "UnixFdHandle"
    PROVE  /\ Gone(m, Destroy(m, h), {h, m.shadow[h]})
           /\ Destroy(m, h).open = m.open
<1> DEFINE m1 == [m EXCEPT !.fd = [@ EXCEPT ![m.shadow[h]] = 0]]
<1>1. 0 \in Fd
  BY AppsAssumption DEF Fd
<1>2. /\ m1 \in Memory /\ m1.shadow = m.shadow /\ m1.open = m.open
      /\ \A a \in Addr \ {m.shadow[h]} : Same(m, m1, a)
  BY <1>1 DEF Memory, Same
<1>3. Destroy(m, h) = Erase(EndHandle(m1, h), h)
  BY DEF Destroy, EndUnixFdHandle
<1> HIDE DEF m1
<1>4. /\ Gone(m1, Destroy(m, h), {h, m.shadow[h]})
      /\ Destroy(m, h).open = m1.open
  BY <1>2, <1>3, HandleGone
<1> QED
  BY <1>2, <1>4 DEF Gone, Same

\* A new ShadowDepend is left behind where nothing was.
LEMMA DependGone ==
    ASSUME NEW m \in Memory, NEW h \in Addr, m.shadow[h] \in Addr \ {h},
           m.class[h] = "DependHandle", m.class[m.shadow[h]] = "ShadowHandle",
           Free(m) # {}
    PROVE  \E d \in Free(m) :
             /\ Destroy(m, h) \in Memory
             /\ Destroy(m, h).class[h] = "free"
             /\ Destroy(m, h).class[m.shadow[h]] = "free"
             /\ Destroy(m, h).class[d] = "ShadowDepend"
             /\ \A a \in Addr \ {h, m.shadow[h], d} : Same(m, Destroy(m, h), a)
             /\ Destroy(m, h).open = m.open
<1> DEFINE m1 == SetType(m, h, "TypeDepend")
           d == New(m1)
           m2 == createSubDepend(m, h)
<1>1. Holds(m1, m.class, m.shadow, m.sub, m.master,
            [m.type EXCEPT ![m.shadow[h]] = "TypeDepend"], m.mode, m.fd, m.open)
  BY TypeSet DEF HandleType
<1>2. m2 = [ShadowDepend(m1, d, h) EXCEPT !.sub = [@ EXCEPT ![h] = d]]
  BY DEF createSubDepend
<1>3. Destroy(m, h) = Erase(EndHandle(m2, h), h)
  BY DEF Destroy, EndDependHandle
<1> HIDE DEF m1, m2
<1>4. d \in Free(m)
  BY <1>1, NewIsFree DEF Holds, Free
<1> HIDE DEF d
<1>5. Holds(m2, [m.class EXCEPT ![d] = "ShadowDepend"], m.shadow,
            [m.sub EXCEPT ![h] = d], [m.master EXCEPT ![d] = h],
            [m.type EXCEPT ![m.shadow[h]] = "TypeDepend"], m.mode, m.fd, m.open)
  BY <1>1, <1>2, <1>4 DEF ShadowDepend, Holds, Memory, Free, Class
<1>6. /\ Gone(m2, Destroy(m, h), {h, m.shadow[h]})
      /\ Destroy(m, h).open = m2.open
  BY <1>3, <1>5, HandleGone DEF Holds
<1>7. d \in Addr \ {h, m.shadow[h]}
  BY <1>4 DEF Free
<1>8. \A a \in Addr \ {h, m.shadow[h], d} : Same(m, m2, a)
  BY <1>5 DEF Holds, Same, Memory
<1> QED
  BY <1>4, <1>5, <1>6, <1>7, <1>8 DEF Gone, Same, Holds, Memory

\* The ShadowUdpHandle goes with its shadow and its socket.
LEMMA UdpGone ==
    ASSUME NEW m \in Memory, NEW h \in Addr, NEW s \in Addr, NEW u \in Addr,
           NEW t \in Addr, m.shadow[h] = s, m.sub[h] = u, m.shadow[u] = t,
           m.class[h] = "UdpHandle", m.class[u] = "ShadowUdpHandle",
           m.class[s] = "ShadowHandle", m.class[t] = "ShadowHandle", s # t
    PROVE  /\ Gone(m, Destroy(m, h), {h, s, u, t})
           /\ Destroy(m, h).open =
                [n \in Fd |-> IF n > 0 /\ n = m.fd[t] THEN NULL ELSE m.open[n]]
<1> DEFINE m1 == CloseSocket(m, u)
           m2 == [m1 EXCEPT !.fd = [@ EXCEPT ![m1.shadow[u]] = 0]]
           m3 == Erase(EndHandle(m2, u), u)
           m4 == [m3 EXCEPT !.sub = [@ EXCEPT ![h] = NULL]]
<1>0. Destroy(m, h) = Erase(EndHandle(m4, h), h)
  BY DEF Destroy, EndUdpHandle, destroySubUdpHandle, EndShadowUdpHandle,
         EndUnixFdHandle
<1>1. Holds(m1, m.class, m.shadow, m.sub, m.master, m.type, m.mode, m.fd,
            [n \in Fd |-> IF n > 0 /\ n = m.fd[t] THEN NULL ELSE m.open[n]])
  BY DEF CloseSocket, Holds, Memory
<1> HIDE DEF m1
<1>2. Holds(m2, m.class, m.shadow, m.sub, m.master, m.type, m.mode,
            [m.fd EXCEPT ![t] = 0], m1.open)
  <2>1. 0 \in Fd /\ m1.shadow[u] = t
    BY <1>1, AppsAssumption DEF Fd, Holds
  <2> QED
    BY <1>1, <2>1 DEF Holds, Memory
<1> HIDE DEF m2
<1>3. Gone(m2, m3, {u, t}) /\ m3.open = m2.open
  BY <1>2, HandleGone DEF Holds
<1> HIDE DEF m3
<1>4. Holds(m4, m3.class, m3.shadow, [m3.sub EXCEPT ![h] = NULL], m3.master,
            m3.type, m3.mode, m3.fd, m3.open)
  BY <1>3 DEF Gone, Holds, Memory
<1> HIDE DEF m4
<1>5. m4 \in Memory /\ m4.shadow[h] = s
  BY <1>2, <1>3, <1>4 DEF Gone, Same, Holds
<1>6. Gone(m4, Destroy(m, h), {h, s}) /\ Destroy(m, h).open = m4.open
  BY <1>0, <1>5, HandleGone
<1>7. \A a \in Addr \ {h, s, u, t} : Same(m, m4, a)
  <2>1. \A a \in Addr \ {h, s, u, t} : Same(m, m2, a)
    BY <1>2 DEF Holds, Same, Memory
  <2>2. \A a \in Addr \ {u, t} : Same(m2, m3, a)
    BY <1>3 DEF Gone
  <2>3. m3.sub \in [Addr -> Addr \cup {NULL}]
    BY <1>3 DEF Gone, Memory
  <2> QED
    BY <1>4, <2>1, <2>2, <2>3 DEF Holds, Same
<1>8. m4.class[u] = "free" /\ m4.class[t] = "free"
  BY <1>3, <1>4 DEF Gone, Holds
<1>9. Gone(m, Destroy(m, h), {h, s, u, t})
  <2> SUFFICES ASSUME NEW a \in Addr
               PROVE  IF a \in {h, s, u, t} THEN Destroy(m, h).class[a] = "free"
                                           ELSE Same(m, Destroy(m, h), a)
    BY <1>6 DEF Gone
  <2>1. CASE a \in {h, s}
    BY <1>6, <2>1 DEF Gone
  <2>2. CASE a \in {u, t}
    BY <1>6, <1>8, <2>2 DEF Gone, Same
  <2>3. CASE a \notin {h, s, u, t}
    BY <1>6, <1>7, <2>3 DEF Gone, Same
  <2> QED
    BY <2>1, <2>2, <2>3
<1>10. Destroy(m, h).open =
         [n \in Fd |-> IF n > 0 /\ n = m.fd[t] THEN NULL ELSE m.open[n]]
  BY <1>1, <1>2, <1>3, <1>4, <1>6 DEF Holds
<1> QED
  BY <1>9, <1>10

-----------------------------------------------------------------------------
(* The same as steps. *)

LEMMA NewHandleAdds ==
    ASSUME TypeOK, NEW a \in App, NEW c \in HandleClass, NEW n \in Fd,
           NEW md \in Mode, NewHandle(a, c, n, md)
    PROVE  \E h \in Free(mem) :
             /\ AddsHandle(mem, mem', h, c, n, md)
             /\ owner' = [owner EXCEPT ![h] = a]
             /\ made' = [made EXCEPT ![h] = MadeFor(mem', h, c, n, md)]
<1> DEFINE h == New(mem)
<1>1. /\ mem \in Memory
      /\ mem' = Construct(mem, h, c, n, md)
      /\ owner' = [owner EXCEPT ![h] = a]
      /\ made' = [made EXCEPT ![h] = MadeFor(mem', h, c, n, md)]
      /\ Cardinality(Free(mem)) >= Cells(c)
      /\ c = "UdpHandle" => FreeFds(mem) # {}
  BY DEF NewHandle, TypeOK
<1>2. h \in Free(mem)
  <2>1. Cells(c) \in Nat \ {0}
    BY DEF Cells, HandleClass
  <2> QED
    BY <1>1, <2>1, SomeFree
<1> HIDE DEF h
<1>3. CASE c = "Blocker"
  <2>1. mem' = Blocker(Place(mem, h, "Blocker"), h)
    BY <1>1, <1>3 DEF Construct
  <2>2. Cardinality(Free(mem)) >= 2
    BY <1>1, <1>3 DEF Cells
  <2> QED
    BY <1>1, <1>2, <1>3, <2>1, <2>2, BlockerMade DEF AddsHandle
<1>4. CASE c = "UnixFdHandle"
  <2>1. mem' = UnixFdHandle(Place(mem, h, "UnixFdHandle"), h, n, md)
    BY <1>1, <1>4 DEF Construct
  <2>2. Cardinality(Free(mem)) >= 2
    BY <1>1, <1>4 DEF Cells
  <2> QED
    BY <1>1, <1>2, <1>4, <2>1, <2>2, UnixFdMade DEF AddsHandle
<1>5. CASE c = "DependHandle"
  <2>1. mem' = DependHandle(Place(mem, h, "DependHandle"), h)
    BY <1>1, <1>5 DEF Construct
  <2>2. Cardinality(Free(mem)) >= 3
    BY <1>1, <1>5 DEF Cells
  <2> QED
    BY <1>1, <1>2, <1>5, <2>1, <2>2, DependMade DEF AddsHandle
<1>6. CASE c = "UdpHandle"
  <2>1. mem' = UdpHandle(Place(mem, h, "UdpHandle"), h, md)
    BY <1>1, <1>6 DEF Construct
  <2>2. Cardinality(Free(mem)) >= 4
    BY <1>1, <1>6 DEF Cells
  <2> QED
    BY <1>1, <1>2, <1>6, <2>1, <2>2, UdpMade DEF AddsHandle
<1> QED
  BY <1>1, <1>2, <1>3, <1>4, <1>5, <1>6 DEF HandleClass

-----------------------------------------------------------------------------
(* Shadows and subs, in any memory. *)

HandleLike == HandleClass \cup {"ShadowUdpHandle"}

\* The objects at S are complete: shadows and subs are at S too.
Shadowed(m, S) ==
    /\ \A h \in S : m.class[h] \in HandleLike =>
         /\ m.shadow[h] \in S /\ m.class[m.shadow[h]] = "ShadowHandle"
         /\ m.type[m.shadow[h]] = TypeOf(m.class[h])
    /\ \A g, h \in S :
         /\ m.class[g] \in HandleLike /\ m.class[h] \in HandleLike
         /\ m.shadow[g] = m.shadow[h]
         => g = h
    /\ \A s \in S : m.class[s] = "ShadowHandle" =>
         \E h \in S : m.class[h] \in HandleLike /\ m.shadow[h] = s

Subbed(m, S) ==
    /\ \A h \in S : m.class[h] = "DependHandle" =>
         /\ m.sub[h] \in S /\ m.class[m.sub[h]] = "ShadowDepend"
         /\ m.master[m.sub[h]] = h
    /\ \A h \in S : m.class[h] = "UdpHandle" =>
         /\ m.sub[h] \in S /\ m.class[m.sub[h]] = "ShadowUdpHandle"
         /\ m.master[m.sub[h]] = h
    /\ \A u \in S : m.class[u] = "ShadowUdpHandle" =>
         /\ m.master[u] \in S /\ m.class[m.master[u]] = "UdpHandle"
         /\ m.sub[m.master[u]] = u

Complete(m, S) == Shadowed(m, S) /\ Subbed(m, S)

WellMade(m) == m \in Memory /\ Complete(m, Addr)

\* Objects that are complete without the others can be set aside ...
LEMMA Apart ==
    ASSUME NEW m, NEW D \in SUBSET Addr, Complete(m, Addr), Complete(m, D),
           \A h \in Addr \ D : m.class[h] = "DependHandle" => m.sub[h] \notin D
    PROVE  Complete(m, Addr \ D)
<1>1. Shadowed(m, Addr \ D)
  BY DEF Complete, Shadowed
<1>2. Subbed(m, Addr \ D)
  BY DEF Complete, Subbed
<1> QED
  BY <1>1, <1>2 DEF Complete

\* ... and are not touched by a change elsewhere.
LEMMA Together ==
    ASSUME NEW m, NEW m2, NEW D \in SUBSET Addr, Complete(m, Addr \ D),
           \A a \in Addr \ D : Same(m, m2, a), Complete(m2, D)
    PROVE  Complete(m2, Addr)
<1>1. Complete(m2, Addr \ D)
  <2>1. Shadowed(m2, Addr \ D)
    BY DEF Complete, Shadowed, Same
  <2>2. Subbed(m2, Addr \ D)
    BY DEF Complete, Subbed, Same
  <2> QED
    BY <2>1, <2>2 DEF Complete
<1>2. Shadowed(m2, Addr)
  BY <1>1 DEF Complete, Shadowed
<1>3. Subbed(m2, Addr)
  BY <1>1 DEF Complete, Subbed
<1> QED
  BY <1>2, <1>3 DEF Complete

\* What becomes of the memory when a handle is deleted.
RemovesDepend(m, m2, h, d) ==
    /\ m2 \in Memory /\ d \in Free(m)
    /\ m2.class[h] = "free" /\ m2.class[m.shadow[h]] = "free"
    /\ m2.class[d] = "ShadowDepend"
    /\ \A a \in Addr \ {h, m.shadow[h], d} : Same(m, m2, a)
    /\ m2.open = m.open

RemovesHandle(m, m2, h) ==
    \/ /\ m.class[h] \in {"Blocker", "UnixFdHandle"}
       /\ Gone(m, m2, {h, m.shadow[h]})
       /\ m2.open = m.open
    \/ /\ m.class[h] = "DependHandle"
       /\ \E d \in Addr : RemovesDepend(m, m2, h, d)
    \/ /\ m.class[h] = "UdpHandle"
       /\ Gone(m, m2, {h, m.shadow[h], m.sub[h], m.shadow[m.sub[h]]})
       /\ m2.open = [n \in Fd |-> IF n > 0 /\ n = m.fd[m.shadow[m.sub[h]]]
                                    THEN NULL ELSE m.open[n]]

LEMMA DestroyRemoves ==
    ASSUME NEW m, WellMade(m), NEW h \in Addr, m.class[h] \in HandleClass,
           m.class[h] = "DependHandle" => Free(m) # {}
    PROVE  RemovesHandle(m, Destroy(m, h), h)
<1>1. /\ m \in Memory /\ m.shadow[h] \in Addr \ {h}
      /\ m.class[m.shadow[h]] = "ShadowHandle"
  BY DEF WellMade, Complete, Shadowed, HandleLike, HandleClass
<1>2. CASE m.class[h] = "Blocker"
  BY <1>1, <1>2, BlockerGone DEF RemovesHandle
<1>3. CASE m.class[h] = "UnixFdHandle"
  BY <1>1, <1>3, UnixFdGone DEF RemovesHandle
<1>4. CASE m.class[h] = "DependHandle"
  <2>1. PICK d \in Free(m) :
          /\ Destroy(m, h) \in Memory
          /\ Destroy(m, h).class[h] = "free"
          /\ Destroy(m, h).class[m.shadow[h]] = "free"
          /\ Destroy(m, h).class[d] = "ShadowDepend"
          /\ \A a \in Addr \ {h, m.shadow[h], d} : Same(m, Destroy(m, h), a)
          /\ Destroy(m, h).open = m.open
    BY <1>1, <1>4, DependGone
  <2> QED
    BY <1>4, <2>1 DEF RemovesHandle, RemovesDepend, Free
<1>5. CASE m.class[h] = "UdpHandle"
  <2>1. PICK u \in Addr : u = m.sub[h] /\ m.class[u] = "ShadowUdpHandle"
    BY <1>5 DEF WellMade, Complete, Subbed
  <2>2. PICK t \in Addr : t = m.shadow[u] /\ m.class[t] = "ShadowHandle" /\ t # m.shadow[h]
    BY <1>5, <2>1 DEF WellMade, Complete, Shadowed, HandleLike, HandleClass
  <2>3. PICK s \in Addr : s = m.shadow[h]
    BY <1>1
  <2>4. /\ m.shadow[h] = s /\ m.sub[h] = u /\ m.shadow[u] = t /\ s # t
        /\ m.class[s] = "ShadowHandle" /\ m.class[t] = "ShadowHandle"
        /\ m.class[u] = "ShadowUdpHandle" /\ m.class[h] = "UdpHandle"
    BY <1>1, <1>5, <2>1, <2>2, <2>3
  <2>5. /\ Gone(m, Destroy(m, h), {h, s, u, t})
        /\ Destroy(m, h).open =
             [n \in Fd |-> IF n > 0 /\ n = m.fd[t] THEN NULL ELSE m.open[n]]
    BY <1>1, <2>4, UdpGone
  <2> QED
    BY <1>5, <2>4, <2>5 DEF RemovesHandle
<1> QED
  BY <1>2, <1>3, <1>4, <1>5 DEF HandleClass

-----------------------------------------------------------------------------
LEMMA AddedWellMade ==
    ASSUME NEW m, WellMade(m), NEW m2, NEW h \in Free(m), NEW c, NEW n, NEW md,
           AddsHandle(m, m2, h, c, n, md)
    PROVE  WellMade(m2)
<1>1. ASSUME NEW N, Adds(m, m2, N), Complete(m2, N) PROVE WellMade(m2)
  <2>1. N \in SUBSET Addr /\ m2 \in Memory /\ \A a \in Addr \ N : Same(m, m2, a)
    BY <1>1 DEF Adds, Free
  <2>2. \A a \in N : m.class[a] = "free"
    BY <1>1 DEF Adds, Free
  <2>3. Complete(m, N)
    BY <2>2 DEF Complete, Shadowed, Subbed, HandleLike, HandleClass
  <2>4. \A g \in Addr \ N : m.class[g] = "DependHandle" => m.sub[g] \notin N
    BY <2>2 DEF WellMade, Complete, Subbed
  <2> QED
    BY <1>1, <2>1, <2>3, <2>4, Apart, Together DEF WellMade
<1>2. ASSUME NEW s \in Addr, AddsBlocker(m, m2, h, s) \/ AddsUnixFd(m, m2, h, s, n, md)
      PROVE  WellMade(m2)
  <2>1. Complete(m2, {h, s}) /\ Adds(m, m2, {h, s})
    BY <1>2 DEF AddsBlocker, AddsUnixFd, WithShadow, Complete, Shadowed, Subbed,
                HandleLike, HandleClass, TypeOf
  <2> QED
    BY <1>1, <2>1, Zenon
<1>3. ASSUME NEW s \in Addr, NEW d \in Addr, AddsDepend(m, m2, h, s, d)
      PROVE  WellMade(m2)
  <2>1. Complete(m2, {h, s, d}) /\ Adds(m, m2, {h, s, d})
    BY <1>3 DEF AddsDepend, WithShadow, Complete, Shadowed, Subbed,
                HandleLike, HandleClass, TypeOf
  <2> QED
    BY <1>1, <2>1, Zenon
<1>4. ASSUME NEW s \in Addr, NEW u \in Addr, NEW t \in Addr, NEW f \in Fd,
             AddsUdp(m, m2, h, s, u, t, f, md)
      PROVE  WellMade(m2)
  <2>1. Complete(m2, {h, s, u, t}) /\ Adds(m, m2, {h, s, u, t})
    BY <1>4 DEF AddsUdp, WithShadow, Complete, Shadowed, Subbed,
                HandleLike, HandleClass, TypeOf
  <2> QED
    BY <1>1, <2>1, Zenon
<1> QED
  BY <1>2, <1>3, <1>4 DEF AddsHandle

LEMMA RemovedWellMade ==
    ASSUME NEW m, WellMade(m), NEW m2, NEW h \in Addr, RemovesHandle(m, m2, h)
    PROVE  WellMade(m2)
<1>1. ASSUME NEW D \in SUBSET Addr, Complete(m, D), m2 \in Memory,
             \A g \in Addr \ D : m.class[g] = "DependHandle" => m.sub[g] \notin D,
             \A a \in Addr \ D : Same(m, m2, a), Complete(m2, D)
      PROVE  WellMade(m2)
  BY <1>1, Apart, Together DEF WellMade
<1>2. ASSUME NEW D \in SUBSET Addr, Complete(m, D), Gone(m, m2, D),
             \A d \in D : m.class[d] # "ShadowDepend"
      PROVE  WellMade(m2)
  <2>1. Complete(m2, D)
    BY <1>2 DEF Gone, Complete, Shadowed, Subbed, HandleLike, HandleClass
  <2>2. \A g \in Addr \ D : m.class[g] = "DependHandle" => m.sub[g] \notin D
    BY <1>2 DEF WellMade, Complete, Subbed
  <2> QED
    BY <1>1, <1>2, <2>1, <2>2 DEF Gone
<1>3. CASE /\ m.class[h] \in {"Blocker", "UnixFdHandle"}
           /\ Gone(m, m2, {h, m.shadow[h]})
  <2>1. m.shadow[h] \in Addr /\ m.class[m.shadow[h]] = "ShadowHandle"
    BY <1>3 DEF WellMade, Complete, Shadowed, HandleLike, HandleClass
  <2>2. Complete(m, {h, m.shadow[h]})
    BY <1>3, <2>1
       DEF WellMade, Complete, Shadowed, Subbed, HandleLike, HandleClass
  <2> QED
    BY <1>2, <1>3, <2>1, <2>2
<1>4. ASSUME m.class[h] = "DependHandle", NEW d \in Addr, RemovesDepend(m, m2, h, d)
      PROVE  WellMade(m2)
  <2>1. PICK s \in Addr : s = m.shadow[h] /\ m.class[s] = "ShadowHandle"
    BY <1>4 DEF WellMade, Complete, Shadowed, HandleLike, HandleClass
  <2>2. PICK o \in Addr : /\ o = m.sub[h] /\ m.class[o] = "ShadowDepend"
                          /\ m.master[o] = h
    BY <1>4 DEF WellMade, Complete, Subbed
  <2>3. d \notin {h, s, o} /\ m.class[d] = "free"
    BY <1>4, <2>1, <2>2 DEF RemovesDepend, Free
  <2>4. Complete(m, {h, s, o, d})
    <3>1. Shadowed(m, {h, s, o, d})
      BY <1>4, <2>1, <2>2, <2>3
         DEF WellMade, Complete, Shadowed, HandleLike, HandleClass
    <3>2. Subbed(m, {h, s, o, d})
      BY <1>4, <2>1, <2>2, <2>3 DEF Subbed
    <3> QED
      BY <3>1, <3>2 DEF Complete
  <2>5. Complete(m2, {h, s, o, d})
    BY <1>4, <2>1, <2>2, <2>3
       DEF RemovesDepend, Same, Complete, Shadowed, Subbed, HandleLike, HandleClass
  <2>6. \A g \in Addr \ {h, s, o, d} :
          m.class[g] = "DependHandle" => m.sub[g] \notin {h, s, o, d}
    BY <1>4, <2>1, <2>2, <2>3 DEF WellMade, Complete, Subbed
  <2> QED
    BY <1>1, <1>4, <2>1, <2>4, <2>5, <2>6 DEF RemovesDepend
<1>5. CASE /\ m.class[h] = "UdpHandle"
           /\ Gone(m, m2, {h, m.shadow[h], m.sub[h], m.shadow[m.sub[h]]})
  <2>1. PICK s \in Addr : s = m.shadow[h] /\ m.class[s] = "ShadowHandle"
    BY <1>5 DEF WellMade, Complete, Shadowed, HandleLike, HandleClass
  <2>2. PICK u \in Addr : /\ u = m.sub[h] /\ m.class[u] = "ShadowUdpHandle"
                          /\ m.master[u] = h
    BY <1>5 DEF WellMade, Complete, Subbed
  <2>3. PICK t \in Addr : t = m.shadow[u] /\ m.class[t] = "ShadowHandle"
    BY <2>2 DEF WellMade, Complete, Shadowed, HandleLike, HandleClass
  <2>4. Shadowed(m, {h, s, u, t})
    <3>1. m.type[s] = TypeOf(m.class[h]) /\ m.type[t] = TypeOf(m.class[u])
      BY <1>5, <2>1, <2>2, <2>3
         DEF WellMade, Complete, Shadowed, HandleLike, HandleClass
    <3>2. s # t
      BY <1>5, <2>1, <2>2, <2>3
         DEF WellMade, Complete, Shadowed, HandleLike, HandleClass
    <3>3. {g \in {h, s, u, t} : m.class[g] \in HandleLike} = {h, u}
      BY <1>5, <2>1, <2>2, <2>3 DEF HandleLike, HandleClass
    <3>4. {g \in {h, s, u, t} : m.class[g] = "ShadowHandle"} = {s, t}
      BY <1>5, <2>1, <2>2, <2>3
    <3> QED
      BY <2>1, <2>2, <2>3, <3>1, <3>2, <3>3, <3>4 DEF Shadowed
  <2>5. Subbed(m, {h, s, u, t})
    BY <1>5, <2>1, <2>2, <2>3 DEF Subbed
  <2> QED
    BY <1>2, <1>5, <2>1, <2>2, <2>3, <2>4, <2>5 DEF Complete
<1> QED
  BY <1>3, <1>4, <1>5 DEF RemovesHandle

-----------------------------------------------------------------------------
(* Types, shadows and subs. *)

\* Handles are what clients have made.
Owned == \A h \in Addr : owner[h] # NULL => mem.class[h] \in HandleClass

Inv == TypeOK /\ WellMade(mem) /\ Owned

LEMMA InvInit == Init => Inv
<1> SUFFICES ASSUME Init PROVE Inv
  OBVIOUS
<1>1. mem \in Memory
  <2>1. 0 \in Fd /\ Inherited \in [Fd -> File \cup {NULL}]
    BY AppsAssumption DEF Fd
  <2> QED
    BY <2>1 DEF Init, Memory, Mode
<1>2. WellMade(mem)
  BY <1>1 DEF Init, WellMade, Complete, Shadowed, Subbed, HandleLike, HandleClass
<1>3. TypeOK
  BY <1>1 DEF Init, TypeOK, Empty, PC
<1>4. Owned
  BY DEF Init, Owned
<1> QED
  BY <1>2, <1>3, <1>4 DEF Inv

\* A step that leaves the memory alone.
LEMMA InvUnchanged ==
    ASSUME Inv, TypeOK', UNCHANGED <<mem, owner>>
    PROVE  Inv'
BY DEF Inv, WellMade, Complete, Shadowed, Subbed, Owned

LEMMA InvNew ==
    ASSUME Inv, NEW a \in App, NEW c \in HandleClass, NEW n \in Fd, NEW md \in Mode,
           NewHandle(a, c, n, md)
    PROVE  Inv'
<1>1. PICK h \in Free(mem) :
        /\ AddsHandle(mem, mem', h, c, n, md)
        /\ owner' = [owner EXCEPT ![h] = a]
        /\ made' = [made EXCEPT ![h] = MadeFor(mem', h, c, n, md)]
  BY NewHandleAdds DEF Inv
<1>2. WellMade(mem')
  BY <1>1, AddedWellMade DEF Inv
<1>3. h \in Addr
  BY DEF Free
<1>4. MadeFor(mem', h, c, n, md) \in ((File \cup Addr) \X Mode) \cup {NULL}
  <2>1. CASE c = "UnixFdHandle"
    <3>1. mem.open[n] \in File /\ mem'.open = mem.open
      BY <1>1, <2>1 DEF AddsHandle, AddsUnixFd, NewHandle
    <3> QED
      BY <2>1, <3>1 DEF MadeFor
  <2>2. CASE c = "UdpHandle"
    <3>1. mem'.sub[h] \in Addr
      BY <1>1, <2>2 DEF AddsHandle, AddsUdp
    <3> QED
      BY <2>2, <3>1 DEF MadeFor
  <2>3. CASE c \notin {"UnixFdHandle", "UdpHandle"}
    BY <2>3 DEF MadeFor
  <2> QED
    BY <2>1, <2>2, <2>3
<1>5. TypeOK'
  <2>1. mem' \in Memory
    BY <1>2 DEF WellMade
  <2>2. owner' \in [Addr -> App \cup {NULL}]
    BY <1>1, <1>3 DEF Inv, TypeOK
  <2>3. made' \in [Addr -> ((File \cup Addr) \X Mode) \cup {NULL}]
    BY <1>1, <1>3, <1>4 DEF Inv, TypeOK
  <2> QED
    BY <2>1, <2>2, <2>3 DEF NewHandle, Inv, TypeOK
<1>6. Owned'
  <2>1. mem'.class[h] = c
    BY <1>1
       DEF AddsHandle, AddsBlocker, AddsUnixFd, AddsDepend, AddsUdp, WithShadow
  <2>2. PICK N : Adds(mem, mem', N)
    BY <1>1 DEF AddsHandle, AddsBlocker, AddsUnixFd, AddsDepend, AddsUdp
  <2>3. \A g \in Addr : mem.class[g] \in HandleClass => mem'.class[g] = mem.class[g]
    BY <2>2 DEF Adds, Same, Free, HandleClass
  <2> QED
    BY <1>1, <1>3, <2>1, <2>3 DEF Inv, Owned, TypeOK
<1> QED
  BY <1>2, <1>5, <1>6 DEF Inv

\* Only the handle itself goes, of all that clients have.
LEMMA RemovesOne ==
    ASSUME WellMade(mem), NEW h \in Addr, RemovesHandle(mem, mem', h)
    PROVE  /\ mem'.class[h] = "free"
           /\ \A g \in Addr \ {h} :
                mem.class[g] \in HandleClass => mem'.class[g] = mem.class[g]
<1>1. mem.class[h] \in HandleClass
      => mem.shadow[h] \in Addr /\ mem.class[mem.shadow[h]] = "ShadowHandle"
  BY DEF WellMade, Complete, Shadowed, HandleLike
<1>2. CASE mem.class[h] \in {"Blocker", "UnixFdHandle"}
  BY <1>1, <1>2 DEF RemovesHandle, Gone, Same, HandleClass
<1>3. CASE mem.class[h] = "DependHandle"
  BY <1>1, <1>3 DEF RemovesHandle, RemovesDepend, Same, Free, HandleClass
<1>4. CASE mem.class[h] = "UdpHandle"
  <2>1. mem.sub[h] \in Addr /\ mem.class[mem.sub[h]] = "ShadowUdpHandle"
    BY <1>4 DEF WellMade, Complete, Subbed
  <2>2. mem.class[mem.shadow[mem.sub[h]]] = "ShadowHandle"
    BY <2>1 DEF WellMade, Complete, Shadowed, HandleLike
  <2> QED
    BY <1>1, <1>4, <2>1, <2>2 DEF RemovesHandle, Gone, Same, HandleClass
<1> QED
  BY <1>2, <1>3, <1>4 DEF RemovesHandle

LEMMA DeleteRemoves ==
    ASSUME Inv, NEW a \in App, NEW h \in Addr, DeleteHandle(a, h)
    PROVE  mem.class[h] \in HandleClass /\ RemovesHandle(mem, mem', h)
<1>1. owner[h] # NULL /\ mem' = Destroy(mem, h)
      /\ (mem.class[h] = "DependHandle" => Free(mem) # {})
  BY AppsAssumption DEF DeleteHandle
<1>2. mem.class[h] \in HandleClass
  BY <1>1 DEF Inv, Owned
<1> QED
  BY <1>1, <1>2, DestroyRemoves DEF Inv

LEMMA InvDelete ==
    ASSUME Inv, NEW a \in App, NEW h \in Addr, DeleteHandle(a, h)
    PROVE  Inv'
<1>1. RemovesHandle(mem, mem', h)
  BY DeleteRemoves
<1>2. WellMade(mem')
  BY <1>1, RemovedWellMade DEF Inv
<1>3. TypeOK'
  BY <1>2 DEF DeleteHandle, Inv, TypeOK, WellMade
<1>4. Owned'
  <2>1. owner' = [owner EXCEPT ![h] = NULL]
    BY DEF DeleteHandle
  <2> QED
    BY <1>1, <2>1, RemovesOne DEF Inv, Owned, TypeOK
<1> QED
  BY <1>2, <1>3, <1>4 DEF Inv

LEMMA InvClose ==
    ASSUME Inv, NEW a \in App, NEW n \in Fd, CloseFile(a, n)
    PROVE  Inv'
<1>1. /\ mem' \in Memory /\ mem'.class = mem.class /\ mem'.shadow = mem.shadow
      /\ mem'.sub = mem.sub /\ mem'.master = mem.master /\ mem'.type = mem.type
  BY DEF CloseFile, Inv, TypeOK, Memory
<1>2. WellMade(mem')
  BY <1>1 DEF Inv, WellMade, Complete, Shadowed, Subbed
<1>3. TypeOK'
  BY <1>1 DEF CloseFile, Inv, TypeOK
<1> QED
  BY <1>1, <1>2, <1>3 DEF CloseFile, Inv, Owned

\* The steps that touch the memory.
LEMMA InvMemory ==
    ASSUME Inv, NEW a \in App,
           \/ \E c \in HandleClass, n \in Fd, md \in Mode : NewHandle(a, c, n, md)
           \/ \E h \in Addr : DeleteHandle(a, h)
           \/ \E n \in Fd : CloseFile(a, n)
    PROVE  Inv'
BY InvNew, InvDelete, InvClose

LEMMA InvStep == Inv /\ [Next]_vars => Inv'
<1> SUFFICES ASSUME Inv, [Next]_vars PROVE Inv'
  OBVIOUS
<1>1. CASE StaticHandle
  BY <1>1, InvUnchanged DEF StaticHandle, Inv, TypeOK, PC
<1>2. CASE initPosixApiIface
  <2>1. rep' \in [RepKey -> RepValue \cup {NULL}]
    BY <1>2 DEF initPosixApiIface, insertObj, WithObj, RepKey, RepValue, Key, whichNode,
                Inv, TypeOK
  <2> QED
    BY <1>2, <2>1, InvUnchanged DEF initPosixApiIface, Inv, TypeOK, PC
<1>3. ASSUME NEW a \in App, Call(a) PROVE Inv'
  BY <1>3, InvUnchanged DEF Call, Inv, TypeOK, PC
<1>4. ASSUME NEW a \in App, Client(a) PROVE Inv'
  <2>1. CASE Return(a)
    BY <2>1, InvUnchanged DEF Return, Inv, TypeOK, PC
  <2>2. CASE NoSocket(a)
    BY <2>2, InvUnchanged DEF NoSocket, Inv, TypeOK, PC
  <2>3. ASSUME NEW h \in Addr, NEW n \in Name, InsertObj(a, n, h) PROVE Inv'
    <3>1. mem.class[h] \in HandleClass
      BY <2>3, AppsAssumption DEF InsertObj, Inv, Owned
    <3>2. rep' \in [RepKey -> RepValue \cup {NULL}]
      BY <2>3, <3>1 DEF InsertObj, insertObj, WithObj, RepKey, RepValue, Key, whichNode,
                        Inv, TypeOK
    <3>3. mine' \in [App -> [Name -> Addr \cup {NULL}]]
      BY <2>3 DEF InsertObj, Inv, TypeOK
    <3> QED
      BY <2>3, <3>2, <3>3, InvUnchanged DEF InsertObj, Inv, TypeOK
  <2>4. ASSUME NEW n \in Name, RemoveObj(a, n) PROVE Inv'
    <3>1. rep' \in [RepKey -> RepValue \cup {NULL}]
      BY <2>4 DEF RemoveObj, removeObject, RepKey, Key, whichNode, Inv, TypeOK
    <3>2. mine' \in [App -> [Name -> Addr \cup {NULL}]]
      BY <2>4 DEF RemoveObj, Inv, TypeOK
    <3> QED
      BY <2>4, <3>1, <3>2, InvUnchanged DEF RemoveObj, Inv, TypeOK
  <2>5. ASSUME NEW n \in Name, NEW c \in HandleClass, MapObj(a, n, c) PROVE Inv'
    <3>1. getObj(n) \in Addr \cup {STREAM}
      BY <2>5 DEF MapObj, getObj, Registered, RepKey, RepValue, Key, whichNode,
                  Inv, TypeOK
    <3>2. got' \in [App -> ((Addr \cup {STREAM}) \X HandleClass) \cup {NULL}]
      BY <2>5, <3>1 DEF MapObj, Inv, TypeOK
    <3> QED
      BY <2>5, <3>2, InvUnchanged DEF MapObj, Inv, TypeOK
  <2>6. CASE UseObj(a)
    BY <2>6, InvUnchanged DEF UseObj, Calling, Inv, TypeOK, PC
  <2>7. CASE Dbg(a)
    BY <2>7, InvUnchanged DEF Dbg, Inv, TypeOK, PC
  <2> QED
    BY <1>4, <2>1, <2>2, <2>3, <2>4, <2>5, <2>6, <2>7, InvMemory DEF Client
<1>5. CASE Terminated \/ UNCHANGED vars
  BY <1>5, InvUnchanged DEF Terminated, vars, Inv, TypeOK
<1> QED
  BY <1>1, <1>2, <1>3, <1>4, <1>5 DEF Next

LEMMA InvHolds == Spec => []Inv
BY InvInit, InvStep, PTL DEF Spec

\* Every variable has its type: no constructor writes through an address or a
\* descriptor that is not one.
THEOREM TypeCorrect == Spec => []TypeOK
BY InvHolds, PTL DEF Inv

\* A handle has its own shadow, with the type of its class, however addresses
\* are used again; the event loop's cast by that type is right.
THEOREM ShadowsHold == Spec => []ShadowsAccounted
<1>1. Inv => ShadowsAccounted
  BY DEF Inv, WellMade, Complete, Shadowed, ShadowsAccounted, Handles, Objects,
         HandleLike, TypeOK, Memory
<1> QED
  BY <1>1, InvHolds, PTL
-----------------------------------------------------------------------------
(* What DependHandles leave behind. *)

Counted == Cardinality(Orphans) = 2 * ended

LEMMA OrphansUnchanged ==
    ASSUME Counted, UNCHANGED <<mem, ended>>
    PROVE  Counted'
BY DEF Counted, Orphans, Objects

LEMMA CountedNew ==
    ASSUME Inv, Counted, NEW a \in App, NEW c \in HandleClass, NEW n \in Fd,
           NEW md \in Mode, NewHandle(a, c, n, md)
    PROVE  Counted'
<1>1. PICK h \in Free(mem) : AddsHandle(mem, mem', h, c, n, md)
  BY NewHandleAdds DEF Inv
<1>2. ASSUME NEW N, Adds(mem, mem', N),
             \A d \in N : mem'.class[d] \notin {"DependHandle", "ShadowDepend"}
      PROVE  Orphans' = Orphans
  BY <1>2 DEF Adds, Same, Free, Orphans, Objects
<1>3. ASSUME NEW s \in Addr,
             \/ AddsBlocker(mem, mem', h, s)
             \/ AddsUnixFd(mem, mem', h, s, n, md)
      PROVE  Orphans' = Orphans
  <2>1. /\ Adds(mem, mem', {h, s})
        /\ \A d \in {h, s} : mem'.class[d] \notin {"DependHandle", "ShadowDepend"}
    BY <1>3 DEF AddsBlocker, AddsUnixFd, WithShadow
  <2> QED
    BY <1>2, <2>1
<1>4. ASSUME NEW s \in Addr, NEW d \in Addr, AddsDepend(mem, mem', h, s, d)
      PROVE  Orphans' = Orphans
  <2>1. /\ h \in Addr /\ mem.class[h] = "free" /\ mem.class[s] = "free"
        /\ mem.class[d] = "free" /\ s # h /\ d \notin {h, s}
        /\ \A g \in Addr \ {h, s, d} :
             mem'.class[g] = mem.class[g] /\ mem'.sub[g] = mem.sub[g]
        /\ mem'.class[h] = "DependHandle" /\ mem'.class[s] = "ShadowHandle"
        /\ mem'.class[d] = "ShadowDepend" /\ mem'.sub[h] = d
    BY <1>4 DEF AddsDepend, Adds, Same, Free, WithShadow
  <2> QED
    BY <2>1 DEF Orphans, Objects
<1>5. ASSUME NEW s \in Addr, NEW u \in Addr, NEW t \in Addr, NEW f \in Fd,
             AddsUdp(mem, mem', h, s, u, t, f, md)
      PROVE  Orphans' = Orphans
  <2>1. /\ Adds(mem, mem', {h, s, u, t})
        /\ \A d \in {h, s, u, t} :
             mem'.class[d] \notin {"DependHandle", "ShadowDepend"}
    BY <1>5 DEF AddsUdp, WithShadow
  <2> QED
    BY <1>2, <2>1
<1>6. Orphans' = Orphans
  BY <1>1, <1>3, <1>4, <1>5 DEF AddsHandle
<1> QED
  BY <1>6 DEF NewHandle, Counted

LEMMA CountedDelete ==
    ASSUME Inv, Counted, NEW a \in App, NEW h \in Addr, DeleteHandle(a, h)
    PROVE  Counted'
<1>1. mem.class[h] \in HandleClass /\ RemovesHandle(mem, mem', h)
  BY DeleteRemoves
<1>2. ended' = IF mem.class[h] = "DependHandle" THEN ended + 1 ELSE ended
  BY DEF DeleteHandle
<1>3. /\ mem.shadow[h] \in Addr /\ mem.class[mem.shadow[h]] = "ShadowHandle"
  BY <1>1 DEF Inv, WellMade, Complete, Shadowed, HandleLike
<1>4. CASE mem.class[h] # "DependHandle"
  <2>1. ASSUME NEW D, Gone(mem, mem', D),
               \A d \in D : mem.class[d] \notin {"DependHandle", "ShadowDepend"}
        PROVE  Orphans' = Orphans
    BY <2>1 DEF Gone, Same, Orphans, Objects
  <2>2. CASE mem.class[h] # "UdpHandle"
    <3>1. /\ Gone(mem, mem', {h, mem.shadow[h]})
          /\ \A d \in {h, mem.shadow[h]} :
               mem.class[d] \notin {"DependHandle", "ShadowDepend"}
      BY <1>1, <1>3, <1>4, <2>2 DEF RemovesHandle
    <3> QED
      BY <1>2, <1>4, <2>1, <3>1 DEF Counted
  <2>3. CASE mem.class[h] = "UdpHandle"
    <3>1. mem.sub[h] \in Addr /\ mem.class[mem.sub[h]] = "ShadowUdpHandle"
      BY <2>3 DEF Inv, WellMade, Complete, Subbed
    <3>2. mem.class[mem.shadow[mem.sub[h]]] = "ShadowHandle"
      BY <3>1 DEF Inv, WellMade, Complete, Shadowed, HandleLike
    <3>3. /\ Gone(mem, mem', {h, mem.shadow[h], mem.sub[h], mem.shadow[mem.sub[h]]})
          /\ \A d \in {h, mem.shadow[h], mem.sub[h], mem.shadow[mem.sub[h]]} :
               mem.class[d] \notin {"DependHandle", "ShadowDepend"}
      BY <1>1, <1>3, <2>3, <3>1, <3>2 DEF RemovesHandle
    <3> QED
      BY <1>2, <1>4, <2>1, <3>3 DEF Counted
  <2> QED
    BY <2>2, <2>3
<1>5. CASE mem.class[h] = "DependHandle"
  <2>1. PICK d \in Addr : RemovesDepend(mem, mem', h, d)
    BY <1>1, <1>5 DEF RemovesHandle
  <2>2. PICK o \in Addr : o = mem.sub[h] /\ mem.class[o] = "ShadowDepend"
                         /\ mem.master[o] = h
    BY <1>5 DEF Inv, WellMade, Complete, Subbed
  <2>3. PICK s \in Addr : s = mem.shadow[h] /\ mem.class[s] = "ShadowHandle"
    BY <1>3
  <2>4. /\ mem.class[d] = "free"
        /\ mem'.class[h] = "free" /\ mem'.class[s] = "free"
        /\ mem'.class[d] = "ShadowDepend"
        /\ \A g \in Addr \ {h, s, d} :
             mem'.class[g] = mem.class[g] /\ mem'.sub[g] = mem.sub[g]
    BY <2>1, <2>3 DEF RemovesDepend, Same, Free
  <2>5. \A g \in Addr : mem.class[g] = "DependHandle"
          => /\ mem.sub[g] \in Addr /\ mem.class[mem.sub[g]] = "ShadowDepend"
             /\ mem.master[mem.sub[g]] = g
    BY DEF Inv, WellMade, Complete, Subbed
  <2>6. o \notin Orphans /\ d \notin Orphans \cup {o}
    BY <1>5, <2>2, <2>4 DEF Orphans, Objects
  <2>7. Orphans' = (Orphans \cup {o}) \cup {d}
    <3>1. \A x \in Addr : x \in Orphans' <=> x \in (Orphans \cup {o}) \cup {d}
      BY <1>5, <2>2, <2>3, <2>4, <2>5 DEF Orphans, Objects
    <3> QED
      BY <2>2, <3>1 DEF Orphans, Objects
  <2>8. IsFiniteSet(Orphans)
    BY AppsAssumption, FS_Subset DEF Orphans, Objects
  <2>9. /\ IsFiniteSet(Orphans \cup {o})
        /\ Cardinality(Orphans \cup {o}) = Cardinality(Orphans) + 1
    BY <2>6, <2>8, FS_AddElement
  <2>10. Cardinality(Orphans') = Cardinality(Orphans \cup {o}) + 1
    BY <2>6, <2>7, <2>9, FS_AddElement
  <2>11. ended \in Nat
    BY DEF Inv, TypeOK
  <2> QED
    BY <1>2, <1>5, <2>9, <2>10, <2>11 DEF Counted
<1> QED
  BY <1>4, <1>5

LEMMA CountedHolds == Spec => []Counted
<1>1. Init => Counted
  <2> SUFFICES ASSUME Init PROVE Counted
    OBVIOUS
  <2>1. Orphans = {} /\ ended = 0
    BY DEF Init, Orphans, Objects
  <2>2. Cardinality({}) = 0
    BY FS_EmptySet
  <2> QED
    BY <2>1, <2>2 DEF Counted
<1>2. Inv /\ Counted /\ [Next]_vars => Counted'
  <2> SUFFICES ASSUME Inv, Counted, [Next]_vars PROVE Counted'
    OBVIOUS
  <2>1. ASSUME NEW a \in App, NEW n \in Fd, CloseFile(a, n) PROVE Counted'
    <3>1. /\ mem'.class = mem.class /\ mem'.sub = mem.sub /\ UNCHANGED ended
      BY <2>1 DEF CloseFile, Inv, TypeOK, Memory
    <3> QED
      BY <3>1 DEF Counted, Orphans, Objects
  <2>2. ASSUME NEW a \in App, Client(a) PROVE Counted'
    BY <2>1, <2>2, CountedNew, CountedDelete, OrphansUnchanged
       DEF Client, Return, NoSocket, InsertObj, RemoveObj, MapObj, UseObj, Dbg
  <2>3. CASE StaticHandle \/ initPosixApiIface \/ \E a \in App : Call(a)
    BY <2>3, OrphansUnchanged DEF StaticHandle, initPosixApiIface, Call
  <2>4. CASE Terminated \/ UNCHANGED vars
    BY <2>4, OrphansUnchanged DEF Terminated, vars
  <2> QED
    BY <2>2, <2>3, <2>4 DEF Next
<1> QED
  BY <1>1, <1>2, InvHolds, PTL DEF Spec

\* A sub and its handle know each other for as long as they live, and nothing
\* is ever left behind but the two ShadowDepends of each deleted DependHandle.
THEOREM SubsHold == Spec => []SubsAccounted
<1>1. Inv /\ Counted => SubsAccounted
  BY DEF Inv, WellMade, Complete, Subbed, Counted, SubsAccounted, Objects
<1> QED
  BY <1>1, InvHolds, CountedHolds, PTL
-----------------------------------------------------------------------------
(* Files and sockets. *)

\* The way from a handle, or a ShadowUdpHandle, to what it was made for.
Wired(h) ==
    /\ mem.class[h] \in {"Blocker", "DependHandle"} => made[h] = NULL
    /\ mem.class[h] = "UnixFdHandle" =>
         /\ made[h] \in File \X Mode
         /\ mem.mode[mem.shadow[h]] = made[h][2]
         /\ mem.fd[mem.shadow[h]] \in Fd
         /\ made[h][1] \notin closed => mem.open[mem.fd[mem.shadow[h]]] = made[h][1]
    /\ mem.class[h] = "UdpHandle" =>
         made[h] = <<mem.sub[h], mem.mode[mem.shadow[mem.sub[h]]]>>
    /\ mem.class[h] = "ShadowUdpHandle" =>
         /\ mem.fd[mem.shadow[h]] \in Fd
         /\ mem.open[mem.fd[mem.shadow[h]]] = h

AllWired == \A h \in Addr : Wired(h)

\* What a step has to leave alone for a handle to stay wired.
LEMMA StaysWired ==
    ASSUME Inv, NEW h \in Addr, Wired(h), mem.class[h] \in HandleLike,
           Same(mem, mem', h), Same(mem, mem', mem.shadow[h]),
           mem.class[h] = "UdpHandle" =>
             Same(mem, mem', mem.sub[h]) /\ Same(mem, mem', mem.shadow[mem.sub[h]]),
           made'[h] = made[h], closed' = closed,
           \A n \in Fd : mem.open[n] \in File \cup {h} => mem'.open[n] = mem.open[n]
    PROVE  Wired(h)'
<1>1. CASE mem.class[h] \in {"Blocker", "DependHandle"}
  BY <1>1 DEF Wired, Same
<1>2. CASE mem.class[h] = "UnixFdHandle"
  BY <1>2 DEF Wired, Same
<1>3. CASE mem.class[h] = "UdpHandle"
  BY <1>3 DEF Wired, Same
<1>4. CASE mem.class[h] = "ShadowUdpHandle"
  BY <1>4 DEF Wired, Same
<1> QED
  BY <1>1, <1>2, <1>3, <1>4 DEF HandleLike, HandleClass

LEMMA WiredNew ==
    ASSUME Inv, AllWired, NEW a \in App, NEW c \in HandleClass, NEW n \in Fd,
           NEW md \in Mode, NewHandle(a, c, n, md)
    PROVE  AllWired'
<1>1. PICK h \in Free(mem) :
        /\ AddsHandle(mem, mem', h, c, n, md)
        /\ made' = [made EXCEPT ![h] = MadeFor(mem', h, c, n, md)]
  BY NewHandleAdds DEF Inv
<1>2. h \in Addr /\ made'[h] = MadeFor(mem', h, c, n, md) /\ UNCHANGED closed
      /\ \A g \in Addr \ {h} : made'[g] = made[g]
  BY <1>1 DEF Free, NewHandle, Inv, TypeOK
<1>3. ASSUME NEW N, Adds(mem, mem', N), h \in N, NEW g \in Addr \ N,
             \A o \in Fd : mem.open[o] \in File \cup Addr => mem'.open[o] = mem.open[o]
      PROVE  Wired(g)'
  <2>1. Same(mem, mem', g) /\ g # h
    BY <1>3 DEF Adds
  <2>2. CASE mem.class[g] \notin HandleLike
    BY <2>1, <2>2 DEF Wired, Same, HandleLike, HandleClass
  <2>3. CASE mem.class[g] \in HandleLike
    <3>1. mem.shadow[g] \in Addr \ N
      BY <1>3, <2>3 DEF Adds, Free, Inv, WellMade, Complete, Shadowed
    <3>2. ASSUME mem.class[g] = "UdpHandle"
          PROVE  mem.sub[g] \in Addr \ N /\ mem.shadow[mem.sub[g]] \in Addr \ N
      <4>1. mem.sub[g] \in Addr /\ mem.class[mem.sub[g]] = "ShadowUdpHandle"
        BY <3>2 DEF Inv, WellMade, Complete, Subbed
      <4>2. /\ mem.shadow[mem.sub[g]] \in Addr
            /\ mem.class[mem.shadow[mem.sub[g]]] = "ShadowHandle"
        BY <4>1 DEF Inv, WellMade, Complete, Shadowed, HandleLike
      <4> QED
        BY <1>3, <4>1, <4>2 DEF Adds, Free
    <3>3. Same(mem, mem', mem.shadow[g])
      BY <1>3, <3>1 DEF Adds
    <3>4. mem.class[g] = "UdpHandle" =>
            Same(mem, mem', mem.sub[g]) /\ Same(mem, mem', mem.shadow[mem.sub[g]])
      BY <1>3, <3>2 DEF Adds
    <3>5. Wired(g)
      BY DEF AllWired
    <3> QED
      BY <1>2, <1>3, <2>1, <2>3, <3>3, <3>4, <3>5, StaysWired
  <2> QED
    BY <2>2, <2>3
<1>4. ASSUME c = "Blocker", NEW s \in Addr, AddsBlocker(mem, mem', h, s)
      PROVE  AllWired'
  <2>1. Wired(h)' /\ Wired(s)'
    BY <1>2, <1>4 DEF AddsBlocker, WithShadow, Wired, MadeFor
  <2>2. Adds(mem, mem', {h, s}) /\ mem'.open = mem.open
    BY <1>4 DEF AddsBlocker
  <2>3. \A g \in Addr \ {h, s} : Wired(g)'
    BY <1>3, <2>2
  <2> QED
    BY <2>1, <2>3 DEF AllWired
<1>5. ASSUME c = "UnixFdHandle", NEW s \in Addr, AddsUnixFd(mem, mem', h, s, n, md)
      PROVE  AllWired'
  <2>1. Adds(mem, mem', {h, s}) /\ mem'.open = mem.open
    BY <1>5 DEF AddsUnixFd
  <2>2. Wired(s)'
    BY <1>5 DEF AddsUnixFd, WithShadow, Wired
  <2>3. Wired(h)'
    <3>1. mem.open[n] \in File /\ made'[h] = <<mem.open[n], md>>
      BY <1>2, <1>5 DEF NewHandle, MadeFor
    <3>2. /\ mem'.class[h] = "UnixFdHandle" /\ mem'.shadow[h] = s
          /\ mem'.mode[s] = md /\ mem'.fd[s] = n /\ mem'.open = mem.open
      BY <1>5 DEF AddsUnixFd, WithShadow
    <3> QED
      BY <3>1, <3>2 DEF Wired
  <2>4. \A g \in Addr \ {h, s} : Wired(g)'
    BY <1>3, <2>1
  <2> QED
    BY <2>2, <2>3, <2>4 DEF AllWired
<1>6. ASSUME c = "DependHandle", NEW s \in Addr, NEW d \in Addr,
             AddsDepend(mem, mem', h, s, d)
      PROVE  AllWired'
  <2>1. Wired(h)' /\ Wired(s)' /\ Wired(d)'
    BY <1>2, <1>6 DEF AddsDepend, WithShadow, Wired, MadeFor
  <2>2. Adds(mem, mem', {h, s, d}) /\ mem'.open = mem.open
    BY <1>6 DEF AddsDepend
  <2>3. \A g \in Addr \ {h, s, d} : Wired(g)'
    BY <1>3, <2>2
  <2> QED
    BY <2>1, <2>3 DEF AllWired
<1>7. ASSUME c = "UdpHandle", NEW s \in Addr, NEW u \in Addr, NEW t \in Addr,
             NEW f \in Fd, AddsUdp(mem, mem', h, s, u, t, f, md)
      PROVE  AllWired'
  <2>1. /\ Adds(mem, mem', {h, s, u, t})
        /\ mem.open[f] = NULL /\ mem'.open = [mem.open EXCEPT ![f] = u]
        /\ mem.open \in [Fd -> File \cup Addr \cup {NULL}]
    BY <1>7 DEF AddsUdp, Inv, TypeOK, Memory
  <2>2. \A o \in Fd : mem.open[o] \in File \cup Addr => mem'.open[o] = mem.open[o]
    BY <2>1, AppsAssumption
  <2>3. Wired(s)' /\ Wired(t)'
    BY <1>7 DEF AddsUdp, WithShadow, Wired
  <2>4. /\ mem'.class[h] = "UdpHandle" /\ mem'.sub[h] = u
        /\ mem'.class[u] = "ShadowUdpHandle" /\ mem'.shadow[u] = t
        /\ mem'.mode[t] = md /\ mem'.fd[t] = f
    BY <1>7 DEF AddsUdp, WithShadow
  <2>5. made'[h] = <<mem'.sub[h], md>>
    BY <1>2, <1>7 DEF MadeFor
  <2>6. Wired(h)'
    BY <2>4, <2>5 DEF Wired
  <2>7. mem'.open[f] = u
    BY <2>1
  <2>8. Wired(u)'
    BY <2>4, <2>7 DEF Wired
  <2>9. \A g \in Addr \ {h, s, u, t} : Wired(g)'
    BY <1>3, <2>1, <2>2
  <2> QED
    BY <2>3, <2>6, <2>8, <2>9 DEF AllWired
<1> QED
  BY <1>1, <1>4, <1>5, <1>6, <1>7 DEF AddsHandle
LEMMA WiredDelete ==
    ASSUME Inv, AllWired, NEW a \in App, NEW h \in Addr, DeleteHandle(a, h)
    PROVE  AllWired'
<1>1. mem.class[h] \in HandleClass /\ RemovesHandle(mem, mem', h)
  BY DeleteRemoves
<1>2. UNCHANGED closed /\ \A g \in Addr \ {h} : made'[g] = made[g]
  BY DEF DeleteHandle, Inv, TypeOK
<1>3. mem.shadow[h] \in Addr /\ mem.class[mem.shadow[h]] = "ShadowHandle"
  BY <1>1 DEF Inv, WellMade, Complete, Shadowed, HandleLike
\* D is what h consists of.
<1>4. ASSUME NEW D \in SUBSET Addr, h \in D,
             \A g \in Addr \ D : Same(mem, mem', g),
             \A g \in Addr \ D : mem.class[g] \in HandleLike => mem.shadow[g] \notin D,
             \A g \in Addr \ D : mem.class[g] = "UdpHandle" => mem.sub[g] \notin D,
             NEW g \in Addr \ D,
             \A n \in Fd : mem.open[n] \in File \cup {g} => mem'.open[n] = mem.open[n]
      PROVE  Wired(g)'
  <2>1. Same(mem, mem', g) /\ g # h
    BY <1>4
  <2>2. CASE mem.class[g] \notin HandleLike
    BY <2>1, <2>2 DEF Wired, Same, HandleLike, HandleClass
  <2>3. CASE mem.class[g] \in HandleLike
    <3>1. Same(mem, mem', mem.shadow[g])
      BY <1>4, <2>3 DEF Inv, WellMade, Complete, Shadowed
    <3>2. ASSUME mem.class[g] = "UdpHandle"
          PROVE  Same(mem, mem', mem.sub[g]) /\ Same(mem, mem', mem.shadow[mem.sub[g]])
      <4>1. mem.sub[g] \in Addr \ D /\ mem.class[mem.sub[g]] = "ShadowUdpHandle"
        BY <1>4, <3>2 DEF Inv, WellMade, Complete, Subbed
      <4>2. mem.shadow[mem.sub[g]] \in Addr \ D
        BY <1>4, <4>1 DEF Inv, WellMade, Complete, Shadowed, HandleLike
      <4> QED
        BY <1>4, <4>1, <4>2
    <3>3. Wired(g)
      BY DEF AllWired
    <3> QED
      BY <1>2, <1>4, <2>1, <2>3, <3>1, <3>2, <3>3, StaysWired
  <2> QED
    BY <2>2, <2>3
<1>5. CASE /\ mem.class[h] \in {"Blocker", "UnixFdHandle"}
           /\ Gone(mem, mem', {h, mem.shadow[h]})
           /\ mem'.open = mem.open
  <2> DEFINE D == {h, mem.shadow[h]}
  <2>1. \A g \in Addr \ D :
          /\ mem.class[g] \in HandleLike => mem.shadow[g] \notin D
          /\ mem.class[g] = "UdpHandle" => mem.sub[g] \notin D
    BY <1>1, <1>3, <1>5 DEF Inv, WellMade, Complete, Shadowed, Subbed, HandleLike,
                            HandleClass
  <2>2. D \in SUBSET Addr /\ \A g \in Addr \ D : Same(mem, mem', g)
    BY <1>3, <1>5 DEF Gone
  <2>3. \A g \in Addr \ D : Wired(g)'
    BY <1>4, <1>5, <2>1, <2>2
  <2>4. \A g \in D : mem'.class[g] = "free"
    BY <1>3, <1>5 DEF Gone
  <2>5. \A g \in D : Wired(g)'
    BY <2>4 DEF Wired
  <2> QED
    BY <2>3, <2>5 DEF AllWired
<1>6. ASSUME mem.class[h] = "DependHandle", NEW d \in Addr,
             RemovesDepend(mem, mem', h, d)
      PROVE  AllWired'
  <2> DEFINE D == {h, mem.shadow[h], d}
  <2>0. mem.class[d] = "free" /\ mem'.open = mem.open
    BY <1>6 DEF RemovesDepend, Free
  <2>1. \A g \in Addr \ D :
          /\ mem.class[g] \in HandleLike => mem.shadow[g] \notin D
          /\ mem.class[g] = "UdpHandle" => mem.sub[g] \notin D
    BY <1>1, <1>3, <1>6, <2>0
       DEF Inv, WellMade, Complete, Shadowed, Subbed, HandleLike, HandleClass
  <2>2. D \in SUBSET Addr /\ \A g \in Addr \ D : Same(mem, mem', g)
    BY <1>3, <1>6 DEF RemovesDepend
  <2>3. \A g \in Addr \ D : Wired(g)'
    BY <1>4, <2>0, <2>1, <2>2
  <2>4. \A g \in D : mem'.class[g] \in {"free", "ShadowDepend"}
    BY <1>6 DEF RemovesDepend
  <2>5. \A g \in D : Wired(g)'
    BY <2>4 DEF Wired
  <2> QED
    BY <2>3, <2>5 DEF AllWired
<1>7. CASE /\ mem.class[h] = "UdpHandle"
           /\ Gone(mem, mem', {h, mem.shadow[h], mem.sub[h], mem.shadow[mem.sub[h]]})
           /\ mem'.open = [n \in Fd |-> IF n > 0 /\ n = mem.fd[mem.shadow[mem.sub[h]]]
                                          THEN NULL ELSE mem.open[n]]
  <2>1. PICK u \in Addr : /\ u = mem.sub[h] /\ mem.class[u] = "ShadowUdpHandle"
                         /\ mem.master[u] = h
    BY <1>7 DEF Inv, WellMade, Complete, Subbed
  <2>2. PICK t \in Addr : t = mem.shadow[u] /\ mem.class[t] = "ShadowHandle"
    BY <2>1 DEF Inv, WellMade, Complete, Shadowed, HandleLike
  <2>3. PICK s \in Addr : s = mem.shadow[h] /\ mem.class[s] = "ShadowHandle"
    BY <1>3
  <2> DEFINE D == {h, s, u, t}
  <2>4. Gone(mem, mem', D)
    BY <1>7, <2>1, <2>2, <2>3
  <2>5. mem.fd[t] \in Fd /\ mem.open[mem.fd[t]] = u
    BY <2>1, <2>2 DEF AllWired, Wired
  <2>6. \A g \in Addr \ D : mem.class[g] \in HandleLike => mem.shadow[g] \notin D
    BY <1>7, <2>1, <2>2, <2>3
       DEF Inv, WellMade, Complete, Shadowed, HandleLike, HandleClass
  <2>7. \A g \in Addr \ D : mem.class[g] = "UdpHandle" => mem.sub[g] \notin D
    BY <1>7, <2>1, <2>2, <2>3 DEF Inv, WellMade, Complete, Subbed
  <2>8. \A n \in Fd : mem'.open[n] = IF n > 0 /\ n = mem.fd[t] THEN NULL ELSE mem.open[n]
    BY <1>7, <2>1, <2>2
  <2>9. ASSUME NEW g \in Addr \ D PROVE Wired(g)'
    <3>1. \A n \in Fd : mem.open[n] \in File \cup {g} => mem'.open[n] = mem.open[n]
      BY <2>5, <2>8, AppsAssumption
    <3>2. D \in SUBSET Addr /\ \A x \in Addr \ D : Same(mem, mem', x)
      BY <2>4 DEF Gone
    <3> QED
      BY <1>4, <2>6, <2>7, <3>1, <3>2
  <2>10. \A g \in D : mem'.class[g] = "free"
    BY <2>4 DEF Gone
  <2>11. \A g \in D : Wired(g)'
    BY <2>10 DEF Wired
  <2> QED
    BY <2>9, <2>11 DEF AllWired
<1> QED
  BY <1>1, <1>5, <1>6, <1>7 DEF RemovesHandle

LEMMA WiredClose ==
    ASSUME Inv, AllWired, NEW a \in App, NEW n \in Fd, CloseFile(a, n)
    PROVE  AllWired'
<1>1. /\ mem.open[n] \in File /\ closed' = closed \cup {mem.open[n]}
      /\ UNCHANGED made
      /\ mem'.class = mem.class /\ mem'.shadow = mem.shadow /\ mem'.sub = mem.sub
      /\ mem'.mode = mem.mode /\ mem'.fd = mem.fd
      /\ mem'.open = [mem.open EXCEPT ![n] = NULL]
      /\ mem.open \in [Fd -> File \cup Addr \cup {NULL}]
  BY DEF CloseFile, Inv, TypeOK, Memory
<1>2. SUFFICES ASSUME NEW h \in Addr, Wired(h) PROVE Wired(h)'
  BY DEF AllWired
<1>3. CASE mem.class[h] \in {"Blocker", "DependHandle", "UdpHandle"}
  BY <1>1, <1>2, <1>3 DEF Wired
<1>4. CASE mem.class[h] = "UnixFdHandle"
  <2>1. mem.open[mem.fd[mem.shadow[h]]] = made[h][1] /\ made[h][1] \notin closed'
        => mem'.open[mem.fd[mem.shadow[h]]] = made[h][1]
    BY <1>1, <1>2, <1>4 DEF Wired
  <2> QED
    BY <1>1, <1>2, <1>4, <2>1 DEF Wired
<1>5. CASE mem.class[h] = "ShadowUdpHandle"
  <2>1. mem'.open[mem.fd[mem.shadow[h]]] = h
    BY <1>1, <1>2, <1>5, AppsAssumption DEF Wired
  <2> QED
    BY <1>1, <1>2, <1>5, <2>1 DEF Wired
<1>6. CASE mem.class[h] \notin HandleLike
  BY <1>1, <1>6 DEF Wired, HandleLike, HandleClass
<1> QED
  BY <1>3, <1>4, <1>5, <1>6 DEF HandleLike, HandleClass

LEMMA WiredUnchanged ==
    ASSUME AllWired, UNCHANGED <<mem, made, closed>>
    PROVE  AllWired'
BY DEF AllWired, Wired

LEMMA WiredHolds == Spec => []AllWired
<1>1. Init => AllWired
  BY DEF Init, AllWired, Wired
<1>2. Inv /\ AllWired /\ [Next]_vars => AllWired'
  <2> SUFFICES ASSUME Inv, AllWired, [Next]_vars PROVE AllWired'
    OBVIOUS
  <2>1. ASSUME NEW a \in App, Client(a) PROVE AllWired'
    BY <2>1, WiredNew, WiredDelete, WiredClose, WiredUnchanged
       DEF Client, Return, NoSocket, InsertObj, RemoveObj, MapObj, UseObj, Dbg
  <2>2. CASE StaticHandle \/ initPosixApiIface \/ \E a \in App : Call(a)
    BY <2>2, WiredUnchanged DEF StaticHandle, initPosixApiIface, Call
  <2>3. CASE Terminated \/ UNCHANGED vars
    BY <2>3, WiredUnchanged DEF Terminated, vars
  <2> QED
    BY <2>1, <2>2, <2>3 DEF Next
<1> QED
  BY <1>1, <1>2, InvHolds, PTL DEF Spec

\* The event loop watches, and transfers use, what a handle was made for, until
\* a client closes that: no constructor, destructor or socket of another handle
\* comes in between.
THEOREM FilesHold == Spec => []WatchesItsFile
<1>1. Inv /\ AllWired => WatchesItsFile
  <2> SUFFICES ASSUME Inv, AllWired, NEW h \in Objects(HandleClass)
               PROVE  IF made[h] = NULL THEN ~ HasDescriptor(mem, h)
                      ELSE made[h][1] \notin closed =>
                             /\ HasDescriptor(mem, h)
                             /\ mem.open[Watch(mem, h)[1]] = made[h][1]
                             /\ Watch(mem, h)[2] = made[h][2]
                             /\ TransferOn(mem, h) = Watch(mem, h)[1]
    BY DEF WatchesItsFile
  <2>1. h \in Addr /\ Wired(h) /\ mem.type[mem.shadow[h]] = TypeOf(mem.class[h])
    BY DEF Objects, AllWired, Inv, WellMade, Complete, Shadowed, HandleLike
  <2>2. CASE mem.class[h] \in {"Blocker", "DependHandle"}
    BY <2>1, <2>2 DEF Wired, HasDescriptor, TypeOf
  <2>3. CASE mem.class[h] = "UnixFdHandle"
    <3>1. made[h] # NULL
      BY <2>1, <2>3, AppsAssumption DEF Wired
    <3> QED
      BY <2>1, <2>3, <3>1
         DEF Wired, HasDescriptor, TypeOf, Watch, Watched, TransferOn
  <2>4. CASE mem.class[h] = "UdpHandle"
    <3>1. /\ mem.sub[h] \in Addr /\ mem.class[mem.sub[h]] = "ShadowUdpHandle"
          /\ mem.shadow[mem.sub[h]] \in Addr
      BY <2>1, <2>4 DEF Inv, WellMade, Complete, Shadowed, Subbed, HandleLike
    <3>2. mem.mode[mem.shadow[mem.sub[h]]] \in Mode
      BY <3>1 DEF Inv, TypeOK, Memory
    <3>3. made[h] # NULL /\ made[h] = <<mem.sub[h], mem.mode[mem.shadow[mem.sub[h]]]>>
      <4>1. made[h] = <<mem.sub[h], mem.mode[mem.shadow[mem.sub[h]]]>>
        BY <2>1, <2>4 DEF Wired
      <4>2. made[h] \in (File \cup Addr) \X Mode
        BY <3>1, <3>2, <4>1
      <4> QED
        BY <4>1, <4>2, AppsAssumption
    <3>4. mem.open[mem.fd[mem.shadow[mem.sub[h]]]] = mem.sub[h]
      BY <3>1 DEF AllWired, Wired
    <3> QED
      BY <2>1, <2>4, <3>3, <3>4 DEF HasDescriptor, TypeOf, Watch, Watched, TransferOn
  <2> QED
    BY <2>2, <2>3, <2>4 DEF Objects, HandleClass
<1> QED
  BY <1>1, InvHolds, WiredHolds, PTL
-----------------------------------------------------------------------------
(* Names, under the rule that the result of an insertion is looked at. *)

StreamEntry == [type |-> "std::ostream**", obj |-> STREAM]

\* Before the stream is registered there is nothing; then every name has one
\* holder at most, who has what the repository has.
Named ==
    /\ pc \in {"static", "null_api"} =>
         /\ \A n \in Name : ~ Registered(n)
         /\ \A a \in App, n \in Name : mine[a][n] = NULL
    /\ pc \notin {"static", "null_api"} => rep[Key(DefaultOstream)] = StreamEntry
    /\ \A a \in App, n \in Name : mine[a][n] # NULL =>
         Registered(n) /\ rep[Key(n)].obj = mine[a][n]
    /\ \A a, b \in App, n \in Name : mine[a][n] # NULL /\ mine[b][n] # NULL => a = b

LEMMA Keys ==
    /\ \A n \in Name : Key(n) \in RepKey
    /\ \A n, o \in Name : Key(n) = Key(o) => n = o
BY DEF Key, RepKey, whichNode

\* What an insertion and a removal make of the repository.
LEMMA Inserted ==
    ASSUME TypeOK, NEW n \in Name, NEW t, NEW o, ~ Registered(n), insertObj(n, t, o)
    PROVE  /\ rep'[Key(n)] = [type |-> t, obj |-> o]
           /\ \A m \in Name \ {n} : rep'[Key(m)] = rep[Key(m)]
BY Keys DEF insertObj, WithObj, TypeOK

LEMMA Removed ==
    ASSUME TypeOK, NEW n \in Name, removeObject(n)
    PROVE  /\ rep'[Key(n)] = NULL
           /\ \A m \in Name \ {n} : rep'[Key(m)] = rep[Key(m)]
BY Keys DEF removeObject, TypeOK

\* An entry is not mistaken for none.
LEMMA EntryIsSome ==
    ASSUME NEW t \in HandleClass \cup {"std::ostream**"}, NEW o \in Addr \cup {STREAM}
    PROVE  [type |-> t, obj |-> o] # NULL
<1>1. [type |-> t, obj |-> o] \in RepValue
  BY DEF RepValue
<1> QED
  BY <1>1, AppsAssumption

LEMMA NamedUnchanged ==
    ASSUME Named, UNCHANGED <<rep, mine>>,
           pc \in {"static", "null_api"} <=> pc' \in {"static", "null_api"}
    PROVE  Named'
BY DEF Named, Registered

LEMMA NamedInit == Init => Named
<1> SUFFICES ASSUME Init PROVE Named
  OBVIOUS
<1>1. \A n \in Name : rep[Key(n)] = NULL
  BY Keys DEF Init, Empty
<1> QED
  BY <1>1 DEF Init, Named, Registered

LEMMA NamedStart ==
    ASSUME Inv, Named, initPosixApiIface
    PROVE  Named'
<1>1. /\ DefaultOstream \in Name /\ pc = "static" /\ pc' = "main" /\ mine' = mine
      /\ insertObj(DefaultOstream, "std::ostream**", STREAM)
  BY AppsAssumption DEF initPosixApiIface
<1>2. rep'[Key(DefaultOstream)] = StreamEntry
  BY <1>1, Inserted DEF Inv, Named, StreamEntry
<1> QED
  BY <1>1, <1>2 DEF Named

LEMMA NamedInsert ==
    ASSUME Inv, Named, "checks_insert" \in ClientRules, NEW a \in App, NEW n \in Name,
           NEW h \in Addr, InsertObj(a, n, h)
    PROVE  Named'
<1>1. pc = a /\ pc' = pc /\ pc \notin {"static", "null_api"}
  BY AppsAssumption DEF InsertObj
<1>2. mem.class[h] \in HandleClass /\ h # NULL
  BY AppsAssumption DEF InsertObj, Inv, Owned
<1>3. CASE Registered(n)
  BY <1>1, <1>3, NamedUnchanged DEF InsertObj, insertObj, WithObj
<1>4. CASE ~ Registered(n)
  <2>1. /\ rep'[Key(n)] = [type |-> mem.class[h], obj |-> h]
        /\ \A m \in Name \ {n} : rep'[Key(m)] = rep[Key(m)]
    BY <1>4, Inserted DEF InsertObj, Inv
  <2>2. rep'[Key(n)] # NULL /\ rep'[Key(n)].obj = h
    BY <1>2, <2>1, EntryIsSome
  <2>3. /\ mine'[a][n] = h
        /\ \A b \in App, m \in Name : b # a \/ m # n => mine'[b][m] = mine[b][m]
    BY <1>4 DEF InsertObj, Inv, TypeOK
  <2>4. n # DefaultOstream
    BY <1>1, <1>4, EntryIsSome DEF Named, StreamEntry, Registered
  <2>5. \A b \in App : mine[b][n] = NULL
    BY <1>4 DEF Named
  <2>6. rep'[Key(DefaultOstream)] = StreamEntry
    BY <1>1, <2>1, <2>4, AppsAssumption DEF Named
  <2>7. \A b \in App, m \in Name : mine'[b][m] # NULL =>
          rep'[Key(m)] # NULL /\ rep'[Key(m)].obj = mine'[b][m]
    BY <2>1, <2>2, <2>3, <2>5 DEF Named, Registered
  <2>8. \A b, c \in App, m \in Name :
          mine'[b][m] # NULL /\ mine'[c][m] # NULL => b = c
    BY <2>3, <2>5 DEF Named
  <2> QED
    BY <1>1, <2>6, <2>7, <2>8 DEF Named, Registered
<1> QED
  BY <1>3, <1>4

LEMMA NamedRemove ==
    ASSUME Inv, Named, NEW a \in App, NEW n \in Name, RemoveObj(a, n)
    PROVE  Named'
<1>1. pc = a /\ pc' = pc /\ pc \notin {"static", "null_api"} /\ mine[a][n] # NULL
  BY AppsAssumption DEF RemoveObj
<1>2. /\ rep'[Key(n)] = NULL
      /\ \A m \in Name \ {n} : rep'[Key(m)] = rep[Key(m)]
  BY Removed DEF RemoveObj, Inv
<1>3. n # DefaultOstream
  BY <1>1, AppsAssumption DEF Named, StreamEntry, Inv, TypeOK
<1>4. /\ mine'[a][n] = NULL
      /\ \A b \in App, m \in Name : b # a \/ m # n => mine'[b][m] = mine[b][m]
  BY DEF RemoveObj, Inv, TypeOK
<1>5. \A b \in App \ {a} : mine[b][n] = NULL
  BY <1>1 DEF Named
<1>6. rep'[Key(DefaultOstream)] = StreamEntry
  BY <1>1, <1>2, <1>3, AppsAssumption DEF Named
<1>7. \A b \in App, m \in Name : mine'[b][m] # NULL =>
        m # n /\ mine'[b][m] = mine[b][m]
  BY <1>4, <1>5
<1> QED
  BY <1>1, <1>2, <1>6, <1>7 DEF Named, Registered

LEMMA NamedHolds ==
    ASSUME "checks_insert" \in ClientRules
    PROVE  Spec => []Named
<1>1. Inv /\ Named /\ [Next]_vars => Named'
  <2> SUFFICES ASSUME Inv, Named, [Next]_vars PROVE Named'
    OBVIOUS
  <2>1. ASSUME NEW a \in App, Client(a) PROVE Named'
    <3>1. pc = a /\ pc \notin {"static", "null_api"} /\ "main" \notin {"static", "null_api"}
      BY <2>1, AppsAssumption
         DEF Client, Return, NewHandle, NoSocket, DeleteHandle, InsertObj, CloseFile,
             RemoveObj, MapObj, UseObj, Dbg
    <3>2. CASE Return(a) \/ NoSocket(a) \/ UseObj(a) \/ Dbg(a)
      BY <3>1, <3>2, NamedUnchanged DEF Return, NoSocket, UseObj, Calling, Dbg
    <3>3. CASE \E c \in HandleClass, n \in Fd, md \in Mode : NewHandle(a, c, n, md)
      BY <3>1, <3>3, NamedUnchanged DEF NewHandle
    <3>4. CASE \E h \in Addr : DeleteHandle(a, h)
      BY <3>1, <3>4, NamedUnchanged DEF DeleteHandle
    <3>5. CASE \E n \in Fd : CloseFile(a, n)
      BY <3>1, <3>5, NamedUnchanged DEF CloseFile
    <3>6. CASE \E n \in Name, c \in HandleClass : MapObj(a, n, c)
      BY <3>1, <3>6, NamedUnchanged DEF MapObj
    <3> QED
      BY <2>1, <3>2, <3>3, <3>4, <3>5, <3>6, NamedInsert, NamedRemove DEF Client
  <2>2. ASSUME NEW a \in App, Call(a) PROVE Named'
    BY <2>2, NamedUnchanged, AppsAssumption DEF Call
  <2>3. CASE StaticHandle
    BY <2>3, NamedUnchanged DEF StaticHandle
  <2>4. CASE Terminated \/ UNCHANGED vars
    BY <2>4, NamedUnchanged DEF Terminated, vars
  <2> QED
    BY <2>1, <2>2, <2>3, <2>4, NamedStart DEF Next
<1> QED
  BY <1>1, NamedInit, InvHolds, PTL DEF Spec

\* Applications that look at the result of insertObj() keep what they have
\* registered, and the stream of GEA.dbg() stays.
THEOREM RegistrationsHold ==
    ASSUME "checks_insert" \in ClientRules
    PROVE  Spec => []RegistrationKept
<1>1. Named => RegistrationKept
  <2> SUFFICES ASSUME Named PROVE RegistrationKept
    OBVIOUS
  <2>1. ASSUME pc \notin {"static", "null_api"} PROVE getObj(DefaultOstream) = STREAM
    BY <2>1, EntryIsSome DEF Named, StreamEntry, getObj, Registered
  <2> QED
    BY <2>1 DEF Named, RegistrationKept, getObj
<1> QED
  BY <1>1, NamedHolds, PTL
-----------------------------------------------------------------------------
(* Handles behind names, under the rule that a name is removed first. *)

\* A registered handle belongs to who registered it, and is what it is
\* registered as.
Backed ==
    /\ \A n \in Name : Registered(n) =>
         \/ n = DefaultOstream /\ rep[Key(n)] = StreamEntry
         \/ \E a \in App : mine[a][n] # NULL
    /\ \A a \in App, n \in Name : mine[a][n] # NULL =>
         /\ owner[mine[a][n]] = a
         /\ rep[Key(n)].type = mem.class[mine[a][n]]

\* A step that leaves what is registered alone.
LEMMA BackedKept ==
    ASSUME Inv, Backed, UNCHANGED <<rep, mine>>,
           \A a \in App, n \in Name : mine[a][n] # NULL =>
             /\ owner'[mine[a][n]] = owner[mine[a][n]]
             /\ mem'.class[mine[a][n]] = mem.class[mine[a][n]]
    PROVE  Backed'
BY DEF Backed, Registered

LEMMA BackedNew ==
    ASSUME Inv, Backed, NEW a \in App, NEW c \in HandleClass, NEW n \in Fd,
           NEW md \in Mode, NewHandle(a, c, n, md)
    PROVE  Backed'
<1>1. PICK h \in Free(mem) :
        AddsHandle(mem, mem', h, c, n, md) /\ owner' = [owner EXCEPT ![h] = a]
  BY NewHandleAdds DEF Inv
<1>2. PICK N : Adds(mem, mem', N)
  BY <1>1 DEF AddsHandle, AddsBlocker, AddsUnixFd, AddsDepend, AddsUdp
<1>3. ASSUME NEW b \in App, NEW m \in Name, mine[b][m] # NULL
      PROVE  /\ owner'[mine[b][m]] = owner[mine[b][m]]
             /\ mem'.class[mine[b][m]] = mem.class[mine[b][m]]
  <2>1. mine[b][m] \in Addr /\ owner[mine[b][m]] # NULL
    BY <1>3, AppsAssumption DEF Backed, Inv, TypeOK
  <2>2. mem.class[mine[b][m]] \in HandleClass
    BY <2>1 DEF Inv, Owned
  <2>3. mine[b][m] \notin Free(mem)
    BY <2>2 DEF Free, HandleClass
  <2> QED
    BY <1>1, <1>2, <2>1, <2>3 DEF Adds, Same, Inv, TypeOK
<1> QED
  BY <1>3, BackedKept DEF NewHandle

LEMMA BackedDelete ==
    ASSUME Inv, Backed, "removes_first" \in ClientRules, NEW a \in App,
           NEW h \in Addr, DeleteHandle(a, h)
    PROVE  Backed'
<1>1. ASSUME NEW b \in App, NEW m \in Name, mine[b][m] # NULL
      PROVE  /\ owner'[mine[b][m]] = owner[mine[b][m]]
             /\ mem'.class[mine[b][m]] = mem.class[mine[b][m]]
  <2>1. mine[b][m] \in Addr /\ owner[mine[b][m]] = b
    BY <1>1 DEF Backed, Inv, TypeOK
  <2>2. mine[b][m] # h
    BY <2>1 DEF DeleteHandle
  <2>3. mem.class[mine[b][m]] \in HandleClass
    BY <2>1, AppsAssumption DEF Inv, Owned
  <2>4. mem'.class[mine[b][m]] = mem.class[mine[b][m]]
    BY <2>1, <2>2, <2>3, DeleteRemoves, RemovesOne DEF Inv
  <2> QED
    BY <2>1, <2>2, <2>4 DEF DeleteHandle, Inv, TypeOK
<1> QED
  BY <1>1, BackedKept DEF DeleteHandle

LEMMA BackedInsert ==
    ASSUME Inv, Named, Backed, "checks_insert" \in ClientRules, NEW a \in App,
           NEW n \in Name, NEW h \in Addr, InsertObj(a, n, h)
    PROVE  Backed'
<1>1. owner[h] = a /\ UNCHANGED <<mem, owner>>
  BY DEF InsertObj
<1>2. CASE Registered(n)
  BY <1>1, <1>2, BackedKept DEF InsertObj, insertObj, WithObj
<1>3. CASE ~ Registered(n)
  <2>1. /\ rep'[Key(n)] = [type |-> mem.class[h], obj |-> h]
        /\ \A m \in Name \ {n} : rep'[Key(m)] = rep[Key(m)]
    BY <1>3, Inserted DEF InsertObj, Inv
  <2>2. /\ mine'[a][n] = h
        /\ \A b \in App, m \in Name : b # a \/ m # n => mine'[b][m] = mine[b][m]
    BY <1>3 DEF InsertObj, Inv, TypeOK
  <2>3. \A b \in App : mine[b][n] = NULL
    BY <1>3 DEF Named
  <2>4. h # NULL
    BY AppsAssumption
  <2>5. \A m \in Name : rep'[Key(m)] # NULL =>
          \/ m = DefaultOstream /\ rep'[Key(m)] = StreamEntry
          \/ \E b \in App : mine'[b][m] # NULL
    BY <2>1, <2>2, <2>4 DEF Backed, Registered
  <2>6. \A b \in App, m \in Name : mine'[b][m] # NULL =>
          /\ owner[mine'[b][m]] = b
          /\ rep'[Key(m)].type = mem.class[mine'[b][m]]
    BY <1>1, <2>1, <2>2, <2>3 DEF Backed
  <2> QED
    BY <1>1, <2>5, <2>6 DEF Backed, Registered
<1> QED
  BY <1>2, <1>3

LEMMA BackedRemove ==
    ASSUME Inv, Named, Backed, NEW a \in App, NEW n \in Name, RemoveObj(a, n)
    PROVE  Backed'
<1>1. mine[a][n] # NULL /\ UNCHANGED <<mem, owner>>
  BY DEF RemoveObj
<1>2. /\ rep'[Key(n)] = NULL
      /\ \A m \in Name \ {n} : rep'[Key(m)] = rep[Key(m)]
  BY Removed DEF RemoveObj, Inv
<1>3. /\ mine'[a][n] = NULL
      /\ \A b \in App, m \in Name : b # a \/ m # n => mine'[b][m] = mine[b][m]
  BY DEF RemoveObj, Inv, TypeOK
<1>4. \A b \in App \ {a} : mine[b][n] = NULL
  BY <1>1 DEF Named
<1>5. \A b \in App, m \in Name : mine'[b][m] # NULL =>
        m # n /\ mine'[b][m] = mine[b][m]
  BY <1>3, <1>4
<1>6. \A m \in Name : rep'[Key(m)] # NULL =>
        \/ m = DefaultOstream /\ rep'[Key(m)] = StreamEntry
        \/ \E b \in App : mine'[b][m] # NULL
  BY <1>2, <1>3 DEF Backed, Registered
<1>7. \A b \in App, m \in Name : mine'[b][m] # NULL =>
        /\ owner[mine'[b][m]] = b
        /\ rep'[Key(m)].type = mem.class[mine'[b][m]]
  BY <1>2, <1>5 DEF Backed
<1> QED
  BY <1>1, <1>6, <1>7 DEF Backed, Registered

LEMMA BackedStart ==
    ASSUME Inv, Named, Backed, initPosixApiIface
    PROVE  Backed'
<1>1. /\ DefaultOstream \in Name /\ UNCHANGED <<mem, owner, mine>>
      /\ insertObj(DefaultOstream, "std::ostream**", STREAM)
      /\ \A n \in Name : ~ Registered(n)
      /\ \A a \in App, n \in Name : mine[a][n] = NULL
  BY AppsAssumption DEF initPosixApiIface, Named
<1>2. /\ rep'[Key(DefaultOstream)] = StreamEntry
      /\ \A m \in Name \ {DefaultOstream} : rep'[Key(m)] = NULL
  BY <1>1, Inserted DEF Inv, StreamEntry, Registered
<1> QED
  BY <1>1, <1>2 DEF Backed, Registered

LEMMA BackedHolds ==
    ASSUME {"checks_insert", "removes_first"} \subseteq ClientRules
    PROVE  Spec => [](Named /\ Backed)
<1>1. Init => Backed
  <2> SUFFICES ASSUME Init PROVE Backed
    OBVIOUS
  <2>1. \A n \in Name : rep[Key(n)] = NULL
    BY Keys DEF Init, Empty
  <2> QED
    BY <2>1 DEF Init, Backed, Registered
<1>2. Inv /\ Named /\ Backed /\ [Next]_vars => Backed'
  <2> SUFFICES ASSUME Inv, Named, Backed, [Next]_vars PROVE Backed'
    OBVIOUS
  <2>1. ASSUME UNCHANGED <<mem, rep, mine, owner>> PROVE Backed'
    BY <2>1, BackedKept
  <2>2. ASSUME NEW a \in App, NEW n \in Fd, CloseFile(a, n) PROVE Backed'
    <3>1. mem'.class = mem.class
      BY <2>2 DEF CloseFile, Inv, TypeOK, Memory
    <3> QED
      BY <2>2, <3>1, BackedKept DEF CloseFile
  <2>3. ASSUME NEW a \in App, Client(a) PROVE Backed'
    <3>1. CASE \E c \in HandleClass, n \in Fd, md \in Mode : NewHandle(a, c, n, md)
      BY <3>1, BackedNew
    <3>2. CASE \E h \in Addr : DeleteHandle(a, h)
      BY <3>2, BackedDelete
    <3>3. CASE \E h \in Addr, n \in Name : InsertObj(a, n, h)
      BY <3>3, BackedInsert
    <3>4. CASE \E n \in Name : RemoveObj(a, n)
      BY <3>4, BackedRemove
    <3>5. CASE \/ Return(a) \/ NoSocket(a) \/ UseObj(a) \/ Dbg(a)
               \/ \E n \in Name, c \in HandleClass : MapObj(a, n, c)
      BY <2>1, <3>5 DEF Return, NoSocket, UseObj, Dbg, MapObj
    <3> QED
      BY <2>2, <2>3, <3>1, <3>2, <3>3, <3>4, <3>5 DEF Client
  <2>4. CASE StaticHandle \/ \E a \in App : Call(a)
    BY <2>1, <2>4 DEF StaticHandle, Call
  <2>5. CASE Terminated \/ UNCHANGED vars
    BY <2>1, <2>5 DEF Terminated, vars
  <2> QED
    BY <2>3, <2>4, <2>5, BackedStart DEF Next
<1>3. Spec => []Named
  BY NamedHolds
<1> QED
  BY <1>1, <1>2, <1>3, InvHolds, PTL DEF Spec

\* If, besides, no application deletes a handle before it has removed the name,
\* what is registered exists and is what it is registered as.
THEOREM EntriesHold ==
    ASSUME {"checks_insert", "removes_first"} \subseteq ClientRules
    PROVE  Spec => []EntriesValid
<1>1. Inv /\ Named /\ Backed => EntriesValid
  <2> SUFFICES ASSUME Inv, Named, Backed, NEW n \in Name, Registered(n)
               PROVE  IF n = DefaultOstream /\ getObj(n) = STREAM
                      THEN getType(n) = "std::ostream**"
                      ELSE getObj(n) \in Addr /\ mem.class[getObj(n)] = getType(n)
    BY DEF EntriesValid
  <2>1. CASE n = DefaultOstream /\ rep[Key(n)] = StreamEntry
    BY <2>1 DEF StreamEntry, getObj, getType
  <2>2. ASSUME NEW a \in App, mine[a][n] # NULL
        PROVE  /\ getObj(n) \in Addr /\ getObj(n) # STREAM
               /\ mem.class[getObj(n)] = getType(n)
    BY <2>2, AppsAssumption DEF Named, Backed, getObj, getType, Inv, TypeOK
  <2> QED
    BY <2>1, <2>2 DEF Backed
<1> QED
  BY <1>1, InvHolds, BackedHolds, PTL

-----------------------------------------------------------------------------
(* Mapped pointers, under all four rules. *)

\* Only the application that is running holds a pointer, to a handle that is
\* what it is taken for.
Held ==
    /\ UsesAreSafe
    /\ \A a \in App : got[a] # NULL =>
         /\ pc \in {a, "assert"}
         /\ got[a][1] \in Addr /\ mem.class[got[a][1]] = got[a][2]

LEMMA HeldClient ==
    ASSUME Inv, Named, Backed, Held, AllClientRules \subseteq ClientRules,
           NEW a \in App, Client(a)
    PROVE  Held'
<1>1. /\ pc = a /\ a \notin {"static", "main", "null_api", "assert", "dangling",
                            "confused", "no_stream"}
      /\ got \in [App -> ((Addr \cup {STREAM}) \X HandleClass) \cup {NULL}]
  BY AppsAssumption
     DEF Client, Return, NewHandle, NoSocket, DeleteHandle, InsertObj, CloseFile,
         RemoveObj, MapObj, UseObj, Dbg, Inv, TypeOK
<1>2. \A b \in App \ {a} : got[b] = NULL
  BY <1>1 DEF Held
<1>3. CASE Return(a)
  <2>1. got[a] = NULL /\ UNCHANGED <<mem, got>> /\ pc' = "main"
    BY <1>3 DEF Return, AllClientRules
  <2> QED
    BY <1>2, <2>1 DEF Held, UsesAreSafe
<1>4. CASE NoSocket(a)
  BY <1>1, <1>2, <1>4 DEF NoSocket, Held, UsesAreSafe
<1>5. ASSUME NEW c \in HandleClass, NEW n \in Fd, NEW md \in Mode,
             NewHandle(a, c, n, md)
      PROVE  Held'
  <2>1. PICK h \in Free(mem) : AddsHandle(mem, mem', h, c, n, md)
    BY <1>5, NewHandleAdds DEF Inv
  <2>2. PICK N : Adds(mem, mem', N)
    BY <2>1 DEF AddsHandle, AddsBlocker, AddsUnixFd, AddsDepend, AddsUdp
  <2>3. \A g \in Addr : mem.class[g] \in HandleClass => mem'.class[g] = mem.class[g]
    BY <2>2 DEF Adds, Same, Free, HandleClass
  <2>4. UNCHANGED <<pc, got>>
    BY <1>5 DEF NewHandle
  <2> QED
    BY <1>1, <2>3, <2>4 DEF Held, UsesAreSafe
<1>6. ASSUME NEW h \in Addr, DeleteHandle(a, h) PROVE Held'
  <2>1. got[a] = NULL /\ UNCHANGED <<pc, got>>
    BY <1>6 DEF DeleteHandle, AllClientRules
  <2> QED
    BY <1>2, <2>1 DEF Held, UsesAreSafe
<1>7. ASSUME NEW h \in Addr, NEW n \in Name, InsertObj(a, n, h) PROVE Held'
  BY <1>7 DEF InsertObj, Held, UsesAreSafe
<1>8. ASSUME NEW n \in Fd, CloseFile(a, n) PROVE Held'
  <2>1. mem'.class = mem.class /\ UNCHANGED <<pc, got>>
    BY <1>8 DEF CloseFile, Inv, TypeOK, Memory
  <2> QED
    BY <2>1 DEF Held, UsesAreSafe
<1>9. ASSUME NEW n \in Name, RemoveObj(a, n) PROVE Held'
  BY <1>9 DEF RemoveObj, Held, UsesAreSafe
<1>10. ASSUME NEW n \in Name, NEW c \in HandleClass, MapObj(a, n, c) PROVE Held'
  <2>1. getType(n) = c /\ Registered(n) /\ UNCHANGED <<mem, pc>>
        /\ got' = [got EXCEPT ![a] = <<getObj(n), c>>]
    BY <1>10 DEF MapObj, getObj, AllClientRules
  <2>2. rep[Key(n)].type # "std::ostream**"
    BY <2>1 DEF getType, HandleClass
  <2>3. PICK b \in App : mine[b][n] # NULL
    BY <2>1, <2>2 DEF Backed, StreamEntry
  <2>4. mine[b][n] \in Addr /\ getObj(n) = mine[b][n] /\ mem.class[mine[b][n]] = c
    BY <2>1, <2>3 DEF Named, Backed, getObj, getType, Inv, TypeOK
  <2> QED
    BY <1>1, <1>2, <2>1, <2>4 DEF Held, UsesAreSafe
<1>11. CASE UseObj(a)
  <2>1. got[a] # NULL /\ got'[a] = NULL /\ UNCHANGED mem
        /\ \A b \in App \ {a} : got'[b] = got[b]
    BY <1>1, <1>11 DEF UseObj
  <2>2. pc' = pc
    BY <1>11, <2>1 DEF UseObj, Calling, Held
  <2> QED
    BY <2>1, <2>2 DEF Held, UsesAreSafe
<1>12. CASE Dbg(a)
  <2>1. getObj(DefaultOstream) = STREAM /\ STREAM # NULL
    BY <1>1, EntryIsSome, AppsAssumption DEF Named, StreamEntry, getObj, Registered
  <2> QED
    BY <1>12, <2>1 DEF Dbg, Held, UsesAreSafe
<1> QED
  BY <1>3, <1>4, <1>5, <1>6, <1>7, <1>8, <1>9, <1>10, <1>11, <1>12 DEF Client

LEMMA HeldHolds ==
    ASSUME AllClientRules \subseteq ClientRules
    PROVE  Spec => []Held
<1>1. Init => Held
  BY DEF Init, Held, UsesAreSafe
<1>2. Inv /\ Named /\ Backed /\ Held /\ [Next]_vars => Held'
  <2> SUFFICES ASSUME Inv, Named, Backed, Held, [Next]_vars PROVE Held'
    OBVIOUS
  <2>1. ASSUME NEW a \in App, Call(a) PROVE Held'
    <3>1. \A b \in App : got[b] = NULL
      BY <2>1, AppsAssumption DEF Call, Held
    <3>2. pc' \notin {"dangling", "confused", "no_stream"}
      BY <2>1, AppsAssumption DEF Call
    <3> QED
      BY <2>1, <3>1, <3>2 DEF Call, Held, UsesAreSafe
  <2>2. CASE StaticHandle \/ initPosixApiIface
    <3>1. \A b \in App : got[b] = NULL
      BY <2>2, AppsAssumption DEF StaticHandle, initPosixApiIface, Held
    <3> QED
      BY <2>2, <3>1 DEF StaticHandle, initPosixApiIface, Held, UsesAreSafe
  <2>3. CASE Terminated \/ UNCHANGED vars
    BY <2>3 DEF Terminated, vars, Held, UsesAreSafe
  <2> QED
    BY <2>1, <2>2, <2>3, HeldClient DEF Next
<1>3. Spec => [](Named /\ Backed)
  BY BackedHolds DEF AllClientRules
<1> QED
  BY <1>1, <1>2, <1>3, InvHolds, PTL DEF Spec

\* Applications that keep to all the rules never use a pointer from the
\* repository for what is gone or is something else.
THEOREM UsesHold ==
    ASSUME AllClientRules \subseteq ClientRules
    PROVE  Spec => []UsesAreSafe
<1>1. Held => UsesAreSafe
  BY DEF Held
<1> QED
  BY <1>1, HeldHolds, PTL
=============================================================================
