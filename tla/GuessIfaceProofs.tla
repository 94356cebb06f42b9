------------------------- MODULE GuessIfaceProofs -------------------------
(***************************************************************************)
(* Proofs about GuessIface, for any number of interfaces in any states and *)
(* any size of the list the kernel fills in.                               *)
(***************************************************************************)
EXTENDS GuessIface, FiniteSetTheorems, TLAPS

\* What a scan knows of the steady interfaces: none beats the level, those
\* dealt with are below it, and the score of the one at hand is right.
Ranked ==
    /\ pc \in {"guess", "device", "address"} =>
         \A d \in steady : Points(d, iface[d]) <= level
    /\ pc \in {"device", "address"} =>
         \A d \in steady \ todo : Points(d, iface[d]) < level
    /\ pc = "address" =>
         \A d \in steady : IsNext(d) =>
             lev = level - Point(d \in Wlan) - FlagPoints(iface[d])

\* The steady interfaces are in the list of the present scan.
Listed == pc \in {"device", "address"} => \A d \in steady : HasAddress(d)

Inv == TypeOK /\ Ranked /\ Listed /\ BestOfSteady /\ SteadyNeverAborts

-----------------------------------------------------------------------------
(* Points and levels. *)

LEMMA PointsRange ==
    ASSUME NEW k \in Iface, NEW d \in Devices
    PROVE  /\ Points(d, k) \in -1 .. 4
           /\ FlagPoints(k) \in Int /\ Point(d \in Wlan) \in Int
           /\ Point(k.private) \in Int
           /\ Points(d, k) = Point(d \in Wlan) + FlagPoints(k) + Point(k.private)
BY DEF Points, FlagPoints, Point, Iface

LEMMA LowerKeepsBound ==
    ASSUME NEW p \in -1 .. 4, NEW l \in Int, p < l
    PROVE  Lower(l) \in Int /\ p <= Lower(l)
BY DEF Lower

LEMMA ListingType == Listing \subseteq Devices /\ \A d \in Listing : HasAddress(d)
BY DEF Listing

-----------------------------------------------------------------------------
LEMMA InvInit == Init => Inv
<1> SUFFICES ASSUME Init PROVE Inv
  OBVIOUS
<1>1. iface \in [Devices -> Iface]
  BY IfaceAssumption DEF Init
<1>2. TypeOK
  <2>1. open \in BOOLEAN /\ (open <=> pc \in {"device", "address", "assert", "no_list"})
    BY DEF Init
  <2> QED
    BY <1>1, <2>1 DEF Init, TypeOK, TopLevel
<1>3. \A d \in steady : Points(d, iface[d]) <= level
  <2> TAKE d \in steady
  <2>1. iface[d] \in Iface /\ d \in Devices
    BY <1>2 DEF TypeOK
  <2> QED
    BY <2>1, PointsRange DEF Init, TopLevel
<1> QED
  BY <1>2, <1>3 DEF Init, Inv, Ranked, Listed, BestOfSteady, SteadyNeverAborts

LEMMA InvChange == ASSUME Inv, NEW x \in Devices, Change(x) PROVE Inv'
<1> USE DEF Inv
<1>1. TypeOK'
  <2>1. iface' \in [Devices -> Iface]
    BY IfaceAssumption DEF Change, TypeOK
  <2> QED
    BY <2>1 DEF Change, TypeOK, search
<1>2. steady' = steady \ {x} /\ UNCHANGED search
  BY DEF Change
<1>3. \A d \in steady' : d \in steady /\ iface'[d] = iface[d]
  BY <1>2 DEF Change, TypeOK
<1>4. \A d \in steady' : HasAddress(d)' = HasAddress(d)
  BY <1>3 DEF HasAddress
<1>5. Ranked'
  BY <1>2, <1>3 DEF Ranked, IsNext, search
<1> QED
  BY <1>1, <1>2, <1>3, <1>4, <1>5
  DEF Listed, BestOfSteady, SteadyNeverAborts, IsNext, search

LEMMA InvScan == ASSUME Inv, Scan PROVE Inv'
<1> USE DEF Inv
<1>1. TypeOK'
  BY ListingType DEF Scan, TypeOK
<1>2. steady' \subseteq steady /\ steady' \subseteq todo' /\ UNCHANGED <<iface, level>>
  BY DEF Scan
<1>3. Ranked'
  BY <1>2 DEF Scan, Ranked
<1>4. Listed'
  BY <1>2, ListingType DEF Scan, Listed, HasAddress
<1> QED
  BY <1>1, <1>3, <1>4 DEF Scan, BestOfSteady, SteadyNeverAborts

LEMMA InvScanFails == ASSUME Inv, ScanFails PROVE Inv'
BY DEF Inv, ScanFails, TypeOK, Ranked, Listed, BestOfSteady, SteadyNeverAborts

LEMMA InvNextLevel == ASSUME Inv, NextLevel PROVE Inv'
<1> USE DEF Inv
<1>1. \A d \in steady : Points(d, iface[d]) \in -1 .. 4 /\ Points(d, iface[d]) < level
  <2> TAKE d \in steady
  <2>1. iface[d] \in Iface /\ d \in Devices
    BY DEF TypeOK
  <2> QED
    BY <2>1, PointsRange DEF NextLevel, Ranked
<1>2. \A d \in steady : Points(d, iface[d]) <= Lower(level)
  BY <1>1, LowerKeepsBound DEF TypeOK
<1>3. Ranked'
  BY <1>2 DEF NextLevel, Ranked
<1>4. TypeOK'
  <2>1. open' \in BOOLEAN /\ (open' <=> pc' \in {"device", "address", "assert", "no_list"})
    BY DEF NextLevel
  <2> QED
    BY <2>1 DEF NextLevel, TypeOK, Lower
<1> QED
  BY <1>3, <1>4 DEF NextLevel, Listed, BestOfSteady, SteadyNeverAborts

LEMMA InvFlags == ASSUME Inv, NEW x \in Devices, Flags(x) PROVE Inv'
<1> USE DEF Inv
<1>1. iface[x] \in Iface /\ UNCHANGED <<iface, level, todo, open, chosen, steady, changes>>
  BY DEF Flags, TypeOK
<1>2. CASE iface[x].present
  <2>1. /\ pc = "device" /\ pc' = "address"
        /\ lev' = level - Point(x \in Wlan) - FlagPoints(iface[x])
    BY <1>2 DEF Flags
  <2>2. TypeOK'
    BY <1>1, <2>1, PointsRange DEF TypeOK
  <2>3. \A d \in steady : IsNext(d) => d = x
    BY DEF Flags, IsNext, TypeOK, Devices
  <2>4. Ranked'
    BY <1>1, <2>1, <2>3 DEF Ranked, IsNext
  <2> QED
    BY <1>1, <2>1, <2>2, <2>4 DEF Listed, HasAddress, BestOfSteady, SteadyNeverAborts
<1>3. CASE ~ iface[x].present
  <2>1. pc = "device" /\ pc' = "assert" /\ lev' = lev
    BY <1>3 DEF Flags
  <2>2. x \notin steady
    BY <1>3, <2>1 DEF Listed, HasAddress
  <2>3. \A d \in Devices : IsNext(d) => d = x
    BY DEF Flags, IsNext, TypeOK, Devices
  <2> QED
    BY <1>1, <2>1, <2>2, <2>3
    DEF TypeOK, Ranked, Listed, BestOfSteady, SteadyNeverAborts, IsNext
<1> QED
  BY <1>2, <1>3

LEMMA InvAddress == ASSUME Inv, NEW x \in Devices, Address(x) PROVE Inv'
<1> USE DEF Inv
<1>1. iface[x] \in Iface /\ UNCHANGED <<iface, level, steady, changes>>
  BY DEF Address, TypeOK
<1>2. /\ pc = "address" /\ IsNext(x) /\ level \in Int
      /\ lev' = lev - Point(iface[x].private)
  BY DEF Address, TypeOK
<1>3. x \in steady => lev' = level - Points(x, iface[x])
  <2>1. x \in steady =>
           lev = level - Point(x \in Wlan) - FlagPoints(iface[x])
    BY <1>2 DEF Ranked
  <2> QED
    BY <1>1, <1>2, <2>1, PointsRange
<1>4. /\ \A d \in steady : Points(d, iface[d]) <= level
      /\ \A d \in steady \ todo : Points(d, iface[d]) < level
  BY <1>2 DEF Ranked
<1>5. CASE lev' = 0
  <2>1. /\ pc' = "done" /\ chosen' = x /\ open' = FALSE /\ todo' = todo
    BY <1>5 DEF Address
  <2>2. \A d \in steady : d < x => Points(d, iface[d]) < level
    BY <1>2, <1>4 DEF IsNext, TypeOK, Devices
  <2>3. TypeOK'
    <3>1. open' \in BOOLEAN /\ (open' <=> pc' \in {"device", "address", "assert", "no_list"})
      BY <2>1
    <3> QED
      BY <1>1, <1>2, <1>5, <2>1, <3>1 DEF TypeOK
  <2> QED
    BY <1>1, <1>4, <2>1, <2>2, <2>3
    DEF Ranked, Listed, BestOfSteady, SteadyNeverAborts
<1>6. CASE lev' # 0
  <2>1. /\ pc' = "device" /\ todo' = todo \ {x} /\ UNCHANGED <<chosen, open>>
    BY <1>6 DEF Address
  <2>2. TypeOK'
    BY <1>1, <1>2, <2>1, PointsRange DEF TypeOK
  <2>3. x \in steady => Points(x, iface[x]) < level
    BY <1>1, <1>2, <1>3, <1>4, <1>6, PointsRange
  <2>4. Ranked'
    BY <1>1, <1>4, <2>1, <2>3 DEF Ranked
  <2> QED
    BY <1>1, <1>2, <2>1, <2>2, <2>4
    DEF Listed, HasAddress, BestOfSteady, SteadyNeverAborts
<1> QED
  BY <1>5, <1>6

LEMMA InvAddressGone == ASSUME Inv, NEW x \in Devices, AddressGone(x) PROVE Inv'
<1> USE DEF Inv
<1>1. /\ pc = "address" /\ pc' = "assert" /\ IsNext(x) /\ ~ HasAddress(x)
      /\ UNCHANGED <<iface, level, lev, todo, open, chosen, steady, changes>>
  BY DEF AddressGone
<1>2. x \notin steady
  BY <1>1 DEF Listed
<1>3. \A d \in Devices : IsNext(d) => d = x
  BY <1>1 DEF IsNext, Devices
<1> QED
  BY <1>1, <1>2, <1>3
  DEF TypeOK, Ranked, Listed, BestOfSteady, SteadyNeverAborts, IsNext

\* No step breaks the invariant.
LEMMA InvNext == Inv /\ [Next]_vars => Inv'
<1> SUFFICES ASSUME Inv, [Next]_vars PROVE Inv'
  OBVIOUS
<1>1. CASE UNCHANGED vars
  BY <1>1 DEF vars, search, Inv, TypeOK, Ranked, Listed, HasAddress, BestOfSteady,
     SteadyNeverAborts, IsNext
<1>2. CASE Scan
  BY <1>2, InvScan
<1>3. CASE NextLevel
  BY <1>3, InvNextLevel
<1>4. CASE \E d \in Devices : Flags(d)
  BY <1>4, InvFlags
<1>5. CASE \E d \in Devices : Address(d)
  BY <1>5, InvAddress
<1>6. CASE \E d \in Devices : AddressGone(d)
  BY <1>6, InvAddressGone
<1>7. CASE \E d \in Devices : Change(d)
  BY <1>7, InvChange
<1>8. CASE ScanFails
  BY <1>8, InvScanFails
<1> QED
  BY <1>1, <1>2, <1>3, <1>4, <1>5, <1>6, <1>7, <1>8 DEF Next, Step, Stopped

LEMMA Invariance == Spec => []Inv
BY InvInit, InvNext, PTL DEF Spec

-----------------------------------------------------------------------------
\* Every variable keeps its type, and the socket is open just while a scan uses
\* it: no way out of a scan forgets close().
THEOREM SocketsAreClosed == Spec => []TypeOK
<1>1. Inv => TypeOK
  BY DEF Inv
<1> QED
  BY <1>1, Invariance, PTL

\* guess_iface() returns an interface at least as good as every one that stayed
\* as it was during the search.
THEOREM GuessIsBest == Spec => []BestOfSteady
<1>1. Inv => BestOfSteady
  BY DEF Inv
<1> QED
  BY <1>1, Invariance, PTL

\* guess_iface() does not abort because of an interface that stayed as it was.
THEOREM SteadyDoNotAbort == Spec => []SteadyNeverAborts
<1>1. Inv => SteadyNeverAborts
  BY DEF Inv
<1> QED
  BY <1>1, Invariance, PTL

-----------------------------------------------------------------------------
(* The search is finite. *)

LEMMA ListSize ==
    ASSUME NEW S \in SUBSET Devices
    PROVE  /\ IsFiniteSet(S) /\ Cardinality(S) \in Nat /\ Cardinality(S) <= NDev
           /\ \A d \in S : Cardinality(S \ {d}) = Cardinality(S) - 1
<1>1. NDev \in Nat
  BY IfaceAssumption
<1>2. IsFiniteSet(Devices) /\ Cardinality(Devices) = NDev
  BY <1>1, FS_Interval DEF Devices
<1>3. IsFiniteSet(S) /\ Cardinality(S) \in Nat /\ Cardinality(S) <= NDev
  BY <1>2, FS_Subset, FS_CardinalityType
<1> QED
  BY <1>3, FS_RemoveElement

\* A level at which an interface can still be found is not below -1.
LEMMA LevelReached ==
    ASSUME Inv, pc \in {"guess", "device", "address"}, steady # {}
    PROVE  level \in Int /\ level >= -1
<1>1. PICK d \in steady : Points(d, iface[d]) <= level
  BY DEF Inv, Ranked
<1>2. iface[d] \in Iface /\ d \in Devices /\ level \in Int
  BY <1>1 DEF Inv, TypeOK
<1> QED
  BY <1>1, <1>2, PointsRange

LEMMA LeftType == Inv /\ steady # {} => Left \in Nat
<1> SUFFICES ASSUME Inv, steady # {} PROVE Left \in Nat
  OBVIOUS
<1>1. CASE Ended
  BY <1>1 DEF Left
<1>2. CASE ~ Ended
  <2>1. pc \in {"guess", "device", "address"}
    BY <1>2 DEF Inv, TypeOK, Ended
  <2>2. level + 2 \in Nat
    BY <2>1, LevelReached
  <2>3. Turn \in Nat /\ Turn - 1 \in Nat
    BY IfaceAssumption DEF Turn
  <2>4. Cardinality(todo) \in Nat
    BY ListSize DEF Inv, TypeOK
  <2>5. InScan \in Nat
    BY <2>1, <2>3, <2>4 DEF InScan
  <2>6. (level + 2) * Turn \in Nat
    BY <2>2, <2>3
  <2> QED
    BY <1>2, <2>5, <2>6 DEF Left
<1> QED
  BY <1>1, <1>2

LEMMA StepNearsTheEnd ==
    ASSUME Inv, Inv', Step, steady' # {}
    PROVE  Left' \in Nat /\ Left' < Left
<1> DEFINE n == Cardinality(todo)
           base == (level + 2) * Turn
<1>1. steady # {} /\ ~ Ended /\ pc \in {"guess", "device", "address"}
  <2>1. steady' \subseteq steady
    BY DEF Step, Scan, ScanFails, NextLevel, Flags, Address, AddressGone
  <2>2. pc \in {"guess", "device", "address"}
    BY DEF Step, Scan, ScanFails, NextLevel, Flags, Address, AddressGone
  <2> QED
    BY <2>1, <2>2 DEF Ended
<1>2. Left' \in Nat
  <2>1. (Inv /\ steady # {} => Left \in Nat)'
    BY LeftType, PTL
  <2> QED
    BY <2>1
<1>3. /\ NDev \in Nat /\ n \in Nat /\ n <= NDev /\ level \in Int /\ level >= -1
      /\ Turn = 2 * NDev + 3
  BY <1>1, LevelReached, ListSize, IfaceAssumption DEF Inv, TypeOK, Turn
<1>4. base \in Nat /\ base >= Turn
  <2>1. level + 2 \in Nat /\ level + 1 \in Nat /\ Turn \in Nat
    BY <1>3
  <2>2. \A x, y \in Nat : (x + 1) * y = x * y + y /\ x * y \in Nat
    OBVIOUS
  <2>3. level + 2 = (level + 1) + 1
    BY <1>3
  <2>4. (level + 2) * Turn = (level + 1) * Turn + Turn /\ (level + 1) * Turn \in Nat
    BY <2>1, <2>2, <2>3
  <2>5. Turn \in Nat
    BY <2>1
  <2> QED
    BY <2>4, <2>5
<1>5. /\ Left = base + InScan
      /\ InScan = CASE pc = "guess" -> Turn - 1 [] pc = "device" -> 2 * n + 1
                    [] pc = "address" -> 2 * n
  BY <1>1 DEF Left, InScan
<1>6. CASE Scan
  <2>1. /\ pc = "guess" /\ pc' = "device" /\ level' = level /\ todo' = Listing
    BY <1>6 DEF Scan
  <2>2. Cardinality(todo') \in Nat /\ Cardinality(todo') <= NDev
    BY <2>1, ListingType, ListSize
  <2>3. Left' = base + (2 * Cardinality(todo') + 1) /\ Left = base + (Turn - 1)
    BY <1>5, <2>1 DEF Left, InScan, Ended, Turn
  <2> QED
    BY <1>2, <1>3, <1>4, <2>2, <2>3
<1>7. CASE NextLevel
  <2>1. /\ pc = "device" /\ pc' = "guess" /\ todo = {} /\ level' = Lower(level)
        /\ steady' = steady /\ iface' = iface
    BY <1>7 DEF NextLevel
  <2>2. level' = level - 1
    <3>1. level >= -1 /\ level \in Int
      BY <1>3
    <3> QED
      BY <2>1, <3>1 DEF Lower
  <2>3. n = 0
    BY <2>1, FS_EmptySet
  <2>4. Left' = (level' + 2) * Turn + (Turn - 1) /\ Left = base + 1
    BY <1>5, <2>1, <2>3 DEF Left, InScan, Ended, Turn
  <2>5. (level' + 2) * Turn = base - Turn
    <3>1. level' + 2 = (level + 2) - 1 /\ level + 2 \in Int /\ Turn \in Int
      BY <1>3, <2>2
    <3>2. ((level + 2) - 1) * Turn = (level + 2) * Turn - Turn
      BY <3>1
    <3> QED
      BY <3>1, <3>2
  <2> QED
    BY <1>2, <1>3, <1>4, <2>4, <2>5
<1>8. ASSUME NEW d \in Devices, Flags(d) PROVE Left' < Left
  <2>1. /\ pc = "device" /\ pc' \in {"address", "assert"} /\ level' = level /\ todo' = todo
    BY <1>8 DEF Flags
  <2>2. Left' = IF pc' = "address" THEN base + 2 * n ELSE 0
    BY <2>1 DEF Left, InScan, Ended, Turn
  <2>3. Left = base + (2 * n + 1)
    BY <1>5, <2>1
  <2> QED
    BY <1>3, <1>4, <2>2, <2>3
<1>9. ASSUME NEW d \in Devices, Address(d) PROVE Left' < Left
  <2>1. /\ pc = "address" /\ level' = level /\ d \in todo
        /\ \/ pc' = "done"
           \/ pc' = "device" /\ todo' = todo \ {d}
    BY <1>9 DEF Address, IsNext
  <2>2. Left = base + 2 * n
    BY <1>5, <2>1
  <2>3. n >= 1 /\ Cardinality(todo \ {d}) = n - 1
    <3>1. todo \in SUBSET Devices /\ todo \ {d} \in SUBSET Devices
      BY DEF Inv, TypeOK
    <3>2. Cardinality(todo \ {d}) = n - 1 /\ Cardinality(todo \ {d}) \in Nat
      BY <2>1, <3>1, ListSize
    <3> QED
      BY <1>3, <3>2
  <2>4. CASE pc' = "done"
    <3>1. Left' = 0
      BY <2>4 DEF Left, Ended
    <3> QED
      BY <1>3, <1>4, <2>2, <2>3, <3>1
  <2>5. CASE pc' = "device" /\ todo' = todo \ {d}
    <3>1. Left' = base + (2 * Cardinality(todo \ {d}) + 1)
      BY <2>1, <2>5 DEF Left, InScan, Ended, Turn
    <3> QED
      BY <1>3, <1>4, <2>2, <2>3, <3>1
  <2> QED
    BY <2>1, <2>4, <2>5
<1>10. ASSUME NEW d \in Devices, AddressGone(d) PROVE Left' < Left
  <2>1. pc = "address" /\ pc' = "assert"
    BY <1>10 DEF AddressGone
  <2>2. Left' = 0
    BY <2>1 DEF Left, Ended
  <2>3. Left = base + 2 * n
    BY <1>5, <2>1
  <2> QED
    BY <1>3, <1>4, <2>2, <2>3, IfaceAssumption DEF Turn
<1>11. CASE ScanFails
  <2>1. pc = "guess" /\ pc' \in {"no_socket", "no_list"}
    BY <1>11 DEF ScanFails
  <2>2. Left' = 0 /\ Left = base + (Turn - 1)
    BY <1>5, <2>1 DEF Left, Ended
  <2> QED
    BY <1>3, <1>4, <2>2
<1> QED
  BY <1>2, <1>6, <1>7, <1>8, <1>9, <1>10, <1>11 DEF Step

\* A search for which one interface stays as it is takes a bounded number of
\* steps, whatever the others do: what EndsIfSteady needs besides a thread that
\* runs.
THEOREM SearchIsFinite == Spec => NearsTheEnd
<1>1. Inv /\ Inv' /\ [Next]_vars =>
        [Step /\ steady' # {} => Left' \in Nat /\ Left' < Left]_vars
  BY StepNearsTheEnd
<1> QED
  BY <1>1, Invariance, PTL DEF Spec, NearsTheEnd
=============================================================================
