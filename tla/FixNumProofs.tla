---------------------------- MODULE FixNumProofs ----------------------------
(***************************************************************************)
(* Proofs about FixNum, for words of any number of bytes of any even       *)
(* number of values, and any arguments of the client's.                    *)
(*                                                                         *)
(* Everything rests on one fact: Wrap(x) differs from x by a multiple of   *)
(* M, so that it may be dropped inside another Wrap.                       *)
(***************************************************************************)
EXTENDS FixNum, TLAPS

(* Division with remainder. *)

LEMMA DivMod ==
    ASSUME NEW a \in Int, NEW b \in Nat \ {0}
    PROVE  /\ a \div b \in Int /\ a % b \in 0 .. b - 1
           /\ a = b * (a \div b) + (a % b)
BY SMT

LEMMA MulAtLeast ==
    ASSUME NEW b \in Nat \ {0}, NEW q \in Int, q >= 1
    PROVE  b * q >= b
BY SMT

LEMMA DivUnique ==
    ASSUME NEW b \in Nat \ {0}, NEW p \in Int, NEW q \in Int,
           NEW r \in 0 .. b - 1, NEW s \in 0 .. b - 1, b * p + r = b * q + s
    PROVE  p = q /\ r = s
<1>1. b * (p - q) = s - r /\ b * (q - p) = r - s
  OBVIOUS
<1>2. ~(p - q >= 1) /\ ~(q - p >= 1)
  BY <1>1, MulAtLeast
<1> QED
  BY <1>2

\* A quotient and a remainder that fit are the ones div and mod yield.
LEMMA DivIs ==
    ASSUME NEW a \in Int, NEW b \in Nat \ {0}, NEW q \in Int,
           NEW r \in 0 .. b - 1, a = b * q + r
    PROVE  a \div b = q /\ a % b = r
<1> DEFINE p == a \div b
           s == a % b
<1>1. p \in Int /\ s \in 0 .. b - 1 /\ a = b * p + s
  BY DivMod
<1> HIDE DEF p, s
<1>2. b * p + s = b * q + r
  BY <1>1
<1>3. p = q /\ s = r
  BY <1>1, <1>2, DivUnique
<1> QED
  BY <1>3 DEF p, s

LEMMA ModShift ==
    ASSUME NEW b \in Nat \ {0}, NEW x \in Int, NEW k \in Int
    PROVE  (x + b * k) % b = x % b
<1> DEFINE y == x + b * k
           q == x \div b + k
           r == x % b
<1>1. r \in 0 .. b - 1 /\ x \div b \in Int /\ x = b * (x \div b) + r
  BY DivMod
<1>2. y \in Int /\ q \in Int
  BY <1>1
<1>3. b * q = b * (x \div b) + b * k
  BY <1>1
<1>4. y = b * q + r
  BY <1>1, <1>3
<1> HIDE DEF y, q, r
<1>5. y % b = r
  BY <1>1, <1>2, <1>4, DivIs
<1> QED
  BY <1>5 DEF y, r

LEMMA DivDiv ==
    ASSUME NEW u \in Nat, NEW w \in Nat \ {0}, NEW b \in Nat \ {0}
    PROVE  (u \div w) \div b = u \div (b * w)
<1> DEFINE q == u \div w
           p == q \div b
           s == q % b
           r == u % w
           c == b * w
<1>1. q \in Int /\ r \in 0 .. w - 1 /\ u = w * q + r
  BY DivMod
<1> HIDE DEF q, r
<1>2. p \in Int /\ s \in 0 .. b - 1 /\ q = b * p + s
  BY <1>1, DivMod
<1> HIDE DEF p, s
<1>3. c \in Nat \ {0}
  BY SMT
<1>4. w * s + r \in 0 .. c - 1
  <2>1. w * (b - 1 - s) >= 0 /\ w * s >= 0
    BY <1>2
  <2>2. w * (b - 1 - s) = c - w - w * s
    BY <1>2
  <2> QED
    BY <1>1, <1>2, <1>3, <2>1, <2>2
<1>5. u = c * p + (w * s + r)
  <2>1. w * (b * p + s) = c * p + w * s
    BY <1>2
  <2> QED
    BY <1>1, <1>2, <2>1
<1> DEFINE z == w * s + r
<1>6. z \in 0 .. c - 1 /\ u = c * p + z
  BY <1>4, <1>5
<1> HIDE DEF c, z
<1>7. u \div c = p
  BY <1>2, <1>3, <1>6, DivIs
<1> QED
  BY <1>7 DEF p, q, c

-----------------------------------------------------------------------------
(* Words. *)

LEMMA WordType == M \in Nat \ {0} /\ M = 2 * Half /\ Half \in Nat \ {0}
<1>1. PICK c \in Int : Base = 2 * c
  BY WordAssumption, DivMod
<1>2. Size - 1 \in 0 .. Size - 1 /\ Size \in 0 .. Size
  BY WordAssumption
<1>3. M = Base * Weight[Size - 1] /\ Weight[Size - 1] \in Nat \ {0} /\ M \in Nat \ {0}
  BY <1>2, WordAssumption DEF M
<1>4. M = 2 * (c * Weight[Size - 1]) /\ c * Weight[Size - 1] \in Int
  BY <1>1, <1>3
<1> QED
  BY <1>3, <1>4 DEF Half

LEMMA SignedType ==
    ASSUME NEW u \in 0 .. M - 1
    PROVE  Signed(u) \in StoreType
BY WordType DEF Signed, StoreType

LEMMA WrapType ==
    ASSUME NEW x \in Int
    PROVE  Wrap(x) \in StoreType /\ Wrap(x) \in Int
<1>1. x % M \in 0 .. M - 1
  BY WordType, DivMod
<1> QED
  BY <1>1, SignedType, WordType DEF Wrap, StoreType

\* A wrapped integer differs from it by a multiple of M.
LEMMA WrapShift ==
    ASSUME NEW x \in Int
    PROVE  \E k \in Int : Wrap(x) = x + M * k
<1>1. /\ x \div M \in Int /\ x % M \in 0 .. M - 1 /\ x = M * (x \div M) + (x % M)
      /\ M \in Nat
  BY WordType, DivMod
<1> DEFINE q == x \div M
           r == x % M
           k == IF r < Half THEN -q ELSE -q - 1
<1>2. q \in Int /\ r \in Int /\ x = M * q + r
  BY <1>1
<1>3. Wrap(x) = IF r < Half THEN r ELSE r - M
  BY DEF Wrap, Signed
<1> HIDE DEF q, r
<1>4. k \in Int
  BY <1>2
<1>5. M * (-q) = -(M * q) /\ M * (-q - 1) = -(M * q) - M /\ M * q \in Int
  BY <1>1, <1>2
<1>6. M * k = IF r < Half THEN -(M * q) ELSE -(M * q) - M
  BY <1>5
<1> HIDE DEF k
<1>7. Wrap(x) = x + M * k
  BY <1>1, <1>2, <1>3, <1>5, <1>6
<1> QED
  BY <1>4, <1>7

LEMMA WrapCongruent ==
    ASSUME NEW x \in Int, NEW k \in Int
    PROVE  Wrap(x + M * k) = Wrap(x)
BY ModShift, WordType DEF Wrap

LEMMA WrapSum ==
    ASSUME NEW x \in Int, NEW y \in Int
    PROVE  Wrap(Wrap(x) + y) = Wrap(x + y)
<1>1. PICK k \in Int : Wrap(x) = x + M * k
  BY WrapShift
<1>2. Wrap(x) + y = (x + y) + M * k
  BY <1>1, WordType
<1> QED
  BY <1>2, WrapCongruent

LEMMA WrapProduct ==
    ASSUME NEW x \in Int, NEW c \in Int
    PROVE  Wrap(Wrap(x) * c) = Wrap(x * c)
<1>1. PICK k \in Int : Wrap(x) = x + M * k
  BY WrapShift
<1>2. Wrap(x) * c = x * c + M * (k * c) /\ k * c \in Int /\ x * c \in Int
  BY <1>1, WordType
<1> QED
  BY <1>2, WrapCongruent

LEMMA ModSmall ==
    ASSUME NEW b \in Nat \ {0}, NEW x \in 0 .. b - 1
    PROVE  x % b = x /\ x \div b = 0
<1>1. x \div b \in Int /\ x % b \in 0 .. b - 1 /\ x = b * (x \div b) + (x % b)
  BY DivMod
<1>2. b * 0 + x = b * (x \div b) + (x % b)
  BY <1>1
<1> QED
  BY <1>1, <1>2, DivUnique

LEMMA WrapSmall == ASSUME NEW x \in StoreType PROVE Wrap(x) = x
<1>1. x \in Int
  BY WordType DEF StoreType
<1>2. CASE x >= 0
  <2>1. x \in 0 .. M - 1 /\ x < Half
    BY <1>2, WordType DEF StoreType
  <2>2. x % M = x
    BY <2>1, ModSmall, WordType
  <2> QED
    BY <2>1, <2>2 DEF Wrap, Signed
<1>3. CASE x < 0
  <2>1. x + M \in 0 .. M - 1 /\ ~ (x + M < Half)
    BY <1>3, WordType DEF StoreType
  <2>2. (x + M) % M = x + M
    BY <2>1, ModSmall, WordType
  <2>3. M \in Nat \ {0} /\ 1 \in Int
    BY WordType
  <2>4. (x + M * 1) % M = x % M
    BY <1>1, <2>3, ModShift
  <2>5. x % M = x + M
    BY <2>2, <2>3, <2>4
  <2> QED
    BY <1>1, <2>1, <2>5, WordType DEF Wrap, Signed
<1> QED
  BY <1>1, <1>2, <1>3

LEMMA WrapMod == ASSUME NEW x \in Int PROVE Wrap(x % M) = Wrap(x)
<1>1. x % M \in 0 .. M - 1
  BY WordType, DivMod
<1>2. (x % M) % M = x % M
  BY <1>1, ModSmall, WordType
<1> QED
  BY <1>2 DEF Wrap

-----------------------------------------------------------------------------
(* Types. *)

LEMMA QuotientType ==
    ASSUME NEW x \in Int, NEW y \in Int, y # 0
    PROVE  Quotient(x, y) \in Int
<1>1. Magnitude(x) \in Int /\ Magnitude(y) \in Nat \ {0}
  BY DEF Magnitude
<1>2. Magnitude(x) \div Magnitude(y) \in Int
  BY <1>1, DivMod
<1> QED
  BY <1>2 DEF Quotient

LEMMA TypeInit == Init => TypeOK
<1> SUFFICES ASSUME Init PROVE TypeOK
  OBVIOUS
<1>1. 0 \in StoreType
  BY WordType DEF StoreType
<1>2. mem \in [0 .. Size - 1 -> Byte]
  BY WordAssumption DEF Init, Byte
<1>3. asked \in Asked
  BY DEF Init, Asked
<1>4. i \in 0 .. Size
  BY WordAssumption DEF Init
<1>5. now \in StoreType /\ since \in StoreType /\ wrapped \in BOOLEAN
  BY DEF Init
<1> QED
  BY <1>1, <1>2, <1>3, <1>4, <1>5 DEF Init, TypeOK

LEMMA TypeNext == TypeOK /\ [Next]_vars => TypeOK'
<1> SUFFICES ASSUME TypeOK, [Next]_vars PROVE TypeOK'
  OBVIOUS
<1> USE DEF TypeOK, timer, array
<1>0. /\ now \in Int /\ since \in Int /\ period \in Int /\ total \in Int
      /\ NsPerSec \in Int /\ Longs \subseteq Int /\ Elapsed \in StoreType
      /\ 0 \in StoreType
  <2>1. /\ now \in Int /\ since \in Int /\ period \in Int /\ total \in Int
        /\ now - since \in Int /\ 0 \in StoreType
    BY WordType DEF StoreType
  <2> QED
    BY <2>1, WrapType, ClientAssumption DEF Elapsed, Difference
<1>1. ASSUME NEW a \in Longs, NEW b \in Longs, SetPeriod(a, b) PROVE TypeOK'
  <2>1. Wrap(a * NsPerSec) \in Int /\ b # 0 /\ b \in Int
    BY <1>0, <1>1, WrapType DEF SetPeriod, Divides
  <2>2. period' \in StoreType
    BY <1>1, <2>1, QuotientType, WrapType DEF SetPeriod, Rational
  <2>3. asked' \in Asked
    BY <1>0, <1>1 DEF SetPeriod, Asked
  <2>4. wrapped' \in BOOLEAN
    BY <1>1 DEF SetPeriod
  <2> QED
    BY <1>0, <1>1, <2>2, <2>3, <2>4 DEF SetPeriod
<1>2. ASSUME NEW m \in Longs, Multiply(m) PROVE TypeOK'
  <2>1. asked' \in Asked
    <3>1. /\ asked.num \in Int /\ asked.den \in Int /\ asked.mult \in Nat
          /\ m \in Int /\ Magnitude(m) \in Nat
      BY <1>0 DEF Asked, Magnitude
    <3>2. asked.num * m \in Int /\ asked.mult * Magnitude(m) \in Nat
      BY <3>1
    <3> QED
      BY <1>2, <3>1, <3>2 DEF Multiply, Asked
  <2>2. period' \in StoreType
    BY <1>0, <1>2, WrapType DEF Multiply
  <2>3. wrapped' \in BOOLEAN
    BY <1>2 DEF Multiply
  <2> QED
    BY <1>0, <1>2, <2>1, <2>2, <2>3 DEF Multiply
<1>3. CASE Advance
  <2>1. now' \in StoreType /\ total' \in StoreType
    BY <1>0, <1>3, WrapType DEF Advance, Later, Longer
  <2>2. wrapped' \in BOOLEAN
    BY <1>3 DEF Advance
  <2> QED
    BY <1>3, <2>1, <2>2 DEF Advance
<1>4. CASE Retreat
  <2>1. now' \in StoreType /\ total' \in StoreType
    BY <1>0, <1>4, WrapType DEF Retreat, Earlier, Shorter
  <2>2. wrapped' \in BOOLEAN
    BY <1>4 DEF Retreat
  <2> QED
    BY <1>4, <2>1, <2>2 DEF Retreat
<1>5. CASE Store
  <2>1. stored' \in StoreType /\ stored' \in Int /\ temp' = stored' % M
    BY <1>0, <1>5, WordType DEF Store, StoreType
  <2>2. temp' \in Nat
    <3>1. M \in Nat \ {0}
      BY WordType
    <3>2. temp' \in 0 .. M - 1
      BY <2>1, <3>1, DivMod
    <3> QED
      BY <3>1, <3>2
  <2> QED
    BY <1>5, <2>1, <2>2, WordAssumption DEF Store
<1>6. CASE PutByte
  <2>1. Base \in Nat \ {0} /\ temp \in Int
    BY WordAssumption
  <2>2. temp % Base \in Byte /\ temp \div Base \in Nat
    <3>1. /\ temp \div Base \in Int /\ temp % Base \in 0 .. Base - 1
          /\ temp = Base * (temp \div Base) + (temp % Base)
      BY <2>1, DivMod
    <3> QED
      BY <2>1, <3>1 DEF Byte
  <2>3. i \in 0 .. Size - 1 /\ Position(i) \in 0 .. Size - 1
    BY <1>6, WordAssumption DEF PutByte, Position
  <2>4. mem' \in [0 .. Size - 1 -> Byte]
    BY <1>6, <2>2, <2>3 DEF PutByte
  <2> QED
    BY <1>6, <2>2, <2>3, <2>4, WordAssumption DEF PutByte
<1>7. CASE Load
  BY <1>7, WordType, WordAssumption DEF Load, StoreType
<1>8. CASE GetByte
  <2>1. i \in 0 .. Size - 1 /\ mem[i] \in Int /\ copy * Base \in Int
    BY <1>8, WordAssumption, WordType DEF GetByte, Byte, StoreType
  <2>2. copy' \in StoreType
    BY <1>8, <2>1, WrapType DEF GetByte, OrByte
  <2> QED
    BY <1>8, <2>1, <2>2, WordAssumption DEF GetByte
<1>9. CASE Packed \/ Loaded \/ \E a, b \in Longs : DivisionFails(a, b)
  BY <1>9 DEF Packed, Loaded, DivisionFails
<1>10. CASE UNCHANGED vars
  BY <1>10 DEF vars
<1> QED
  BY <1>1, <1>2, <1>3, <1>4, <1>5, <1>6, <1>7, <1>8, <1>9, <1>10
  DEF Next, Stopped

\* Every variable keeps its type: no computation leaves the word.
THEOREM WordsStayWords == Spec => []TypeOK
BY TypeInit, TypeNext, PTL DEF Spec

-----------------------------------------------------------------------------
(* The way through the array. *)

\* What is left of the word v when n bytes are taken off.
Digits(v, n) == (v % M) \div Weight[n]

Holds(n) == mem[Position(n)] = Digits(stored, n) % Base

Travels ==
    /\ pc = "toArray" =>
         temp = Digits(stored, i) /\ \A n \in 0 .. i - 1 : Holds(n)
    /\ pc \in {"packed", "fromArray"} => \A n \in 0 .. Size - 1 : Holds(n)
    /\ pc = "fromArray" => copy = Wrap(Digits(stored, Size - i))

LEMMA DigitsEnds ==
    ASSUME TypeOK
    PROVE  /\ Digits(stored, 0) = stored % M /\ Digits(stored, Size) = 0
           /\ Wrap(Digits(stored, 0)) = stored
<1>1. stored \in Int /\ M \in Nat \ {0} /\ Weight[0] = 1
  BY WordType, WordAssumption DEF TypeOK, StoreType
<1> DEFINE u == stored % M
<1>2. u \in 0 .. M - 1
  BY <1>1, DivMod
<1>3. u \div M = 0
  BY <1>1, <1>2, ModSmall
<1>4. Wrap(u) = stored
  BY <1>1, WrapMod, WrapSmall DEF TypeOK
<1> HIDE DEF u
<1>5. u \div 1 = u
  BY <1>1, <1>2
<1> QED
  BY <1>1, <1>3, <1>4, <1>5 DEF Digits, M, u

LEMMA DigitsStep ==
    ASSUME TypeOK, NEW n \in 0 .. Size - 1
    PROVE  /\ Digits(stored, n) \in Int /\ Digits(stored, n + 1) \in Int
           /\ Digits(stored, n) \div Base = Digits(stored, n + 1)
           /\ Digits(stored, n) = Base * Digits(stored, n + 1) + (Digits(stored, n) % Base)
<1> DEFINE u == stored % M
<1>1. /\ stored \in Int /\ M \in Nat \ {0} /\ Base \in Nat \ {0}
      /\ Weight[n] \in Nat \ {0} /\ Weight[n + 1] = Base * Weight[n]
      /\ Weight[n + 1] \in Nat \ {0}
  BY WordType, WordAssumption DEF TypeOK, StoreType
<1>2. u \in Nat /\ u \in Int
  BY <1>1, DivMod
<1> HIDE DEF u
<1>3. (u \div Weight[n]) \div Base = u \div Weight[n + 1]
  BY <1>1, <1>2, DivDiv
<1>4. u \div Weight[n] \in Int /\ u \div Weight[n + 1] \in Int
  BY <1>1, <1>2, DivMod
<1>5. /\ Digits(stored, n) = u \div Weight[n] /\ Digits(stored, n + 1) = u \div Weight[n + 1]
  BY DEF Digits, u
<1>6. Digits(stored, n) = Base * (Digits(stored, n) \div Base) + (Digits(stored, n) % Base)
  BY <1>1, <1>4, <1>5, DivMod
<1> QED
  BY <1>3, <1>4, <1>5, <1>6

LEMMA TravelsNext == TypeOK /\ Travels /\ RoundTrip /\ [Next]_vars
                       => Travels' /\ RoundTrip'
<1> SUFFICES ASSUME TypeOK, Travels, RoundTrip, [Next]_vars
             PROVE  Travels' /\ RoundTrip'
  OBVIOUS
<1> USE DEF timer, array
<1>1. CASE Store
  <2>1. temp' = stored' % M /\ i' = 0 /\ pc' = "toArray" /\ stored' \in Int
    BY <1>1, WordType, WrapType DEF Store, TypeOK, StoreType, Elapsed, Difference
  <2>2. Digits(stored', 0) = stored' % M
    <3>1. stored' % M \in Int
      BY <2>1, WordType, DivMod
    <3>2. (stored' % M) \div 1 = stored' % M
      BY <3>1
    <3> QED
      BY <3>2, WordAssumption DEF Digits
  <2> QED
    BY <2>1, <2>2 DEF Travels, RoundTrip
<1>2. CASE PutByte
  <2>1. /\ pc = "toArray" /\ pc' = pc /\ i \in 0 .. Size - 1 /\ i' = i + 1
        /\ stored' = stored /\ temp' = temp \div Base
        /\ mem' = [mem EXCEPT ![Position(i)] = temp % Base]
    BY <1>2, WordAssumption DEF PutByte, TypeOK
  <2>2. temp = Digits(stored, i) /\ \A n \in 0 .. i - 1 : Holds(n)
    BY <2>1 DEF Travels
  <2>3. temp' = Digits(stored', i')
    BY <2>1, <2>2, DigitsStep
  <2>4. \A n \in 0 .. i' - 1 : Holds(n)'
    <3> TAKE n \in 0 .. i' - 1
    <3>1. n \in 0 .. Size - 1 /\ n \in 0 .. i /\ Size \in Int /\ i \in Int
      BY <2>1, WordAssumption
    <3>2. Position(n) \in 0 .. Size - 1 /\ (n # i => Position(n) # Position(i))
      BY <3>1 DEF Position
    <3>3. CASE n = i
      BY <2>1, <2>2, <3>1, <3>2, <3>3 DEF Holds, TypeOK
    <3>4. CASE n # i
      <4>1. Holds(n)
        BY <2>2, <3>1, <3>4
      <4> QED
        BY <2>1, <3>1, <3>2, <3>4, <4>1 DEF Holds, TypeOK
    <3> QED
      BY <3>3, <3>4
  <2> QED
    BY <2>1, <2>3, <2>4 DEF Travels, RoundTrip
<1>3. CASE Packed
  BY <1>3 DEF Packed, Travels, RoundTrip, Holds, Digits
<1>4. CASE Load
  <2>1. Wrap(0) = 0
    BY WrapSmall, WordType DEF StoreType
  <2>2. Digits(stored', Size) = 0
    BY <1>4, DigitsEnds DEF Load
  <2>3. Size - 0 = Size
    BY WordAssumption
  <2> QED
    BY <1>4, <2>1, <2>2, <2>3 DEF Load, Travels, RoundTrip, Holds, Digits
<1>5. CASE GetByte
  <2>1. /\ pc = "fromArray" /\ pc' = pc /\ i \in 0 .. Size - 1 /\ i' = i + 1
        /\ stored' = stored /\ mem' = mem
        /\ copy' = Wrap(Wrap(copy * Base) + mem[i])
    BY <1>5, WordAssumption DEF GetByte, TypeOK, OrByte
  <2> DEFINE n == Size - i - 1
  <2>2. n \in 0 .. Size - 1 /\ Position(n) = i /\ n + 1 = Size - i /\ n = Size - i'
    BY <2>1, WordAssumption DEF Position
  <2> HIDE DEF n
  <2>3. /\ Digits(stored, n) \in Int /\ Digits(stored, n + 1) \in Int /\ Base \in Int
        /\ Digits(stored, n) = Base * Digits(stored, n + 1) + (Digits(stored, n) % Base)
    BY <2>2, DigitsStep, WordAssumption
  <2>4. mem[i] = Digits(stored, n) % Base /\ copy = Wrap(Digits(stored, n + 1))
    BY <2>1, <2>2 DEF Travels, Holds
  <2>5. mem[i] \in Int /\ Digits(stored, n + 1) * Base \in Int /\ copy \in Int
    BY <2>1, <2>3, WordType DEF TypeOK, Byte, StoreType
  <2>6. Wrap(copy * Base) = Wrap(Digits(stored, n + 1) * Base)
    BY <2>3, <2>4, WrapProduct
  <2>7. copy' = Wrap(Digits(stored, n + 1) * Base + mem[i])
    BY <2>1, <2>5, <2>6, WrapSum
  <2>8. Digits(stored, n + 1) * Base + mem[i] = Digits(stored, n)
    BY <2>3, <2>4
  <2>9. copy' = Wrap(Digits(stored', Size - i'))
    BY <2>1, <2>2, <2>7, <2>8
  <2> QED
    BY <2>1, <2>9 DEF Travels, RoundTrip, Holds
<1>6. CASE Loaded
  <2>1. Size - i = 0
    BY <1>6, WordAssumption DEF Loaded
  <2> QED
    BY <1>6, <2>1, DigitsEnds DEF Loaded, Travels, RoundTrip
<1>7. CASE UNCHANGED <<pc, array>>
  BY <1>7 DEF Travels, RoundTrip, Holds, Digits
<1>8. CASE \E a, b \in Longs : DivisionFails(a, b)
  BY <1>8 DEF DivisionFails, Travels, RoundTrip
<1> QED
  BY <1>1, <1>2, <1>3, <1>4, <1>5, <1>6, <1>7, <1>8
  DEF Next, Stopped, SetPeriod, Multiply, Advance, Retreat, vars

\* What toArray() stored is what fromArray() restores, whatever the size of a
\* word and of a byte.
THEOREM ArrayKeepsValue == Spec => []RoundTrip
<1>1. Init => Travels /\ RoundTrip
  BY DEF Init, Travels, RoundTrip
<1> QED
  BY <1>1, TypeInit, TypeNext, TravelsNext, PTL DEF Spec

\* The most significant byte travels first, whatever the size of a word and of
\* a byte.
THEOREM BytesInNetworkOrder == Spec => []NetworkOrder
<1>1. Init => Travels /\ RoundTrip
  BY DEF Init, Travels, RoundTrip
<1>2. Travels => NetworkOrder
  <2> SUFFICES ASSUME Travels, pc \in {"packed", "fromArray"}, NEW n \in 0 .. Size - 1
               PROVE  mem[n] = ((stored % M) \div Weight[Size - 1 - n]) % Base
    BY DEF NetworkOrder
  <2> DEFINE k == Size - 1 - n
  <2>1. k \in 0 .. Size - 1 /\ Position(k) = n
    BY WordAssumption DEF Position
  <2>2. Holds(k)
    BY <2>1 DEF Travels
  <2> QED
    BY <2>1, <2>2 DEF Holds, Digits
<1> QED
  BY <1>1, <1>2, TypeInit, TypeNext, TravelsNext, PTL DEF Spec

-----------------------------------------------------------------------------
(* Counting periods. *)

\* A difference of wrapped times is the wrapped difference.
LEMMA ElapsedMoves ==
    ASSUME NEW n \in Int, NEW s \in Int, NEW p \in Int
    PROVE  Wrap(Wrap(n + p) - s) = Wrap(Wrap(n - s) + p)
<1>1. Wrap(n + p) \in Int
  BY WrapType
<1>2. Wrap(Wrap(n + p) + (-s)) = Wrap((n + p) + (-s))
  BY WrapSum
<1>3. Wrap(Wrap(n - s) + p) = Wrap((n - s) + p)
  BY WrapSum
<1>4. (n + p) + (-s) = (n - s) + p /\ Wrap(n + p) + (-s) = Wrap(n + p) - s
  BY <1>1
<1> QED
  BY <1>2, <1>3, <1>4

LEMMA NoneTimes == ASSUME NEW p \in Int PROVE 0 * p = 0
OBVIOUS

\* The period before the next is where the timer is.
LEMMA ThereAndBack == TypeOK => Earlier(Later(now, period), period) = now
<1> SUFFICES ASSUME TypeOK PROVE Earlier(Later(now, period), period) = now
  OBVIOUS
<1>1. now \in StoreType /\ now \in Int /\ period \in Int /\ -period \in Int
  BY WordType DEF TypeOK, StoreType
<1>2. now + period \in Int /\ Wrap(now + period) \in Int
  BY <1>1, WrapType
<1>3. Wrap(Wrap(now + period) + (-period)) = Wrap((now + period) + (-period))
  BY <1>1, <1>2, WrapSum
<1>4. /\ (now + period) + (-period) = now
      /\ Wrap(now + period) + (-period) = Wrap(now + period) - period
  BY <1>1, <1>2
<1> QED
  BY <1>1, <1>3, <1>4, WrapSmall DEF Earlier, Later

Counted == Elapsed = Wrap(laps * period) /\ total = Elapsed

LEMMA CountNext == TypeOK /\ Counted /\ [Next]_vars => Counted'
<1> SUFFICES ASSUME TypeOK, Counted, [Next]_vars PROVE Counted'
  OBVIOUS
<1> USE DEF timer, array
<1>0. now \in Int /\ since \in Int /\ period \in Int /\ laps \in Int
  BY WordType DEF TypeOK, StoreType
<1> DEFINE Restarts == /\ since' = now' /\ now' = now /\ laps' = 0
                       /\ period' \in Int /\ total' = 0
<1>1. CASE Restarts
  <2>1. now' - since' = 0
    BY <1>0, <1>1
  <2>2. 0 * period' = 0
    BY <1>1, NoneTimes
  <2>3. laps' * period' = 0
    BY <1>1, <2>2
  <2>4. Wrap(0) = 0
    BY WordType, WrapSmall DEF StoreType
  <2> QED
    BY <1>1, <2>1, <2>3, <2>4 DEF Counted, Elapsed, Difference
<1>2. CASE Advance
  <2>1. /\ now' = Wrap(now + period) /\ laps' = laps + 1
        /\ since' = since /\ period' = period
        /\ total' = Wrap(total + period)
    BY <1>2 DEF Advance, Later, Longer
  <2>2. Elapsed' = Wrap(Wrap(now - since) + period)
    BY <1>0, <2>1, ElapsedMoves DEF Elapsed, Difference
  <2>3. /\ Elapsed' = Wrap(Wrap(laps * period) + period)
        /\ total' = Elapsed'
    BY <2>1, <2>2 DEF Counted, Elapsed, Difference
  <2>4. laps * period \in Int /\ laps * period + period = laps' * period'
    BY <1>0, <2>1
  <2> QED
    BY <1>0, <2>3, <2>4, WrapSum DEF Counted
<1>3. CASE Retreat
  <2>1. /\ now' = Wrap(now - period) /\ laps' = laps - 1
        /\ since' = since /\ period' = period
        /\ total' = Wrap(total - period)
    BY <1>3 DEF Retreat, Earlier, Shorter
  <2>2. /\ -period \in Int /\ now - period = now + (-period)
        /\ Wrap(now - since) - period = Wrap(now - since) + (-period)
    BY <1>0, WrapType
  <2>3. Elapsed' = Wrap(Wrap(now - since) + (-period))
    BY <1>0, <2>1, <2>2, ElapsedMoves DEF Elapsed, Difference
  <2>4. /\ Elapsed' = Wrap(Wrap(laps * period) + (-period))
        /\ total' = Elapsed'
    BY <2>1, <2>2, <2>3 DEF Counted, Elapsed, Difference
  <2>5. laps * period \in Int /\ laps * period + (-period) = laps' * period'
    BY <1>0, <2>1
  <2> QED
    BY <2>2, <2>4, <2>5, WrapSum DEF Counted
<1>4. CASE UNCHANGED timer
  BY <1>4 DEF Counted, Elapsed
<1>5. ASSUME NEW a \in Longs, NEW b \in Longs, SetPeriod(a, b) PROVE Restarts
  BY <1>5, TypeNext, WordType DEF SetPeriod, TypeOK, StoreType
<1>6. ASSUME NEW m \in Longs, Multiply(m) PROVE Restarts
  BY <1>6, TypeNext, WordType DEF Multiply, TypeOK, StoreType
<1> QED
  BY <1>1, <1>2, <1>3, <1>4, <1>5, <1>6
  DEF Next, Stopped, DivisionFails, Store, PutByte, Packed, Load, GetByte,
      Loaded, vars

\* A periodic timer is at a whole number of periods from where it started, as
\* the sum of these periods says, even after overflows; and adding a period can
\* be undone.
THEOREM PeriodsAreCounted == Spec => []CountsPeriods
<1>1. Init => Counted
  <2> SUFFICES ASSUME Init PROVE Counted
    OBVIOUS
  <2>1. now - since = 0 /\ laps * period = 0
    BY WordType DEF Init, StoreType
  <2>2. Wrap(0) = 0
    BY WordType, WrapSmall DEF StoreType
  <2> QED
    BY <2>1, <2>2 DEF Init, Counted, Elapsed, Difference
<1>2. TypeOK /\ Counted => CountsPeriods
  BY ThereAndBack DEF Counted, CountsPeriods
<1> QED
  BY <1>1, <1>2, TypeInit, TypeNext, CountNext, PTL DEF Spec

-----------------------------------------------------------------------------
(* Drift. *)

\* r approximates j from the side of zero, with an error of at most e.
Approximates(r, j, e) ==
    Magnitude(r) <= Magnitude(j) /\ Magnitude(j - r) <= e

\* As long as everything fits, the timer is exactly laps periods from its
\* start, and a period is the one asked for up to its rounding.
Drift ==
    ~ wrapped =>
        /\ now - since = laps * period
        /\ asked.den # 0
        /\ Approximates(period * asked.den, asked.num * NsPerSec,
                        asked.mult * (Magnitude(asked.den) - 1))

LEMMA Monotone ==
    ASSUME NEW c \in Nat, NEW x \in Int, NEW y \in Int, x <= y
    PROVE  c * x <= c * y
<1>1. c * (y - x) >= 0
  OBVIOUS
<1>2. c * (y - x) = c * y - c * x
  OBVIOUS
<1> QED
  BY <1>1, <1>2

LEMMA MagnitudeProduct ==
    ASSUME NEW x \in Int, NEW y \in Int
    PROVE  /\ Magnitude(x) \in Nat
           /\ Magnitude(x * y) = Magnitude(x) * Magnitude(y)
<1>1. x * y \in Int /\ (-x) * y = -(x * y) /\ x * (-y) = -(x * y)
      /\ (-x) * (-y) = x * y
  OBVIOUS
<1>2. /\ x >= 0 /\ y >= 0 => x * y >= 0
      /\ x < 0 /\ y < 0 => x * y > 0
      /\ x >= 0 /\ y < 0 => x * y <= 0
      /\ x < 0 /\ y >= 0 => x * y <= 0
  OBVIOUS
<1>3. CASE x >= 0 /\ y >= 0
  BY <1>1, <1>2, <1>3 DEF Magnitude
<1>4. CASE x < 0 /\ y < 0
  BY <1>1, <1>2, <1>4 DEF Magnitude
<1>5. CASE x >= 0 /\ y < 0
  BY <1>1, <1>2, <1>5 DEF Magnitude
<1>6. CASE x < 0 /\ y >= 0
  BY <1>1, <1>2, <1>6 DEF Magnitude
<1> QED
  BY <1>3, <1>4, <1>5, <1>6

\* A factor takes the error with it.
LEMMA ApproximatesTimes ==
    ASSUME NEW r \in Int, NEW j \in Int, NEW e \in Int, NEW m \in Int,
           Approximates(r, j, e)
    PROVE  Approximates(m * r, m * j, Magnitude(m) * e)
<1>1. Magnitude(m) \in Nat /\ Magnitude(r) \in Int /\ Magnitude(j) \in Int
      /\ j - r \in Int /\ Magnitude(j - r) \in Int
  BY DEF Magnitude
<1>2. /\ Magnitude(m) * Magnitude(r) <= Magnitude(m) * Magnitude(j)
      /\ Magnitude(m) * Magnitude(j - r) <= Magnitude(m) * e
  BY <1>1, Monotone DEF Approximates
<1>3. m * j - m * r = m * (j - r)
  OBVIOUS
<1>4. /\ Magnitude(m * r) = Magnitude(m) * Magnitude(r)
      /\ Magnitude(m * j) = Magnitude(m) * Magnitude(j)
      /\ Magnitude(m * (j - r)) = Magnitude(m) * Magnitude(j - r)
  BY <1>1, MagnitudeProduct
<1> QED
  BY <1>2, <1>3, <1>4 DEF Approximates

\* One division errs by less than its divisor.
LEMMA QuotientClose ==
    ASSUME NEW x \in Int, NEW y \in Int, y # 0
    PROVE  /\ Approximates(Quotient(x, y) * y, x, Magnitude(y) - 1)
           /\ Quotient(x, y) \in Int
<1> DEFINE b == Magnitude(y)
           q == Magnitude(x) \div b
           r == Magnitude(x) % b
<1>1. b \in Nat \ {0} /\ Magnitude(x) \in Int /\ Magnitude(x) >= 0
  BY DEF Magnitude
<1>0. b = IF y < 0 THEN -y ELSE y
  BY DEF Magnitude
<1> HIDE DEF b
<1>2. q \in Int /\ r \in 0 .. b - 1 /\ Magnitude(x) = b * q + r
  BY <1>1, DivMod
<1>3. Quotient(x, y) = IF (x < 0) = (y < 0) THEN q ELSE -q
  BY DEF Quotient, b
<1> HIDE DEF q, r
<1>5. b * q >= 0
  <2>1. ~ (q <= -1)
    <3>1. q <= -1 => b * (-q) >= b
      BY <1>1, <1>2, MulAtLeast
    <3>2. b * (-q) = -(b * q)
      BY <1>1, <1>2
    <3> QED
      BY <1>1, <1>2, <3>1, <3>2
  <2> QED
    BY <1>1, <1>2, <2>1
<1>6. Quotient(x, y) * y = IF x < 0 THEN -(b * q) ELSE b * q
  <2>1. /\ q * y = -(q * (-y)) /\ (-q) * y = -(q * y) /\ (-q) * y = q * (-y)
        /\ q * b = b * q /\ q * y \in Int
    BY <1>1, <1>2
  <2>2. CASE x < 0 /\ y < 0
    BY <1>1, <1>2, <1>0, <1>3, <2>1, <2>2
  <2>3. CASE x < 0 /\ ~(y < 0)
    BY <1>1, <1>2, <1>0, <1>3, <2>1, <2>3
  <2>4. CASE ~(x < 0) /\ y < 0
    BY <1>1, <1>2, <1>0, <1>3, <2>1, <2>4
  <2>5. CASE ~(x < 0) /\ ~(y < 0)
    BY <1>1, <1>2, <1>0, <1>3, <2>1, <2>5
  <2> QED
    BY <2>2, <2>3, <2>4, <2>5
<1> DEFINE z == b * q
<1>7. z \in Int /\ z >= 0 /\ Magnitude(x) = z + r
      /\ Quotient(x, y) * y = IF x < 0 THEN -z ELSE z
  BY <1>1, <1>2, <1>5, <1>6
<1> HIDE DEF z
<1>8. Approximates(Quotient(x, y) * y, x, b - 1)
  BY <1>1, <1>2, <1>7 DEF Approximates, Magnitude
<1> QED
  BY <1>2, <1>3, <1>8 DEF b

\* The result of a division that the processor does fits into the word.
LEMMA QuotientFits ==
    ASSUME NEW x \in StoreType, NEW b \in Int, b # 0, ~(x = -Half /\ b = -1)
    PROVE  Quotient(x, b) \in StoreType
<1> DEFINE q == Quotient(x, b)
<1>1. x \in Int /\ Half \in Nat \ {0} /\ x >= -Half /\ x < Half
  BY WordType DEF StoreType
<1>2. q \in Int /\ Approximates(q * b, x, Magnitude(b) - 1)
  BY <1>1, QuotientClose
<1> HIDE DEF q
<1>3. Magnitude(q * b) = Magnitude(b) * Magnitude(q) /\ Magnitude(q) \in Nat
  <2>1. Magnitude(q * b) = Magnitude(q) * Magnitude(b)
    BY <1>2, MagnitudeProduct
  <2>2. Magnitude(q) \in Nat /\ Magnitude(b) \in Nat
    BY <1>2, MagnitudeProduct
  <2> QED
    BY <2>1, <2>2
<1>4. Magnitude(b) * Magnitude(q) <= Half
  BY <1>1, <1>2, <1>3 DEF Approximates, Magnitude
<1>5. CASE Magnitude(b) = 1
  <2>1. Magnitude(x - q * b) <= 0 /\ q * b \in Int
    BY <1>2, <1>5 DEF Approximates
  <2>2. x = q * b
    BY <1>1, <2>1 DEF Magnitude
  <2>3. CASE b = 1
    BY <1>1, <1>2, <2>2, <2>3 DEF StoreType, q
  <2>4. CASE b = -1
    <3>1. x = -q
      BY <1>2, <2>2, <2>4
    <3> QED
      BY <1>1, <1>2, <2>4, <3>1 DEF StoreType, q
  <2> QED
    BY <1>5, <2>3, <2>4 DEF Magnitude
<1>6. CASE Magnitude(b) # 1
  <2>1. Magnitude(b) \in Nat /\ Magnitude(b) >= 2
    BY <1>6 DEF Magnitude
  <2>2. Magnitude(q) * 2 <= Magnitude(q) * Magnitude(b)
    BY <1>3, <2>1, Monotone
  <2>3. Magnitude(q) * 2 <= Half
    BY <1>1, <1>3, <1>4, <2>1, <2>2
  <2> QED
    BY <1>1, <1>2, <1>3, <2>3 DEF Magnitude, StoreType, q
<1> QED
  BY <1>5, <1>6

LEMMA DriftInit == Init => Drift
<1> SUFFICES ASSUME Init PROVE Drift
  OBVIOUS
<1>1. now - since = 0 /\ laps * period = 0
  BY WordType DEF Init, StoreType
<1>2. /\ period * asked.den = 0 /\ asked.num * NsPerSec = 0 /\ asked.den = 1
      /\ asked.mult = 1
  BY ClientAssumption DEF Init
<1>3. Magnitude(1) = 1 /\ Magnitude(0) = 0
  BY DEF Magnitude
<1>4. Approximates(0, 0, 1 * (1 - 1))
  BY <1>3 DEF Approximates
<1> QED
  BY <1>1, <1>2, <1>3, <1>4 DEF Drift

LEMMA DriftSetPeriod ==
    ASSUME TypeOK, NEW a \in Longs, NEW b \in Longs, SetPeriod(a, b)
    PROVE  Drift'
<1> SUFFICES ASSUME ~ wrapped' PROVE Drift'
  BY DEF Drift
<1> DEFINE x == a * NsPerSec
<1>0. x \in StoreType
  BY DEF SetPeriod, Fits
<1>1. /\ x \in StoreType /\ x \in Int /\ a \in Int /\ b \in Int /\ now \in Int
      /\ now' = now /\ since' = now /\ laps' = 0 /\ period' = Rational(a, b)
      /\ asked' = [num |-> a, den |-> b, mult |-> 1] /\ Divides(a, b)
  <2>1. a \in Int /\ b \in Int /\ now \in Int /\ x \in Int
    BY <1>0, ClientAssumption, WordType DEF TypeOK, StoreType
  <2> QED
    BY <1>0, <2>1 DEF SetPeriod
<1>2. Wrap(x) = x
  BY <1>1, WrapSmall
<1>3. b # 0 /\ ~(x = -Half /\ b = -1)
  BY <1>1, <1>2 DEF Divides
<1>4. period' = Wrap(Quotient(x, b))
  BY <1>1, <1>2 DEF Rational
<1> HIDE DEF x
<1>5. period' = Quotient(x, b)
  BY <1>1, <1>3, <1>4, QuotientFits, WrapSmall
<1>6. Approximates(period' * b, x, Magnitude(b) - 1) /\ period' \in Int
  BY <1>1, <1>3, <1>5, QuotientClose
<1>7. 1 * (Magnitude(b) - 1) = Magnitude(b) - 1
  BY <1>1 DEF Magnitude
<1>8. now' - since' = laps' * period'
  <2>1. now' - since' = 0 /\ 0 * period' = 0
    BY <1>1, <1>6
  <2> QED
    BY <1>1, <2>1
<1>9. /\ asked'.den = b /\ asked'.num * NsPerSec = x /\ asked'.mult = 1
  BY <1>1 DEF x
<1> QED
  BY <1>3, <1>6, <1>7, <1>8, <1>9 DEF Drift

LEMMA DriftMultiply ==
    ASSUME TypeOK, Drift, NEW m \in Longs, Multiply(m)
    PROVE  Drift'
<1> SUFFICES ASSUME ~ wrapped' PROVE Drift'
  BY DEF Drift
<1> DEFINE n == asked.num
           d == asked.den
           f == asked.mult
<1>1. /\ n \in Int /\ d \in Int /\ f \in Int /\ m \in Int /\ NsPerSec \in Int
      /\ period \in Int /\ now \in Int
  BY ClientAssumption, WordType DEF TypeOK, Asked, StoreType
<1>2. /\ now' = now /\ since' = now /\ laps' = 0 /\ ~ wrapped
      /\ period' = Wrap(period * m) /\ period * m \in StoreType
      /\ asked' = [num |-> n * m, den |-> d, mult |-> f * Magnitude(m)]
  BY DEF Multiply, Fits
<1>3. period' = period * m
  BY <1>2, WrapSmall
<1>4. d # 0 /\ Approximates(period * d, n * NsPerSec, f * (Magnitude(d) - 1))
  BY <1>2 DEF Drift
<1>5. asked'.num = n * m /\ asked'.den = d /\ asked'.mult = f * Magnitude(m)
  BY <1>2
<1> HIDE DEF n, d, f
<1>6. Magnitude(d) \in Int /\ Magnitude(m) \in Int
  BY <1>1 DEF Magnitude
<1> DEFINE e == f * (Magnitude(d) - 1)
           r == period * d
           j == n * NsPerSec
<1>7. e \in Int /\ r \in Int /\ j \in Int
  BY <1>1, <1>6
<1>8. /\ (period * m) * d = m * r /\ (n * m) * NsPerSec = m * j
  BY <1>1
<1>9. (f * Magnitude(m)) * (Magnitude(d) - 1) = Magnitude(m) * e
  BY <1>1, <1>6
<1> HIDE DEF e, r, j
<1>10. Approximates(m * r, m * j, Magnitude(m) * e)
  BY <1>1, <1>4, <1>7, ApproximatesTimes DEF e, r, j
<1>11. now' - since' = laps' * period'
  <2>1. now' - since' = 0 /\ 0 * (period * m) = 0
    BY <1>1, <1>2
  <2> QED
    BY <1>2, <1>3, <2>1
<1> QED
  BY <1>3, <1>4, <1>5, <1>8, <1>9, <1>10, <1>11 DEF Drift

LEMMA DriftMove ==
    ASSUME TypeOK, Drift, Advance \/ Retreat
    PROVE  Drift'
<1> SUFFICES ASSUME ~ wrapped' PROVE Drift'
  BY DEF Drift
<1>1. /\ now \in Int /\ since \in Int /\ laps \in Int /\ period \in Int
      /\ since' = since /\ period' = period /\ asked' = asked /\ ~ wrapped
  BY WordType DEF TypeOK, StoreType, Advance, Retreat
<1>2. now - since = laps * period /\ laps * period \in Int
  BY <1>1 DEF Drift
<1>3. now' - since' = laps' * period'
  <2>1. CASE Advance
    <3>1. now' = now + period /\ laps' = laps + 1
      BY <1>1, <2>1, WrapSmall DEF Advance, Fits, Later
    <3>2. (laps + 1) * period = laps * period + period
      BY <1>1
    <3> QED
      BY <1>1, <1>2, <3>1, <3>2
  <2>2. CASE Retreat
    <3>1. now' = now - period /\ laps' = laps - 1
      BY <1>1, <2>2, WrapSmall DEF Retreat, Fits, Earlier
    <3>2. (laps - 1) * period = laps * period - period
      BY <1>1
    <3> QED
      BY <1>1, <1>2, <3>1, <3>2
  <2> QED
    BY <2>1, <2>2
<1> QED
  BY <1>1, <1>3 DEF Drift

LEMMA DriftBounds ==
    ASSUME TypeOK, Drift
    PROVE  DriftBounded
<1> SUFFICES ASSUME ~ wrapped PROVE DriftBounded
  BY DEF DriftBounded
<1> DEFINE n == asked.num
           d == asked.den
           f == asked.mult
<1>1. /\ n \in Int /\ d \in Int /\ f \in Int /\ laps \in Int
      /\ NsPerSec \in Int /\ period \in Int
  BY ClientAssumption, WordType DEF TypeOK, Asked, StoreType
<1>2. /\ now - since = laps * period
      /\ Approximates(period * d, n * NsPerSec, f * (Magnitude(d) - 1))
  BY DEF Drift
<1> HIDE DEF n, d, f
<1>3. Magnitude(d) \in Int /\ Magnitude(laps) \in Int
  BY <1>1 DEF Magnitude
<1> DEFINE e == f * (Magnitude(d) - 1)
           r == period * d
           j == n * NsPerSec
<1>4. e \in Int /\ r \in Int /\ j \in Int
  BY <1>1, <1>3
<1>5. /\ (laps * period) * d = laps * r /\ (laps * n) * NsPerSec = laps * j
  BY <1>1
<1>6. (Magnitude(laps) * f) * (Magnitude(d) - 1) = Magnitude(laps) * e
  BY <1>1, <1>3
<1> HIDE DEF e, r, j
<1>7. Approximates(laps * r, laps * j, Magnitude(laps) * e)
  BY <1>1, <1>2, <1>4, ApproximatesTimes DEF e, r, j
<1>8. Approximates((now - since) * d, (laps * n) * NsPerSec,
                   (Magnitude(laps) * f) * (Magnitude(d) - 1))
  BY <1>2, <1>5, <1>6, <1>7
<1> QED
  BY <1>8 DEF DriftBounded, Approximates, n, d, f

LEMMA DriftNext == TypeOK /\ Drift /\ [Next]_vars => Drift'
<1> SUFFICES ASSUME TypeOK, Drift, [Next]_vars PROVE Drift'
  OBVIOUS
<1>1. CASE UNCHANGED timer
  BY <1>1 DEF timer, Drift
<1>2. CASE Advance \/ Retreat
  BY <1>2, DriftMove
<1>3. CASE \E a, b \in Longs : SetPeriod(a, b)
  BY <1>3, DriftSetPeriod
<1>4. CASE \E m \in Longs : Multiply(m)
  BY <1>4, DriftMultiply
<1> QED
  BY <1>1, <1>2, <1>3, <1>4
  DEF Next, Stopped, DivisionFails, Store, PutByte, Packed, Load, GetByte,
      Loaded, vars, timer

\* As long as results fit, the rounding of Duration(a, b) adds up to less than
\* a nanosecond for every period and factor, and never slows a timer down.
THEOREM DriftIsBounded == Spec => []DriftBounded
<1>1. TypeOK /\ Drift => DriftBounded
  BY DriftBounds
<1> QED
  BY <1>1, TypeInit, TypeNext, DriftInit, DriftNext, PTL DEF Spec
=============================================================================
