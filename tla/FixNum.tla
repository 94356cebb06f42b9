------------------------------- MODULE FixNum -------------------------------
(***************************************************************************)
(* FixNum, AbsTime and Duration: signed nanoseconds in a machine word, the *)
(* arithmetic a periodic timer does with them, and the byte array in which *)
(* a time travels in a packet.                                             *)
(***************************************************************************)
EXTENDS Integers

CONSTANTS
    Size,      \* FixNum::size, bytes of a StoreType: 8
    Base,      \* values of a byte: 256
    Weight,    \* Weight[i] is Base^i, what a 1 in byte i stands for
    NsPerSec,  \* nanoseconds per second: 1000000000
    Longs,     \* the arguments clients pass as long
    Epochs,    \* the clock when the program starts
    MaxLaps,   \* bound: periods added since the period was set
    MaxFactor  \* bound: a period multiplied by more is not multiplied again

ASSUME WordAssumption ==
    /\ Size \in Nat \ {0}
    /\ Base \in Nat \ {0} /\ Base % 2 = 0
    /\ Weight \in [0 .. Size -> Nat \ {0}]
    /\ Weight[0] = 1
    /\ \A n \in 0 .. Size - 1 : Weight[n + 1] = Base * Weight[n]

ASSUME ClientAssumption ==
    /\ NsPerSec \in Nat \ {0} /\ MaxLaps \in Nat /\ MaxFactor \in Nat
    /\ Longs \subseteq Int /\ Epochs \subseteq Int

M    == Weight[Size]  \* 2^64
Half == M \div 2

StoreType == -Half .. Half - 1
Byte == 0 .. Base - 1

\* What is left of an integer in a StoreType, in two's complement.
\* Fault: the word is taken as an unsigned one.
Signed_Not(u) == u
Signed(u) == IF u < Half THEN u ELSE u - M
Wrap(x) == Signed(x % M)

VARIABLES
    now,      \* an AbsTime: when the timer is due
    since,    \* an AbsTime: when its period was set
    period,   \* a Duration
    total,    \* a Duration: the sum of the periods added since
    mem,      \* the memory of toArray and fromArray
    copy,     \* the AbsTime or Duration that is restored
    pc,       \* "client", "toArray", "packed", "fromArray", "loaded", "crash"
    i,        \* the loops' i
    temp,     \* toArray(): temp
    stored,   \* history: the value given to toArray()
    asked,    \* history: the period that was asked for
    laps,     \* history: periods added since
    wrapped   \* history: a result did not fit since the period was set

timer == <<now, since, period, total, asked, laps, wrapped>>
array == <<mem, copy, i, temp, stored>>
vars  == <<pc, timer, array>>

\* num / den seconds, computed by one division and multiplications by up to
\* mult in all.
Asked == [num : Int, den : Int, mult : Nat]

Magnitude(x) == IF x < 0 THEN -x ELSE x

-----------------------------------------------------------------------------
(* Arithmetic. *)

\* Division as C++ has it: towards zero.
Quotient(x, y) ==
    IF (x < 0) = (y < 0) THEN Magnitude(x) \div Magnitude(y)
                         ELSE -(Magnitude(x) \div Magnitude(y))

\* Duration(long a, long b)
\* Fault: divided first, multiplied afterwards.
Rational_DivideFirst(a, b) == Wrap(Quotient(a, b) * NsPerSec)
Rational(a, b) == Wrap(Quotient(Wrap(a * NsPerSec), b))

\* The processor refuses a division by zero, and the one whose result does
\* not fit.
Divides(a, b) == b # 0 /\ ~(Wrap(a * NsPerSec) = -Half /\ b = -1)

Fits(x) == x \in StoreType

\* AbsTime + Duration and AbsTime - Duration, and what += and -= leave in an
\* AbsTime.
Later(t, d) == Wrap(t + d)
Earlier(t, d) == Wrap(t - d)

\* Duration + Duration and Duration - Duration, and += and -=.
\* Fault: -= was copied from +=.
Longer(c, d) == Wrap(c + d)
Shorter_Adds(c, d) == Wrap(c + d)
Shorter(c, d) == Wrap(c - d)

\* AbsTime - AbsTime
Difference(s, t) == Wrap(s - t)

Init ==
    /\ now \in Epochs \cap StoreType /\ since = now
    /\ period = 0 /\ total = 0
    /\ asked = [num |-> 0, den |-> 1, mult |-> 1] /\ laps = 0 /\ wrapped = FALSE
    /\ mem \in [0 .. Size - 1 -> {0}]
    /\ copy = 0 /\ i = 0 /\ temp = 0 /\ stored = 0
    /\ pc = "client"

\* period = Duration(a, b)
SetPeriod(a, b) ==
    /\ pc = "client"
    /\ Divides(a, b)
    /\ period' = Rational(a, b)
    /\ asked' = [num |-> a, den |-> b, mult |-> 1]
    /\ since' = now /\ total' = 0 /\ laps' = 0
    /\ wrapped' = ~ Fits(a * NsPerSec)
    /\ UNCHANGED <<now, pc, array>>

DivisionFails(a, b) ==
    /\ pc = "client"
    /\ ~ Divides(a, b)
    /\ pc' = "crash"
    /\ UNCHANGED <<timer, array>>

\* period *= m
Multiply(m) ==
    /\ pc = "client" /\ asked.mult <= MaxFactor
    /\ period' = Wrap(period * m)
    /\ asked' = [num |-> asked.num * m, den |-> asked.den,
                 mult |-> asked.mult * Magnitude(m)]
    /\ since' = now /\ total' = 0 /\ laps' = 0
    /\ wrapped' = (wrapped \/ ~ Fits(period * m))
    /\ UNCHANGED <<now, pc, array>>

\* now += period; total += period
Advance ==
    /\ pc = "client" /\ laps < MaxLaps
    /\ now' = Later(now, period)
    /\ total' = Longer(total, period)
    /\ laps' = laps + 1
    /\ wrapped' = (wrapped \/ ~ Fits(now + period))
    /\ UNCHANGED <<since, period, asked, pc, array>>

\* now -= period; total -= period
Retreat ==
    /\ pc = "client" /\ laps > -MaxLaps
    /\ now' = Earlier(now, period)
    /\ total' = Shorter(total, period)
    /\ laps' = laps - 1
    /\ wrapped' = (wrapped \/ ~ Fits(now - period))
    /\ UNCHANGED <<since, period, asked, pc, array>>

Elapsed == Difference(now, since)

-----------------------------------------------------------------------------
(* toArray() and fromArray(). *)

\* A point in time, or the difference of two, is stored.
Store ==
    /\ pc = "client"
    /\ \E v \in {now, Elapsed} : stored' = v /\ temp' = v % M
    /\ i' = 0
    /\ pc' = "toArray"
    /\ UNCHANGED <<timer, mem, copy>>

\* Where the pointer is in turn i of the loop.
\* Fault: the array is filled from its start.
Position_FromStart(n) == n
Position(n) == Size - 1 - n

PutByte ==
    /\ pc = "toArray" /\ i # Size
    /\ mem' = [mem EXCEPT ![Position(i)] = temp % Base]
    /\ temp' = temp \div Base
    /\ i' = i + 1
    /\ UNCHANGED <<timer, pc, copy, stored>>

Packed ==
    /\ pc = "toArray" /\ i = Size
    /\ pc' = "packed"
    /\ UNCHANGED <<timer, array>>

Load ==
    /\ pc = "packed"
    /\ copy' = 0 /\ i' = 0
    /\ pc' = "fromArray"
    /\ UNCHANGED <<timer, mem, temp, stored>>

\* v |= b, for a v without low bits.
\* Fault: bytes are signed, and a negative one sets all bits above.
OrByte_Signed(v, b) == IF 2 * b < Base THEN Wrap(v + b) ELSE b - Base
OrByte(v, b) == Wrap(v + b)

GetByte ==
    /\ pc = "fromArray" /\ i # Size
    /\ copy' = OrByte(Wrap(copy * Base), mem[i])
    /\ i' = i + 1
    /\ UNCHANGED <<timer, pc, mem, temp, stored>>

Loaded ==
    /\ pc = "fromArray" /\ i = Size
    /\ pc' = "loaded"
    /\ UNCHANGED <<timer, array>>

Stopped == pc \in {"loaded", "crash"} /\ UNCHANGED vars

Next ==
    \/ \E a, b \in Longs : SetPeriod(a, b) \/ DivisionFails(a, b)
    \/ \E m \in Longs : Multiply(m)
    \/ Advance \/ Retreat
    \/ Store \/ PutByte \/ Packed \/ Load \/ GetByte \/ Loaded
    \/ Stopped

Spec == Init /\ [][Next]_vars

-----------------------------------------------------------------------------
(* Properties. *)

\* Every variable has its type; what is computed fits into a StoreType.
TypeOK ==
    /\ now \in StoreType /\ since \in StoreType /\ period \in StoreType
    /\ total \in StoreType
    /\ mem \in [0 .. Size - 1 -> Byte]
    /\ copy \in StoreType /\ stored \in StoreType
    /\ pc \in {"client", "toArray", "packed", "fromArray", "loaded", "crash"}
    /\ i \in 0 .. Size /\ temp \in Nat
    /\ asked \in Asked /\ laps \in Int /\ wrapped \in BOOLEAN

\* fromArray() restores the value that toArray() stored, negative ones too.
RoundTrip == pc = "loaded" => copy = stored

\* toArray() writes the most significant byte first, on every platform, and
\* fromArray() leaves the bytes as they are: each of them is the digit of its
\* place in two's complement.
NetworkOrder ==
    pc \in {"packed", "fromArray"} =>
        \A n \in 0 .. Size - 1 :
            mem[n] = ((stored % M) \div Weight[Size - 1 - n]) % Base

\* A timer that is moved by its period, forth or back, is as many periods from
\* its start as were counted, whether or not results overflowed on the way, and
\* as the sum of those periods says.  The period before the next is where the
\* timer is.
CountsPeriods ==
    /\ Elapsed = Wrap(laps * period) /\ total = Elapsed
    /\ Earlier(Later(now, period), period) = now

\* Rounding adds up to less than a nanosecond for every period and factor, and
\* it never makes a timer slower than what was asked for.
DriftBounded ==
    ~ wrapped =>
        LET ideal == laps * asked.num * NsPerSec
            real  == (now - since) * asked.den
        IN  /\ Magnitude(real) <= Magnitude(ideal)
            /\ Magnitude(ideal - real) <=
                 Magnitude(laps) * asked.mult * (Magnitude(asked.den) - 1)
=============================================================================
