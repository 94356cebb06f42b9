------------------------------ MODULE GeaTime ------------------------------
(***************************************************************************)
(* Time as the event loop sees it.  AbsTime and Duration count nanoseconds *)
(* (FixNum, include/gea/Time.h); the clock that AbsTime::now() reads and   *)
(* the timeval that select() takes count microseconds.                     *)
(***************************************************************************)
EXTENDS Integers

CONSTANTS
    UsPerSec,   \* microseconds per second: 1000000, small in the TLC runs
    NsPerUs     \* nanoseconds per microsecond: 1000, small in the TLC runs

ASSUME UnitAssumption == /\ UsPerSec \in Nat \ {0}
                         /\ NsPerUs \in Nat \ {0}

NsPerSec == UsPerSec * NsPerUs

\* The timeval handed to select() for a sleep of n nanoseconds.  Both fields
\* are computed from the whole duration: tv_usec is not the remainder that
\* tv_sec leaves.
\* Fault: the microseconds are dropped.
duration2Timeval_Seconds(n) == [tv_sec |-> n \div NsPerSec, tv_usec |-> 0]
duration2Timeval(n) == [tv_sec  |-> n \div NsPerSec,
                        tv_usec |-> n \div NsPerUs]

\* The timeval a strict select() accepts (POSIX: EINVAL otherwise).
ValidTimeval(tv) == tv.tv_usec < UsPerSec

\* How long select() sleeps, in nanoseconds, when the kernel accepts any
\* tv_usec and carries it into the seconds, as Linux does.
SelectNs(tv) == tv.tv_sec * NsPerSec + tv.tv_usec * NsPerUs
=============================================================================
