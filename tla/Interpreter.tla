---------------------------- MODULE Interpreter -----------------------------
(***************************************************************************)
(* What gea_start promises whoever writes commands to it, without saying   *)
(* how it reads: the commands of the text are run one after the other, in  *)
(* the order of the text, none twice and none left out; a command is run   *)
(* only when it has been written to its end, or when nothing more can come *)
(* behind it.                                                              *)
(***************************************************************************)
EXTENDS Naturals, Sequences

CONSTANTS
    Char,       \* the characters of a text
    Delimiter,  \* what ends a command
    Script(_)   \* the commands a text asks for

VARIABLES
    text,       \* what has been written
    ended,      \* nothing more will be written
    executed    \* the commands that were run

vars == <<text, ended, executed>>

\* The end of the text ends its last command.
Whole == IF ended THEN text \o <<Delimiter>> ELSE text

Init == text = <<>> /\ ~ ended /\ executed = <<>>

Write(c) ==
    /\ ~ ended
    /\ text' = Append(text, c)
    /\ UNCHANGED <<ended, executed>>

Close ==
    /\ ~ ended /\ ended'
    /\ UNCHANGED <<text, executed>>

Run ==
    /\ Len(executed) < Len(Script(Whole))
    /\ executed' = Append(executed, Script(Whole)[Len(executed) + 1])
    /\ UNCHANGED <<text, ended>>

Next ==
    \/ \E c \in Char : Write(c)
    \/ Close
    \/ Run

Spec == Init /\ [][Next]_vars
=============================================================================
