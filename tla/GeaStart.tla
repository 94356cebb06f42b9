------------------------------ MODULE GeaStart ------------------------------
(***************************************************************************)
(* The program gea_start: what main() starts, and new_input(), which reads *)
(* commands from a descriptor in pieces as the event loop finds it         *)
(* readable, splits them and runs them.                                    *)
(*                                                                         *)
(* What the pieces are is up to whoever writes to the descriptor and to    *)
(* the kernel; when the event loop calls new_input(), and whether it says  *)
(* the descriptor is ready, is up to time.                                 *)
(***************************************************************************)
EXTENDS Naturals, Sequences, FiniteSets

CONSTANTS
    Letters,   \* characters that mean nothing to the reader
    Modules,   \* paths of libraries in which a gea_main is found
    MaxArgs,   \* the length of argv in parse_cmd(): 100
    BufSize,   \* bsize: what one read() takes at most
    MaxInput   \* bound: characters in the input

ASSUME StartAssumption ==
    /\ Letters \cap {"#", " ", ";", "NUL"} = {}
    /\ Modules \subseteq Seq(Letters \cup {"#"}) /\ MaxArgs \in Nat \ {0}
    /\ BufSize \in Nat \ {0} /\ MaxInput \in Nat

\* A blank stands for a tab too, a semicolon for a newline.
Blank == " "
Delimiter == ";"
Zero == "NUL"
Char == Letters \cup {"#", Blank, Delimiter, Zero}

PC == {"main",       \* before main() has looked at its arguments
       "waiting",    \* the event loop waits for conf_fd, at most a second
       "called",     \* in new_input()
       "splitting",  \* in new_input(), after read(): while (strpbrk(...))
       "overrun",    \* parse_cmd() has written behind the end of argv
       "done"}       \* conf_fd is closed, or never was read

VARIABLES
    input,     \* what has been written to the other end of conf_fd
    ended,     \* nothing more will be written
    taken,     \* how many characters of it have been read
    status,    \* the status of the handle of conf_fd
    line,      \* the static buffer of new_input(); its length is in length
    eof,       \* new_input() has seen the end of the file
    executed,  \* the words of the commands that were run, in order
    pc         \* where the thread is

vars == <<input, ended, taken, status, line, eof, executed, pc>>

\* Where strpbrk() can cut a string, and where it does: a zero ends the string,
\* although length counts what comes behind it.
Ends(s) == {i \in 1 .. Len(s) : s[i] = Delimiter /\ \A j \in 1 .. i : s[j] # Zero}
FirstEnd(s) == CHOOSE i \in Ends(s) : \A j \in Ends(s) : i <= j

\* The k-th smallest of a set of positions.
Kth(S, k) == CHOOSE i \in S : Cardinality({j \in S : j <= i}) = k

\* strtok(): the longest pieces without blanks, in order.
InWord(cmd) == {i \in 1 .. Len(cmd) : cmd[i] # Blank}
WordStarts(cmd) == {i \in InWord(cmd) : i - 1 \notin InWord(cmd)}
WordEnd(cmd, i) ==
    CHOOSE j \in InWord(cmd) :
        i <= j /\ i .. j \subseteq InWord(cmd) /\ j + 1 \notin InWord(cmd)

Words(cmd) ==
    [k \in 1 .. Cardinality(WordStarts(cmd)) |->
       LET i == Kth(WordStarts(cmd), k) IN SubSeq(cmd, i, WordEnd(cmd, i))]

\* parse_cmd() runs what has a word and is not a comment.  Only the first
\* character makes a comment.
Runs(cmd) == Words(cmd) # <<>> /\ cmd[1] # "#"

\* run_gea_main(): the first word is a library that has a gea_main; otherwise
\* there is a message, and the reader goes on.
Loads(argv) == argv[1] \in Modules

\* A zero pointer is written behind the last word.
FitsArgv(cmd) == Len(Words(cmd)) < MaxArgs

-----------------------------------------------------------------------------
Init ==
    /\ pc = "main" /\ status = "Undefined" /\ eof = FALSE
    /\ input = <<>> /\ ended = FALSE /\ taken = 0
    /\ line = <<>> /\ executed = <<>>

\* main() with -i, or with -c and a file that can be opened: interactive()
\* waits for the descriptor and runs the event loop.
Interactive ==
    /\ pc = "main" /\ pc' = "waiting"
    /\ status' = "Blocked"
    /\ UNCHANGED <<input, ended, taken, line, eof, executed>>

\* main() with a library, whose gea_main() it runs once, or without anything
\* it can use.
NotInteractive ==
    /\ pc = "main" /\ pc' = "done"
    /\ UNCHANGED <<input, ended, taken, status, line, eof, executed>>

\* read() would not block.
Readable == taken < Len(input) \/ ended

\* The event loop calls new_input().  It may say timeout also when there is
\* something to read: if it was late, it has not looked.
CallReady ==
    /\ pc = "waiting" /\ Readable
    /\ pc' = "called" /\ status' = "Ready"
    /\ UNCHANGED <<input, ended, taken, line, eof, executed>>

CallTimeout ==
    /\ pc = "waiting"
    /\ pc' = "called" /\ status' = "Timeout"
    /\ UNCHANGED <<input, ended, taken, line, eof, executed>>

\* if (h->status != Handle::Ready): wait again
WaitAgain ==
    /\ pc = "called" /\ status # "Ready"
    /\ pc' = "waiting" /\ status' = "Blocked"
    /\ UNCHANGED <<input, ended, taken, line, eof, executed>>

\* What is left in line after a command that ended at i.
\* Faults: the delimiter stays; the rest is thrown away.
Rest_WithDelimiter(s, i) == SubSeq(s, i, Len(s))
Rest_None(s, i) == <<>>
Rest(s, i) == SubSeq(s, i + 1, Len(s))

\* At the end of the file a newline is made up, to end the last command.
\* Fault: it is not.
AtEnd_Nothing == <<>>
AtEnd == <<Delimiter>>

\* read() returns up to BufSize characters, and they are appended to line.
\* Fault: they are written over it.
Appended_Over(old, new) == new
Appended(old, new) == old \o new

Read(n) ==
    /\ pc = "called" /\ status = "Ready"
    /\ n <= BufSize /\ taken + n <= Len(input)
    /\ taken' = taken + n
    /\ line' = Appended(line, SubSeq(input, taken + 1, taken + n))
    /\ eof' = FALSE
    /\ pc' = "splitting"
    /\ UNCHANGED <<input, ended, status, executed>>

\* read() returns 0 or an error.  After an error nothing more is read, so what
\* might have been is no part of input.
ReadEnd ==
    /\ pc = "called" /\ status = "Ready"
    /\ ended /\ taken = Len(input)
    /\ line' = Appended(line, AtEnd)
    /\ eof' = TRUE
    /\ pc' = "splitting"
    /\ UNCHANGED <<input, ended, taken, status, executed>>

\* After the loop: close(conf_fd), or wait for more.
\* Fault: the handler waits again after the end.
AfterLoop_Waits(e) == "waiting"
AfterLoop(e) == IF e THEN "done" ELSE "waiting"

\* One turn of the loop: the first command is cut off and parsed.
Command == SubSeq(line, 1, FirstEnd(line) - 1)

Split ==
    /\ pc = "splitting" /\ Ends(line) # {}
    /\ Runs(Command) => FitsArgv(Command)
    /\ executed' = IF Runs(Command) /\ Loads(Words(Command))
                     THEN Append(executed, Words(Command)) ELSE executed
    /\ line' = Rest(line, FirstEnd(line))
    /\ UNCHANGED <<input, ended, taken, status, eof, pc>>

\* while (token): nothing looks at how many words there are.
\* Fault: a comment is split into words too.
Overrun_Comments ==
    /\ pc = "splitting" /\ Ends(line) # {}
    /\ ~ FitsArgv(Command)
    /\ pc' = "overrun"
    /\ UNCHANGED <<input, ended, taken, status, line, eof, executed>>

Overrun ==
    /\ pc = "splitting" /\ Ends(line) # {}
    /\ Runs(Command) /\ ~ FitsArgv(Command)
    /\ pc' = "overrun"
    /\ UNCHANGED <<input, ended, taken, status, line, eof, executed>>

SplitDone ==
    /\ pc = "splitting" /\ Ends(line) = {}
    /\ pc' = AfterLoop(eof)
    /\ status' = IF pc' = "waiting" THEN "Blocked" ELSE status
    /\ UNCHANGED <<input, ended, taken, line, eof, executed>>

-----------------------------------------------------------------------------
(* The other end of the descriptor. *)

Type(c) ==
    /\ ~ ended /\ Len(input) < MaxInput
    /\ input' = Append(input, c)
    /\ UNCHANGED <<ended, taken, status, line, eof, executed, pc>>

End ==
    /\ ~ ended
    /\ ended' = TRUE
    /\ UNCHANGED <<input, taken, status, line, eof, executed, pc>>

Terminated == pc \in {"done", "overrun"} /\ UNCHANGED vars

NewInput ==
    \/ WaitAgain
    \/ \E n \in 1 .. BufSize : Read(n)
    \/ ReadEnd
    \/ Split \/ Overrun
    \/ SplitDone

Next ==
    \/ Interactive \/ NotInteractive
    \/ CallReady \/ CallTimeout
    \/ NewInput
    \/ \E c \in Char : Type(c)
    \/ End
    \/ Terminated

\* A call of new_input() is never left unfinished.  The event loop keeps
\* looking at a descriptor that stays readable; it may find itself late, and say
\* timeout, any number of times in between.  Nothing is assumed of the writer.
Fairness ==
    /\ WF_vars(NewInput)
    /\ SF_vars(CallReady)

Spec == Init /\ [][Next]_vars /\ Fairness

-----------------------------------------------------------------------------
(* Properties. *)

\* Every variable keeps its type; between calls there is no whole command left
\* in the buffer, and new_input() never runs after the end of the file.
TypeOK ==
    /\ input \in Seq(Char) /\ line \in Seq(Char)
    /\ ended \in BOOLEAN /\ eof \in BOOLEAN
    /\ taken \in 0 .. Len(input)
    /\ status \in {"Undefined", "Blocked", "Timeout", "Ready"}
    /\ executed \in Seq(Seq(Seq(Char)))
    /\ pc \in PC
    /\ pc \in {"waiting", "called"} => Ends(line) = {} /\ ~ eof

\* The command of s that ends at e: what is behind the delimiter before.
Between(s, b, e) == (b = 0 \/ b \in Ends(s)) /\ \A i \in Ends(s) : b < i => e <= i
Start(s, e) == CHOOSE b \in 0 .. e - 1 : Between(s, b, e)
CommandAt(s, e) == SubSeq(s, Start(s, e) + 1, e - 1)

\* What a whole text asks for: the commands that end in a delimiter, in order,
\* without comments, blanks and what cannot be loaded - up to a zero.
Asked(s) ==
    {e \in Ends(s) : Runs(CommandAt(s, e)) /\ Loads(Words(CommandAt(s, e)))}

Script(s) ==
    [k \in 1 .. Cardinality(Asked(s)) |-> Words(CommandAt(s, Kth(Asked(s), k)))]

\* However the input is cut into pieces, and wherever new_input() is: what has
\* been run, and what the buffer still asks for, is what the text read so far
\* asks for - no command lost, split, joined, repeated or out of order, also
\* when there are libraries that cannot be loaded, or a zero in the text.  A
\* reader that waits, or has ended, has run all of it.
NothingLost ==
    /\ executed \o Script(line) =
         Script(SubSeq(input, 1, taken) \o IF eof THEN <<Delimiter>> ELSE <<>>)
    /\ pc \in {"waiting", "called", "done"} => Script(line) = <<>>

\* A command is run when it has been written to its end, or nothing more can
\* come, never earlier; and it is the next one of the text, as far as that has
\* been written - whatever of it is still unread, or in the buffer.
Reader == INSTANCE Interpreter WITH text <- input

ImplementsInterpreter == Reader!Spec

\* A text whose commands have fewer words than argv has places does not get
\* the reader to write behind the end of argv, however it is cut into pieces.
AllFit(s) ==
    \A e \in Ends(s) : Runs(CommandAt(s, e)) => FitsArgv(CommandAt(s, e))

ArgvHolds == pc = "overrun" => ~ AllFit(input \o <<Delimiter>>)

\* An interactive reader runs every command once it has been written, without
\* waiting for what comes after it.  A command takes at least two characters.
Started == pc \notin {"main", "done"}

EveryCommandRuns ==
    \A k \in 1 .. MaxInput \div 2 :
        Started /\ Len(Script(input)) >= k ~>
            Len(executed) >= k \/ ~ AllFit(input)

\* When the writer is done the reader ends, and then it has run the whole text,
\* also a last command that no delimiter ends.
RunsToTheEnd ==
    Started /\ ended ~>
        \/ pc = "done" /\ executed = Script(input \o <<Delimiter>>)
        \/ ~ AllFit(input \o <<Delimiter>>)
=============================================================================
