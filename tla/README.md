# Verification of libgea

libgea ("GEA - an abstraction layer for developing network protocols") gives a
protocol implementation one API for time, events and UDP, on POSIX or in a
simulator.  This directory holds TLA+ models of the POSIX back end, TLC
configurations that check them on small instances, and TLAPS proofs for every
instance.  Paths below are relative to the repository's root.

## The system

A program written for GEA is one thread.  `gea_start` initialises the API
interface, calls the client's `gea_main`, and then `ShadowEventHandler::run()`,
which calls the client back until no event is pending.  Components interact by
calls and callbacks on that thread; what interleaves with it is the outside:
the wall clock, data on descriptors, and signals.

| component | state | operations | hard parts |
| --- | --- | --- | --- |
| Event loop: `src/ShadowEventHandler.cc`, `EventHandler.h` | the multimap of events by timeout, `lastEventTime`, the call list being worked off | `waitFor`, `run`, `handleTimeout` | callbacks re-enter `waitFor` while lists are scanned and called; late timeouts; time read once and used later; EINTR |
| Time: `include/gea/Time.h`, `src/Time.cc` | none | `now`, arithmetic, `toArray`, `fromArray` | nanoseconds against the clock's microseconds; 64-bit overflow; division |
| Handles: `Handle.h`, `Blocker.h`, `src/UnixFdHandle.cc` | status; behind it a shadow with type, descriptor, mode | construct, destroy, `read`, `write` | status is shared by all events on a handle; destruction does not cancel; addresses and descriptors are used again |
| DependHandle: `src/ShadowDependHandle.cc` | `triggered`, in a sub of its own | `complied`, the dependent pass, the reset | a trigger set during a batch; when the pass runs; a destructor that constructs |
| UDP: `src/ShadowUdpHandle.cc`, `src/UdpHandle.cc` | socket, source, destination, `already_bound` | `setSrc`, `setDest`, `read`, `write` | re-binding by replacing the socket; options lost; a failed `bind` |
| Object repository: `ObjRepository.h` | map (node, name) to (type, object) | insert, get, remove | insertion does not overwrite; macros ignore the result and cast; pointers outlive objects |
| API interface: `ApiIface.h`, `PosixApiIface.h`, `src/gea.cc` | `GEA_apiIface`, `GEA` | initialisation, dispatch | what runs before it |
| Start and reader: `src/utils/gea_start.cc` | configuration file, partial command | `parse_cmd`, `new_input` | commands split across 10-byte reads; end of file; more words than `argv` has room for; NUL |
| Interface guess: `src/guess_iface.cc` | none | search by falling score | termination |
| Output and platform: `AnimLink`, `NodeColor`, `compat` | none | output, WinSock start | none |

What makes each correct: the event loop calls every event exactly once, in
time, in order, and as soon as what it waited for has happened; time arithmetic
and its byte format lose nothing; a UDP socket always has the source and the
options that were asked of it; a handle keeps its shadow, its sub and its file
whatever else is deleted; the repository returns what was stored, with its
type; the reader runs the commands of the file whatever the pieces it arrives
in; the guess ends with the best interface.

## Modules

| module | what it is |
| --- | --- |
| `GeaTime` | units of time, `duration2Timeval`, and what `select()` makes of its result |
| `EventLoop` | the event loop, the dependent trigger, the client's callbacks, the outside; the properties |
| `EventService` | the abstract service: what `waitFor()` promises, without the loop |
| `MCEventLoop` | `EventLoop` for TLC, with a symmetry set |
| `Handles` | constructors and destructors of all handles as operators on a memory, and the way from a handle to its descriptor |
| `ObjRepository` | the repository: a map from names to typed pointers |
| `Apps`, `MCApps` | applications that create, register, find, use and delete handles: composes the two above; the properties; the process TLC starts with |
| `UdpSocket`, `MCUdpSocket` | UDP handles on the kernel's descriptors, addresses and queues; the properties; the symmetry set |
| `GeaStart`, `MCGeaStart` | `main()` and the reader of commands of `gea_start`; the properties; the libraries TLC lets it find |
| `Interpreter` | the abstract promise of `gea_start`: commands run in order, each once, none before it is complete |
| `FixNum`, `MCFixNum` | times and durations in a machine word, and their byte arrays; the properties; words small enough for TLC |
| `GuessIface`, `MCGuessIface` | the search for the program's address; the properties; the interfaces TLC uses |
| `EventLoopProofs` | types, punctuality, order of timeouts, no abort |
| `EventServiceProofs` | conservation of events, and that `EventLoop` implements `EventService` |
| `PoliteClientProofs` | what the rules of a client are good for: the safety properties of the run `polite` |
| `AppsProofs` | types, and the six properties of `Apps` |
| `UdpSocketProofs` | types, and the four other invariants of `UdpSocket` |
| `FixNumProofs` | the invariants of `FixNum`, with the arithmetic of words they need |
| `GuessIfaceProofs` | the safety properties of `GuessIface`, and that the search is finite |
| `GeaStartProofs` | types; that no command is lost; that a good text never overruns `argv`; that `GeaStart` implements `Interpreter` |

`EventLoop`, `UdpSocket`, `GeaStart` and `Apps` are checked apart; where they meet, one
contains what it needs of the other.  For `EventLoop` a UDP handle and the
reader's descriptor are members of `Fds`, and a command is a step of the client.
`UdpSocket` counts the events of each receiver that are due in the batch (a sender
is always ready, so its callbacks are just steps of the client), and
`GeaStart` the two ways the loop may call a handler.  `Apps` has the callbacks
of the loop (`Call`, `Return`) and asks what the loop would find behind a handle
(`HasDescriptor`, `Watch`); that the loop only looks at handles that exist is
`NoDangling`'s concern.  A socket in `Apps` is a descriptor and no more.  The client rules
`leaves_due` and `keeps_ready` and the strong fairness of `CallReady` are about these seams.  `FixNum` and `GuessIface` stand alone: the event loop's times
are unbounded integers, which is what `FixNum` is as long as `wrapped` is false
(2^63 ns are 292 years), and the guessed address is not used by the loop.

### EventLoop and the code

`pc` is where the thread is.  Between two values of `pc` the code runs without
calling the client; a value is kept wherever the client, the clock or the kernel
can change what the next piece of code reads.

| action | code in `src/ShadowEventHandler.cc` |
| --- | --- |
| `WaitFor`, `RefuseWait` | `waitFor()`, 322-341: the insertion, and `abort()` |
| `LoopHead` | `while (!eventList.empty())` and `t_now`, 252-254 |
| `LateTimeout`, `LateEmpty`, `LateDangling` | the loop over late events, 256-261, with `handleTimeout()`, 233-247 |
| `EnterSelect`, `SelectInterrupted`, `SelectTimeout`, `SelectReady` | 263-298: the timeval, the sets, `select()`, its results |
| `CallNext`, `FdCallsDone` | `for_each(..., callECList(...))`, 111-121 |
| `CollectComplied`, `ResetTriggers`, `DepsDone` | the dependent pass, 305-318 |
| `Return` | the client's callback returns; `handleTimeout()` erases its entry |
| `PassDangling` | a scan or the reset follows the shadow handle of a destroyed handle |
| `Complied` | `ShadowDepend::complied()`, `src/ShadowDependHandle.cc` 6-11 |
| `Run` | `main()` and `interactive()` of `src/utils/gea_start.cc` enter `run()`, 192 and 146 there |
| `Transfer`, `RefuseTransfer` | `read` and `write`, from any callback on any handle, `src/UnixFdHandle.cc` 29-39: the transfer, and `assert (status == Ready)` |
| `Destroy` | `~Handle()`, `src/ShadowHandle.cc` 11-14 |
| `Tick`, `StepBack`, `Arrive` | the wall clock and the kernel |

Abstractions, all of data:

- An event is a record of an id, a handle and a timeout.  The id stands for the
  callback and its argument, and counts insertions, because a multimap keeps
  equal keys in the order they came.
- A call list is the set of its events.  The code fills it in the list's order
  and calls it in the order it was filled, so `CallNext` takes the first event.
  All events of one batch carry one time; the code reads the clock for each.
- Unix and UDP handles are both `Fds`, and `UnixFds` are those whose `read` and
  `write` assert that the status is `Ready`; those of a UDP handle do not.  A
  descriptor has a number `avail` of transfers that do not block, for whichever mode
  it is watched in.  A transfer that would block the thread is no step.
- `status` of a handle nothing has waited on is `"Undefined"`.  The constructor
  leaves it uninitialised.  The loop does not read it before `waitFor()` has set it;
  the assertion of a transfer does, if the client transfers first, and may hold or
  fail there.
- Undefined behaviour ends the run in a `pc` of its own: `"empty_read"`
  (`begin()` of an empty list is dereferenced) and `"dangling"` (a destroyed
  handle is followed).  The program may do anything from there on.
- What ends the process has a `pc` too: `"abort"`, `"assert"` and `"not_ready"`, the
  assertion of a transfer.
- The clock counts in microseconds, as `gettimeofday` does; timeouts are in
  nanoseconds.  Time starts at 0 and cannot be negative.

The client is arbitrary code.  `ClientRules` names the rules it keeps and
`Platform` what the platform does, so that a run, or a theorem, says what it
assumes:

| rule | meaning |
| --- | --- |
| `one_wait` | at most one uncalled event on a handle |
| `no_self_comply` | no `complied()` on a handle of the batch being called |
| `comply_in_pass` | `complied()` only in callbacks the dependent pass follows: not before `run()`, not in a late event's callback |
| `leaves_due` | no transfer on a handle found ready while the callback of an event on it is still to come |
| `destroy_idle` | no handle is destroyed while an event waits on it |
| `destroy_outside` | no handle of the batch being called is destroyed |
| `keeps_handles` | no handle is destroyed |

None of these is written down in the repository.  Each was found by a
counterexample; two are kept as runs that must fail, below.

### EventService

The abstract service has a set of waiting events, a set of ready ones and the
ids served.  A waiting event is served when its timeout is the first and has
come to within the clock's resolution, and only if nothing is ready; when
handles become ready, exactly the events waiting on them become ready; ready
events are served before anything else, in order of their timeouts.  `Service`
in `EventLoop` is the mapping: waiting is the list without the entry whose
callback is running, ready is what is left of the call list.

### UdpSocket and the code

| action | code in `src/ShadowUdpHandle.cc` |
| --- | --- |
| `Create`, `CreateFails` | the constructor, 106-128, and its assertion on `socket()`, which ends the process (`Abort`) |
| `Destroy` | the destructor, 130-136 |
| `SetSrc` | 138-165: `socket`, `dup2`, `close` for a handle bound before; options; `bind` |
| `SetDest` | 216-225 |
| `Write`, `Read`, `ReadFails`, `WrongMode` | 167-210, with the assertions on the mode |
| `Select`, `Call`, `Return` | the event loop finds receivers ready, any number of events on each; calls the next event; its callback returns (`src/ShadowEventHandler.cc` 111-121, 295-298) |
| `Arrive`, `OthersOpen`, `OthersClose`, `OthersBind` | datagrams; other code of the process; other programs |

`opened` and `sock` are the kernel's: which descriptors are in use and the socket
behind each.  Between the calls of `setSrc()` nothing the other processes do
makes a difference, so it is one step, and no two descriptors refer to one socket
after it.  `socket()` returns the lowest free descriptor; `bind()` refuses a
socket that has an address, an address another program has, and one that is
shared without `SO_REUSEADDR` on both sides.  `sendto()` gives an unbound socket
an address (`Ephemeral`).  Setting port 0 as a source is left out.  Datagrams
are counted per socket; which of two sockets on one address gets one is open.

`read()` may be called anywhere, on any receiver and any number of times: from the
callback of another handle, before the loop runs, or by each of two events that wait
on one handle.  `batch` counts the events of each receiver that are still to be called,
and `reading` is the receiver whose callback runs, until it has read once; a receiver
is `Expected` to have a datagram as long as either names it.

`promise` records the source last asked for, if the system did not refuse it at
that moment - another program had the address, or no descriptor was free.  It
is computed from the system's state only, not from what the code did.

| rule | meaning |
| --- | --- |
| `source_first` | no `setSrc()` after a `write()` that had no source |
| `dest_last` | no second `setSrc()` while the destination is the broadcast address |
| `keeps_ready` | no `setSrc()` on a handle found ready before its callbacks have come and the last has read |
| `leaves_due` | no `read()` on a handle while one of its callbacks is still to come |

The first two rules are each needed by one property, the last two by `ReadyHasData`:
without the rule TLC finds the property violated.

An address is a record as `UdpAddress(ip, port)` makes it (`include/gea/UdpHandle.h`,
`src/UdpHandle.cc`); it is a broadcast address if its IP is `IPADDR_BROADCAST`.

### Handles, ObjRepository, Apps and the code

A memory has one function for each member: the class of the object at an
address, `shadowHandle`, the sub, a sub's `master`, and of a shadow `handleType`,
`unixFd` and `unixMode`; `open` is the kernel's table of descriptors.

| operators | code |
| --- | --- |
| `Handle`, `EndHandle`, `createShadowHandle`, `destroyShadowHandle` | `src/Handle.cc` 9-16, `src/ShadowHandle.cc` |
| `Blocker`, `EndBlocker` | `src/Blocker.cc`, `src/ShadowBlocker.cc` |
| `DependHandle`, `EndDependHandle`, `createSubDepend` | `src/DependHandle.cc`, `src/ShadowDependHandle.cc` 13-16 |
| `UnixFdHandle`, `EndUnixFdHandle` | `src/UnixFdHandle.cc` 11-20 |
| `UdpHandle`, `createSubUdpHandle`, `ShadowUdpHandle` and their `End` | `src/UdpHandle.cc` 76-84, `src/ShadowUdpHandle.cc` 85-136 |
| `HasDescriptor`, `Watch`, `TransferOn` | `src/ShadowEventHandler.cc` 70-93, `UnixFdHandle::read`, `UdpHandle::read` and their `write` |
| `insertObj`, `getObj`, `getType`, `removeObject` | `include/gea/ObjRepository.h` 58-131 |

| action of `Apps` | code |
| --- | --- |
| `StaticHandle`, `initPosixApiIface` | a global handle before `main()`; `src/ShadowEventHandler.cc` 354-375 |
| `Call`, `Return` | the loop calls an application, 111-121 |
| `NewHandle`, `NoSocket`, `DeleteHandle`, `CloseFile` | what a callback may do with handles and files |
| `InsertObj`, `MapObj` | the macros `REP_INSERT_OBJ`, `REP_MAP_OBJ`, 155-171 |
| `RemoveObj`, `UseObj` | `removeObject()`; a call through a mapped pointer |
| `Dbg` | `ShadowEventHandler::dbg()`, 344-352 |

`new` takes any free address (the choice is the same for equal memories), so one
that was freed is used again; `socket()` takes the lowest free descriptor.  What
C++ leaves undefined ends in a `pc` of its own (`"dangling"`, `"confused"`,
`"no_stream"`, `"null_api"`).  An application may delete only handles it created.
`made`, `closed`, `owner`, `mine` and `ended` are what the properties remember.

| rule | meaning | needed by |
| --- | --- | --- |
| `checks_insert` | the result of `insertObj()` is looked at; the macro does not | `RegistrationKept`, `EntriesValid`, `UsesAreSafe` |
| `removes_first` | a name is removed before its handle is deleted | `EntriesValid`, `UsesAreSafe` |
| `checks_type` | `getType()` is asked before a pointer is cast, as its comment says | `UsesAreSafe` |
| `uses_at_once` | a mapped pointer is used before the callback deletes a handle or returns | `UsesAreSafe` |

### GeaStart and the code

| action | code in `src/utils/gea_start.cc` |
| --- | --- |
| `Interactive`, `NotInteractive` | `main()`, 151-196, and `interactive()` |
| `CallReady`, `CallTimeout` | the event loop calls `new_input()` |
| `WaitAgain` | 87-91 |
| `Read`, `ReadEnd` | 93-111: `read()`, the made-up newline, the buffer |
| `Split`, `SplitDone` | 118-133: a turn of the loop, with `parse_cmd()` and `run_gea_main()`; `close` or `waitFor` |
| `Overrun` | 67-73: a word, or the zero behind the last, has no place in `argv` |
| `Type`, `End` | whoever writes the input |

A text is a sequence of letters, `#`, blanks, delimiters and NULs, each standing for its
class; a command is its words.  A NUL ends the string but not the count in `length`:
nothing behind it is looked at again, whatever is copied there.  A command runs if its
first word is one of `Modules`.  Here the text is the data the properties are about.  The writer adds a
character at a time, so that a file, a pipe and a terminal are all covered, and a
read returns any number up to `BufSize` (10 in the code).  `Script` is the
reference: what a whole text asks for.  It does not read: `Asked` is the set of delimiters
at which a command worth running ends, and the k-th command is the one that ends at
the k-th of them.

`Interpreter` is what the writer of commands can rely on, without buffer, pieces or
event loop: text is written, and `Run` runs the next command of the script, if it
is complete.  `Reader` maps its `text` to `input`; `Type` is `Write`, `End` is `Close`,
`Split` is `Run` when the command is one to run, and everything else is a stutter.
A command that is complete in `input` but unread, or in `line`, is one the interpreter
may run already and the reader does not yet.

### FixNum and the code

| action | code in `include/gea/Time.h` |
| --- | --- |
| `SetPeriod`, `DivisionFails` | `Duration(long, long)`, 242-246 |
| `Multiply` | `Duration::operator *=`, 249 |
| `Advance`, `Retreat`, with `Later`, `Earlier`, `Longer`, `Shorter` | `+` and `-` of a time and a duration, and of two durations, and their `+=` and `-=` |
| `Difference` | the difference of two times |
| `Store`, `PutByte`, `Packed` | `toArray`, 116-125, a turn of the loop at a time |
| `Load`, `GetByte`, `Loaded` | `fromArray`, 132-139 |

The client is a periodic timer whose times are sent in packets.  A word has
`Size` bytes of `Base` values; `Weight` has the powers of `Base`, a constant with
an assumption because the provers know nothing of `^`.  Signed overflow and the
shift of a signed value are undefined to the language; the model takes what
the compilers produce here, two's complement (`Wrap`).  The division that the
processor refuses ends in `"crash"`.  `total` is the duration the client adds up
beside its time.  `asked` is the period the client meant, as a
fraction of a second, and `mult` the product of the factors applied after its
one division.

### GuessIface and the code

| action | code in `src/guess_iface.cc` |
| --- | --- |
| `Scan` | 25-41: `socket`, `SIOCGIFCONF` into a list of `MAX_DEV` |
| `ScanFails` | the assertions on `socket()`, 28, and on `SIOCGIFCONF`, 41 |
| `Flags` | 45-57: the name, `SIOCGIFFLAGS` with its assertion |
| `Address`, `AddressGone` | 59-76: `SIOCGIFADDR` with its assertion, the last point, the comparison |
| `NextLevel` | 78-81, 87: `return false`, the next level |
| `Change` | interfaces come, go and change between any two system calls |

An interface is its name, so `Wlan` does not change.  Private addresses are one
point, since no address begins both ways.  No interface has less than -1 points
(a loopback device that is down), so every scan below -1 does the same and `level`
stops at -2; in the code it goes on falling.  `steady` is what a promise can be
made about: interfaces that have not changed and were in every list so far.

## Runs

All instances of `EventLoop` have a microsecond of 2 ns and a second of 2 us, so that delays
of 2 to 5 ns cover less than a microsecond's rest, a microsecond, and more than
a second.  Three registrations are enough for an event to be called, to wait
again from its callback while another is in the same batch, and to be followed
by a third; the clock ticks freely once or twice and as long as a sleep lasts.

In `polite` both descriptors are of UDP handles, which may be read in any status and
so let a callback do all it can to the events after it; `any_client` and `live` have
a `UnixFdHandle`, whose transfers end the program unless it is ready.

| run | client and platform | shows |
| --- | --- | --- |
| `any_client` | no rules; EINTR restarts the sleep | types; `NotEarly`; `TimeoutOrder`; `ImplementsService` |
| `polite` | all rules but `keeps_handles`; two dependent handles and two descriptors | `NeverAborts`, `ReadyUntilCalled`, `NoLostTrigger`, `PromptWakeup`, `NoDangling` |
| `live` | keeps its handles; the clock may be set back; fair | `Conserved`, `EveryEventCalled` |
| `apps` | all rules of `Apps`; two applications, seven objects, descriptors 0 and 1, standard input open, two names | `ShadowsAccounted`, `SubsAccounted`, `WatchesItsFile`, `EntriesValid`, `RegistrationKept`, `UsesAreSafe` |
| `udp` | all rules of `UdpSocket`; two handles, up to two events of each in a batch, descriptors 0 to 2, a plain address and a broadcast one | `DescriptorsAccounted`, `SourceHonoured`, `BroadcastPermitted`, `ReadyHasData` |
| `start` | texts of up to five characters over five classes, reads of up to two, `argv` of three | `NothingLost`, `ArgvHolds`, `ImplementsInterpreter`, `EveryCommandRuns`, `RunsToTheEnd` |
| `guess` | three interfaces, one called wlan, in seven states; room for two; two changes | `BestOfSteady`, `SteadyNeverAborts`, `NearsTheEnd`, `EndsIfSteady` |
| `fixnum` | words of three bytes of four values; a second of 5 ns | `RoundTrip`, `NetworkOrder`, `CountsPeriods`, `DriftBounded` |
| `late_last_event` | one event on a blocker | violated: `NeverReadsEmptyList` |
| `long_sleep` | one event, a second ahead | violated: `SleepsUntilFirst` |
| `comply_late` | all rules but `comply_in_pass` | violated: `PromptWakeup` |
| `comply_self` | all rules but `no_self_comply` | violated: `NoLostTrigger` |

In `apps` seven objects hold a UDP handle (four) and a DependHandle (three), or three
smaller handles; deleting leaves gaps that the next handle fills with shadow and
object the other way round.  Closing standard input lets a socket have descriptor 0,
which is never closed.  One name beside the stream's is enough to be contended for.

In `udp` two handles can share an address, three descriptors allow a re-binding
while one handle is alive and refuse it while two are or others hold one, and a
queue of one datagram can be empty or not when a callback comes.  Two events of a
receiver in a batch are enough for one callback to come before another of the same
handle, with callbacks of the other handle between them.  In `start` five
characters hold two commands and a part of a third (a command to run and its delimiter
are two, so that `EveryCommandRuns` asks for `MaxInput \div 2`), a comment, a command of
blanks, one of three words, which has no room in `argv`, a library and a word that is
none, and a delimiter or a NUL at any place of a piece.

In `guess` three interfaces of which two fit show one behind the list; two changes
are enough to take one interface away under an `ioctl()` and to move another past
its level.  In `fixnum` a period of up to 7 times 5 ns does not fit into -32 to 31,
three additions pass the end of the word in either direction, and dividing by 3
rounds.

Deadlock is checked in every run: there is always a step, or the thread has
stopped in a state the module names.

Fairness (`live`): the thread takes its steps, callbacks return, and time
passes (`WF` of `Loop` and of `Tick`).  The operating system schedules a
runnable thread and a client callback that does not return stops any event
loop.  Nothing is assumed of data, signals or the client's calls.  In `live`
signals are left out (`keeps_tv` is off): with a platform that restarts the whole
sleep, endless signals can hold back a timeout for ever.  `EveryEventCalled`
ends in `"abort"` too, since a clock set back makes `waitFor()` refuse what was
fine before, and in `"not_ready"`, since the client of `live` may transfer at any time.

Fairness (`start`): a call of `new_input()` is finished (`WF`), and a descriptor
that stays readable is found readable in the end (`SF` of `CallReady`).  Strong
fairness is needed because `handleTimeout()` reports a timeout without looking
at the descriptor whenever the loop is late; the reader then waits a second from
the missed timeout, so a loop that is not late for ever gets to `select()`.
Nothing is assumed of the writer.

Fairness (`guess`): the thread runs (`WF` of `Step`).

### What the failing runs show

1. `late_last_event`: after the last pending event was late, `run()` reads
   `begin()->first` of the empty list (260).
2. `long_sleep`: `duration2Timeval` (47-51) puts the whole duration into both
   fields; a sleep of n seconds lasts 2n where `select()` carries microseconds
   into seconds.  Where it refuses them, `assert (sel_ret != -1)` (289) fails
   (`EnterSelect` goes to `"assert"` when `"normalises"` is not in `Platform`).
3. `comply_late`: the loop over late events is not followed by a dependent pass,
   so handlers woken there stay asleep during the next `select()`.  The
   repository's own `test/dependency.cc` complies from a timer's callback.
4. `comply_self`: the reset after a batch takes back a `complied()` made inside it.

Other observations made while modelling, without a run: `lastEventTime` is the
scheduled time for a late event and the clock's for others, so it goes back;
`waitFor(h, AbsTime::now(), ...)` can abort, because `lastEventTime` may be up to
a microsecond ahead of `now()` (`NeverAborts` needs delays of a microsecond);
two events on one handle share its status, so the first callback's `waitFor()`
shows the second a `Blocked` handle (`ReadyUntilCalled` needs `one_wait`); all
handles of a batch are `Ready` before the first callback runs, so a callback may take
the data a later one of the batch was collected for, and the later `read()` blocks
the loop (`ReadyUntilCalled` needs `leaves_due`, and so does `ReadyHasData`, where two
events wait on one UDP handle); a
trigger set while nobody waits is kept and wakes whoever waits next; a callback that
deletes its own DependHandle makes the reset follow a deleted shadow (222:
`NoDangling` needs `destroy_outside`).

In `Apps`: a handle that is a global variable, as in the example of
`include/gea/Blocker.h` (18) and in `test/test.cc` (46), is constructed before
`GEA_apiIface` is set where a program links the library; `gea_start` loads clients
later.  `~DependHandle()` calls `createSubDepend` where `destroySubDepend` was meant: the old
ShadowDepend stays, and a new one with it (`SubsAccounted` counts two).
`ShadowUdpHandle`'s constructor sets the status of the inner handle to `Error`, which no
client sees, and only behind an assertion that excludes it.  `Handle()` leaves `status`
uninitialised.  `REP_INSERT_OBJ` into a name that is taken does nothing and says
nothing.  `getIpAddr()` never stores what it found, so it searches at every call; it
returns network order, while `UdpAddress` keeps host order.  `PendList` is not used by
any code that is compiled.

In `GuessIface`: without any interface that has an address the search never ends; an
interface that gains points after its level was passed may not be found any more,
and then, if it was the only one, the search does not end either.  172.16/12 gets no
point.  In `UdpSocket`: a refused `setSrc()` on a bound handle has already given up the old
source; `setSrc()` after a first `write()` fails, because the kernel has bound the
socket, while `getSrc()` reports the new source; re-binding loses queued datagrams
and `SO_BROADCAST`; descriptor 0 is never closed.  In `GeaStart`: a delimiter in a
comment ends it, and the rest of the line is run; a script started by its first
line, as `test/objrepos.conf` has it, is passed without `-c`, so `main()` takes it
for a library.

## Proofs

For all sets of handles, delays, rules, platforms and units of time (assumed:
`UnitAssumption`, `LoopAssumption`), and for all sets of UDP handles and
addresses and numbers of descriptors (`SocketAssumption`); for words of any number of bytes
of any even number of values (`WordAssumption`, `ClientAssumption`); for any
interfaces in any states (`IfaceAssumption`); for heaps of any finite size, numbers of
descriptors, files, applications and names (`AppsAssumption`); for texts of any length
over any letters, in pieces and with commands of any size (`StartAssumption`):

| theorem | states |
| --- | --- |
| `TypeCorrect` | `EventLoop`'s `Spec => []TypeOK` |
| `Punctual` | `Spec => []NotEarly`, if the clock is not set back |
| `TimeoutsInOrder` | `Spec => TimeoutOrder`, if the clock is not set back |
| `CarefulClientSurvives` | `Spec => []NeverAborts`, if also every delay is at least a microsecond |
| `EventsConserved` | `Spec => []Conserved` |
| `LoopImplementsService` | `Spec => ImplementsService`, if the clock is not set back |
| `NothingDangles` | `Spec => []NoDangling`, under `destroy_idle` and `destroy_outside` |
| `ReadyHandlesStayReady` | `Spec => []ReadyUntilCalled`, under `one_wait` and `leaves_due` |
| `TriggersAreKept` | `Spec => []NoLostTrigger`, under `no_self_comply` |
| `WakeupsArePrompt` | `Spec => []PromptWakeup`, under `no_self_comply` and `comply_in_pass` |
| `UdpSocketProofs`: `TypeCorrect` | `UdpSocket`'s `Spec => []TypeOK` |
| `NoDescriptorLost` | `Spec => []DescriptorsAccounted` |
| `SourcesHonoured` | `Spec => []SourceHonoured`, under `source_first` |
| `BroadcastsAllowed` | `Spec => []BroadcastPermitted`, under `dest_last` |
| `ReadyCanRead` | `Spec => []ReadyHasData`, under `keeps_ready` and `leaves_due` |
| `WordsStayWords` | `FixNum`'s `Spec => []TypeOK` |
| `ArrayKeepsValue` | `Spec => []RoundTrip` |
| `PeriodsAreCounted` | `Spec => []CountsPeriods` |
| `BytesInNetworkOrder` | `Spec => []NetworkOrder` |
| `DriftIsBounded` | `Spec => []DriftBounded` |
| `GuessIsBest` | `GuessIface`'s `Spec => []BestOfSteady` |
| `SteadyDoNotAbort` | `Spec => []SteadyNeverAborts` |
| `SocketsAreClosed` | `Spec => []TypeOK`: a scan's socket is closed on every way out |
| `SearchIsFinite` | `Spec => NearsTheEnd` |
| `AppsProofs`: `TypeCorrect` | `Apps`' `Spec => []TypeOK` |
| `ShadowsHold`, `SubsHold` | `Spec => []ShadowsAccounted`, `Spec => []SubsAccounted` |
| `FilesHold` | `Spec => []WatchesItsFile` |
| `RegistrationsHold` | `Spec => []RegistrationKept`, under `checks_insert` |
| `EntriesHold` | `Spec => []EntriesValid`, under `checks_insert` and `removes_first` |
| `UsesHold` | `Spec => []UsesAreSafe`, under all rules of `Apps` |
| `GeaStartProofs`: `TypeCorrect` | `GeaStart`'s `Spec => []TypeOK` |
| `NothingIsLost` | `Spec => []NothingLost` |
| `EndedReaderIsComplete` | a reader that is done after the end of the file has run the script of the whole text |
| `ArgvHoldsForAll` | `Spec => []ArgvHolds` |
| `ReaderImplementsInterpreter` | `Spec => ImplementsInterpreter` |

The inductive invariant is built in layers, each needed by the next:

- `TypeInv`: `TypeOK` and `Asleep`: while the thread sleeps every event lies
  after `t_now`.  Without it an interrupted `select()` could be armed with a
  negative sleep.
- `Timely`: `NotEarly`, bounds on `t_now` and on the time in the call list, and
  `SleptFor`: what is left of a sleep reaches to less than a microsecond before
  the first timeout.  The arithmetic is `SleepLongEnough`: the timeval never
  stands for less than the duration minus a microsecond.
- `Ordered`: neither `lastEventTime`, which `waitFor()` compares with, nor the
  time in the call list, nor any event, is a microsecond behind the last
  timeout delivered.
- `Placed`: `Conserved`, plus distinct ids, no current event outside callbacks,
  and empty call lists where a new one begins.

Each action has a step in each proof; `handleTimeout`, `Collect` and `GoTo`, used
by several actions, have lemmas of their own.  `LoopImplementsService` maps each
action to a step of the service or to a stutter, using `Timely` for the time of
a timeout and `Placed` for everything else.

In `PoliteClientProofs` each property has the invariant it needs on top of `TypeInv` and
`Placed` (its own: no call list while the loop rests).  `NothingDangles`: `Live`,
every event to be called, and every handle of the batch, is on a handle that exists.
`ReadyHandlesStayReady` is inductive with them: `one_wait` keeps `waitFor()`, and
`leaves_due` transfers, away from the handles whose callbacks are still to come.  `TriggersAreKept`: `Numbered`, ids are new,
and `OwedTriggers`, an event owed a wake-up waits on a triggered handle;
`ResetTakesNone` says that the reset takes back none of these, which is what
`no_self_comply` gives.  `WakeupsArePrompt` adds `OwedPending`: whoever is owed a
wake-up is so only where the dependent pass is still to come.

In `AppsProofs` a constructor is first described member by member (`Holds`), then as what
it adds to the memory (`AddsUdp` and the others: these addresses were free, all others
are `Same`), and a destructor as what it removes.  The invariant is `Complete`: shadows and
subs of the objects at a set of addresses are at these addresses too.  Two frame lemmas
carry it through all eight operations: what is complete can be set aside (`Apart`), and
joins what is complete elsewhere (`Together`); each operation only has to show that
what it adds is complete in itself.  `Counted` keeps the number of orphans, by
the cardinality theorems; `Wired` the way from a handle to its file, for which a socket's
descriptor must be known to be its own.  For the repository, `Named` (a name has one
holder, who has what the repository has), `Backed` (it is his, and of that type) and
`Held` (only the running application holds a pointer) need one rule more each.

In `UdpSocketProofs` the invariant `Descriptors` (types together with
`DescriptorsAccounted`, since a destroyed handle must not close another's
descriptor) comes first.  From it follows `StepIsLocal`: a call on one handle
leaves the sockets and objects of all others alone, unless an assertion ends the
process, which then has no handles.  The other invariants then
only look at the handle a step is about.  For `ReadyHasData`, no call adds to what is
expected (`ExpectedStep`), and a handle that is still expected after a call on it was
neither re-bound nor read by it (`ReadyClient`).  `SourceHonoured` is strengthened to
`Sources`: every socket with an address of the client's has `SO_REUSEADDR`
(`Shareable`), or a handle could keep another from binding; and a handle without
`already_bound` has no such address (`NotYetBound`), or `bind()` could fail at
the first `setSrc()`.

In `FixNumProofs` all follows from `WrapShift`: a wrapped integer differs from it by
a multiple of `M`.  `Travels` is the loop invariant of both loops: what is left of
the word after n bytes is its quotient by `Weight[n]`, `toArray()` walks these
quotients down and `fromArray()` back up.  At the end of the walk down every byte is the
digit its place says, which is `NetworkOrder`.  `Drift` says for one period what
`DriftBounded` says for all; `QuotientClose` is the error of one division and
`ApproximatesTimes` takes it through products.

In `GuessIfaceProofs` the invariant is `Ranked`: no steady interface has more points
than the level, and those the scan has passed have fewer; with it `Listed`, that a
steady interface in the list still has its address.  `Ranked` also gives the measure
`Left` its floor: no interface has less than -1 points, so with a steady one the level
never gets below that (`LevelReached`), and every system call either shortens what the
scan has to look at or ends it and lowers the level.

In `GeaStartProofs`, `KthExists` and `WordEndExists` say that what `Kth` and `Words` choose
is there.  The invariant is `IsCut`: there is a text d of whole commands such that d
and `line` together are what has been read (`Seen`), and what was run is the script of d.
`Split` moves the border (`CutMoves`), and all it needs is `ScriptOfTwo`: where the first of
two texts ends in a delimiter, or is empty, the script of both is the one script behind the
other.  Because `Script` numbers delimiters, this is a fact about the k-th element of a
union of two sets of positions, one left of the other (`KthOfTwo`), and not an
induction over commands.  `NothingIsLost` is the invariant read for `line`;
`ArgvHoldsForAll` follows because the command at the front of `line` is one between two
delimiters of the text; for `ReaderImplementsInterpreter`, what is written behind a
text leaves its commands where they are, so the command that `Split` runs is the
next one of the text as far as it has been written, or of the whole text
if that has ended (`EndIsEnd`).

Only model-checked: `EveryEventCalled`, `EveryCommandRuns`, `RunsToTheEnd` and
`EndsIfSteady`, because liveness under fairness is out of the prover's reach.  The safety
they rest on is proved: that no event or command is lost or passed over (`EventsConserved`,
`NothingIsLost`), that whoever has ended has run everything (`EndedReaderIsComplete`), and that
a search cannot take infinitely many steps (`SearchIsFinite`); that the steps are taken is what
fairness adds.

## Plan

1. Done: `GeaTime`, `EventLoop`, `EventService`, their runs and proofs.
2. Done: `UdpSocket`, its run and its proofs.
3. Done: `GeaStart` and `Interpreter`, their run and proofs.
4. Done: `FixNum` and `GuessIface`, their runs and proofs.
5. Done: `Handles`, `ObjRepository` and `Apps`, their run and proofs; words of commands,
   NULs and libraries in `GeaStart`; addresses in `UdpSocket`; all operators of times
   and durations in `FixNum`.
6. Done: the client's rules in `PoliteClientProofs`.
7. Done: proofs of every property that is not liveness.
8. Open: an abstract service for UDP handles, as `EventService` is for the loop; two
   `UnixFdHandle`s on one descriptor in the event loop, where data read through
   one is gone for the other; starvation by handlers that wake each other.

## Not modelled

Durations and times made from a double, formatting and what debug output says, the limit
FD_SETSIZE (no instance has so many descriptors, and the library promises nothing there),
queries that only return a member, two handles on one descriptor in
the event loop, what `src` is after a failed `recvfrom()` (any address), WinSock start-up, animation output (empty on POSIX), the
event templates under `include/gea/utils` (declared, not defined), dead code
(`Timer.cc`, `posix/ShadowBlocker.h`, `FTdlclose.h`), the vendored `ltdl.h`, build
and packaging files.
