-------------------------------- MODULE Apps --------------------------------
(***************************************************************************)
(* Applications that share a process: each creates handles, registers them *)
(* by name, and finds those of others in the object repository.  The event *)
(* loop calls one application at a time; what an application does in one   *)
(* callback is seen by all that are called later.                          *)
(***************************************************************************)
EXTENDS Handles

CONSTANTS
    App,          \* applications, the libraries gea_start has loaded
    Name,         \* names of objects
    STREAM,       \* the address of __x_defaultOstream
    Inherited,    \* the files the process starts with: Fd -> File or NULL
    ClientRules   \* the rules the clients keep to, a subset of AllClientRules

VARIABLES
    mem,    \* objects and descriptors
    rep,    \* the object repository
    pc,     \* an application in a callback, or see PC
    mine,   \* App -> Name -> what it thinks it registered, or NULL
    got,    \* App -> the pointer it has mapped, with the class it takes it for
    owner,  \* history: the application that created a handle
    made,   \* history: the file and mode a handle was made for
    closed, \* history: the files that clients closed
    ended   \* history: how many DependHandles were deleted

vars == <<mem, rep, pc, mine, got, owner, made, closed, ended>>

DefaultOstream == "GEA_defaultOstream"

INSTANCE ObjRepository WITH TypeName <- HandleClass \cup {"std::ostream**"},
                            Object   <- Addr \cup {STREAM}

AllClientRules ==
    { "checks_insert",  \* the result of insertObj() is looked at
      "checks_type",    \* getType() is asked before a pointer is cast
      "removes_first",  \* a name is removed before its handle is deleted
      "uses_at_once" }  \* a mapped pointer is used before the callback
                        \* deletes a handle or returns

ASSUME AppsAssumption ==
    /\ IsFiniteSet(Addr)
    /\ NULL \notin Addr \cup File \cup App \cup {STREAM} /\ STREAM \notin Addr
    /\ NULL \notin RepValue /\ NULL \notin (File \cup Addr) \X Mode
    /\ Addr \cap File = {}
    /\ MaxFd \in Nat
    /\ DefaultOstream \in Name
    /\ Inherited \in [Fd -> File \cup {NULL}]
    /\ \A f \in File : \A n, o \in Fd : Inherited[n] = f /\ Inherited[o] = f => n = o
    /\ App \cap {"static", "main", "null_api", "assert", "dangling", "confused",
                 "no_stream"} = {}
    /\ ClientRules \subseteq AllClientRules

PC == App \cup
      {"static",     \* before main(): global objects are constructed
       "main",       \* between callbacks
       "null_api",   \* GEA_apiIface was used before it was set
       "assert",     \* assert( udp_socket >= 0)
       "dangling",   \* a deleted handle was used
       "confused",   \* an object was used as one of another class
       "no_stream"}  \* dbg() dereferenced a zero pointer

-----------------------------------------------------------------------------
Init ==
    /\ mem = [class  |-> [a \in Addr |-> "free"],
              shadow |-> [a \in Addr |-> NULL],
              sub    |-> [a \in Addr |-> NULL],
              master |-> [a \in Addr |-> NULL],
              type   |-> [a \in Addr |-> "zero"],
              mode   |-> [a \in Addr |-> "Read"],
              fd     |-> [a \in Addr |-> 0],
              open   |-> Inherited]
    /\ Empty
    /\ pc = "static"
    /\ mine = [a \in App |-> [n \in Name |-> NULL]]
    /\ got = [a \in App |-> NULL]
    /\ owner = [h \in Addr |-> NULL]
    /\ made = [h \in Addr |-> NULL]
    /\ closed = {} /\ ended = 0

\* The constructor of a global handle calls through GEA_apiIface.
StaticHandle ==
    /\ pc = "static" /\ pc' = "null_api"
    /\ UNCHANGED <<mem, rep, mine, got, owner, made, closed, ended>>

\* Fault: the stream is not registered.
initPosixApiIface_NoStream ==
    /\ pc = "static" /\ pc' = "main"
    /\ UNCHANGED <<mem, rep, mine, got, owner, made, closed, ended>>

\* main() sets GEA_apiIface, and createSubEventHandler() registers the stream.
initPosixApiIface ==
    /\ pc = "static" /\ pc' = "main"
    /\ insertObj(DefaultOstream, "std::ostream**", STREAM)
    /\ UNCHANGED <<mem, mine, got, owner, made, closed, ended>>

\* gea_main() or a callback of an application begins.
Call(a) ==
    /\ pc = "main" /\ pc' = a
    /\ UNCHANGED <<mem, rep, mine, got, owner, made, closed, ended>>

Return(a) ==
    /\ pc = a /\ pc' = "main"
    /\ "uses_at_once" \in ClientRules => got[a] = NULL
    /\ UNCHANGED <<mem, rep, mine, got, owner, made, closed, ended>>

-----------------------------------------------------------------------------
(* Handles and descriptors. *)

\* The file and the mode a handle that has just been constructed is for.
MadeFor(m, h, c, n, md) ==
    CASE c = "UnixFdHandle" -> <<mem.open[n], md>>
      [] c = "UdpHandle"    -> <<m.sub[h], md>>
      [] OTHER              -> NULL

NewHandle(a, c, n, md) ==
    /\ pc = a
    /\ Cardinality(Free(mem)) >= Cells(c)
    /\ c = "UnixFdHandle" => mem.open[n] \in File
    /\ c = "UdpHandle" => FreeFds(mem) # {} /\ md # "Exception"
    /\ LET h == New(mem) IN
         /\ mem' = Construct(mem, h, c, n, md)
         /\ owner' = [owner EXCEPT ![h] = a]
         /\ made' = [made EXCEPT ![h] = MadeFor(mem', h, c, n, md)]
    /\ UNCHANGED <<rep, pc, mine, got, closed, ended>>

\* socket() has no descriptor for a UdpHandle.
NoSocket(a) ==
    /\ pc = a /\ FreeFds(mem) = {}
    /\ pc' = "assert"
    /\ UNCHANGED <<mem, rep, mine, got, owner, made, closed, ended>>

DeleteHandle(a, h) ==
    /\ pc = a /\ owner[h] = a
    /\ mem.class[h] = "DependHandle" => Free(mem) # {}
    /\ "removes_first" \in ClientRules => \A n \in Name : mine[a][n] # h
    /\ "uses_at_once" \in ClientRules => got[a] = NULL
    /\ mem' = Destroy(mem, h)
    /\ owner' = [owner EXCEPT ![h] = NULL]
    /\ made' = [made EXCEPT ![h] = NULL]
    /\ ended' = IF mem.class[h] = "DependHandle" THEN ended + 1 ELSE ended
    /\ UNCHANGED <<rep, pc, mine, got, closed>>

\* A client closes a file; handles on it may still exist.
CloseFile(a, n) ==
    /\ pc = a /\ mem.open[n] \in File
    /\ mem' = [mem EXCEPT !.open = [@ EXCEPT ![n] = NULL]]
    /\ closed' = closed \cup {mem.open[n]}
    /\ UNCHANGED <<rep, pc, mine, got, owner, made, ended>>

-----------------------------------------------------------------------------
(* The repository. *)

\* REP_INSERT_OBJ throws the result of insertObj() away.
InsertObj(a, n, h) ==
    /\ pc = a /\ owner[h] = a
    /\ insertObj(n, mem.class[h], h)
    /\ mine' = IF Registered(n) /\ "checks_insert" \in ClientRules
                 THEN mine
                 ELSE [mine EXCEPT ![a] = [@ EXCEPT ![n] = h]]
    /\ UNCHANGED <<mem, pc, got, owner, made, closed, ended>>

RemoveObj(a, n) ==
    /\ pc = a /\ mine[a][n] # NULL
    /\ removeObject(n)
    /\ mine' = [mine EXCEPT ![a] = [@ EXCEPT ![n] = NULL]]
    /\ UNCHANGED <<mem, pc, got, owner, made, closed, ended>>

\* REP_MAP_OBJ casts to whatever the client says.
MapObj(a, n, c) ==
    /\ pc = a /\ getObj(n) # NULL
    /\ "checks_type" \in ClientRules => getType(n) = c
    /\ got' = [got EXCEPT ![a] = <<getObj(n), c>>]
    /\ UNCHANGED <<mem, rep, pc, mine, owner, made, closed, ended>>

\* What becomes of a call through a pointer to an object of class c.
Calling(obj, c) ==
    IF obj \in Addr /\ mem.class[obj] = c THEN pc
    ELSE IF obj \in Addr /\ mem.class[obj] = "free" THEN "dangling"
    ELSE "confused"

\* waitFor() with the handle, or complied(), read() or write() on it.
UseObj(a) ==
    /\ pc = a /\ got[a] # NULL
    /\ pc' = Calling(got[a][1], got[a][2])
    /\ got' = [got EXCEPT ![a] = NULL]
    /\ UNCHANGED <<mem, rep, mine, owner, made, closed, ended>>

\* GEA.dbg() maps its stream at every call.
Dbg(a) ==
    /\ pc = a
    /\ pc' = IF getObj(DefaultOstream) = NULL THEN "no_stream"
             ELSE IF getObj(DefaultOstream) = STREAM THEN pc
             ELSE "confused"
    /\ UNCHANGED <<mem, rep, mine, got, owner, made, closed, ended>>

-----------------------------------------------------------------------------
Terminated ==
    /\ pc \in {"null_api", "assert", "dangling", "confused", "no_stream"}
    /\ UNCHANGED vars

Client(a) ==
    \/ Return(a)
    \/ \E c \in HandleClass, n \in Fd, md \in Mode : NewHandle(a, c, n, md)
    \/ NoSocket(a)
    \/ \E h \in Addr :
         \/ DeleteHandle(a, h)
         \/ \E n \in Name : InsertObj(a, n, h)
    \/ \E n \in Fd : CloseFile(a, n)
    \/ \E n \in Name :
         \/ RemoveObj(a, n)
         \/ \E c \in HandleClass : MapObj(a, n, c)
    \/ UseObj(a)
    \/ Dbg(a)

Next ==
    \/ StaticHandle \/ initPosixApiIface
    \/ \E a \in App : Call(a) \/ Client(a)
    \/ Terminated

Spec == Init /\ [][Next]_vars

-----------------------------------------------------------------------------
(* Properties. *)

\* Every variable has its type.
TypeOK ==
    /\ mem \in Memory
    /\ rep \in [RepKey -> RepValue \cup {NULL}]
    /\ pc \in PC
    /\ mine \in [App -> [Name -> Addr \cup {NULL}]]
    /\ got \in [App -> ((Addr \cup {STREAM}) \X HandleClass) \cup {NULL}]
    /\ owner \in [Addr -> App \cup {NULL}]
    /\ made \in [Addr -> ((File \cup Addr) \X Mode) \cup {NULL}]
    /\ closed \in SUBSET File /\ ended \in Nat

Objects(C) == {a \in Addr : mem.class[a] \in C}
Handles == Objects(HandleClass \cup {"ShadowUdpHandle"})

TypeOf(c) == CASE c = "Blocker"      -> "TypeBlocker"
               [] c = "DependHandle" -> "TypeDepend"
               [] c = "UdpHandle"    -> "TypeUdpHandle"
               [] OTHER              -> "TypeUnixFdHandle"

\* Every handle has a shadow to itself, with the type of its class, which the
\* event loop casts by; every shadow has its handle.
ShadowsAccounted ==
    /\ \A h \in Handles : /\ mem.shadow[h] \in Objects({"ShadowHandle"})
                          /\ mem.type[mem.shadow[h]] = TypeOf(mem.class[h])
    /\ \A s \in Objects({"ShadowHandle"}) :
         \E h \in Handles : \A g \in Handles : mem.shadow[g] = s <=> g = h

\* A DependHandle and a UdpHandle have a sub that knows them, and a
\* ShadowUdpHandle lives as long as its UdpHandle.  A ShadowDepend is never
\* deleted: two are left behind for each DependHandle, and nothing else is.
Orphans == {d \in Objects({"ShadowDepend"}) :
              \A h \in Objects({"DependHandle"}) : mem.sub[h] # d}

SubsAccounted ==
    /\ \A h \in Objects({"DependHandle"}) :
         mem.sub[h] \in Objects({"ShadowDepend"}) /\ mem.master[mem.sub[h]] = h
    /\ \A h \in Objects({"UdpHandle"}) :
         mem.sub[h] \in Objects({"ShadowUdpHandle"}) /\ mem.master[mem.sub[h]] = h
    /\ \A u \in Objects({"ShadowUdpHandle"}) :
         mem.master[u] \in Objects({"UdpHandle"}) /\ mem.sub[mem.master[u]] = u
    /\ Cardinality(Orphans) = 2 * ended

\* As long as no client closes the file below a handle, the event loop watches
\* that file, for what the handle was made for, and transfers use it - whatever
\* other handles on it are deleted and whatever sockets come and go.  The loop
\* looks for no descriptor behind any other handle.
WatchesItsFile ==
    \A h \in Objects(HandleClass) :
        IF made[h] = NULL THEN ~ HasDescriptor(mem, h)
        ELSE made[h][1] \notin closed =>
               /\ HasDescriptor(mem, h)
               /\ mem.open[Watch(mem, h)[1]] = made[h][1]
               /\ Watch(mem, h)[2] = made[h][2]
               /\ TransferOn(mem, h) = Watch(mem, h)[1]

\* What is registered exists, and is of the type it is registered with
\* (include/gea/ObjRepository.h:51 and :99).
EntriesValid ==
    \A n \in Name : Registered(n) =>
        IF n = DefaultOstream /\ getObj(n) = STREAM
        THEN getType(n) = "std::ostream**"
        ELSE getObj(n) \in Addr /\ mem.class[getObj(n)] = getType(n)

\* What an application has registered stays registered until it removes it:
\* no other application's insertion or removal takes its place.
RegistrationKept ==
    /\ \A a \in App, n \in Name :
         mine[a][n] # NULL => getObj(n) = mine[a][n]
    /\ pc \notin {"static", "null_api"} => getObj(DefaultOstream) = STREAM

\* No application brings the process down for another: no pointer from the
\* repository is used for an object that is gone or is something else, and
\* dbg() always has its stream.
UsesAreSafe == pc \notin {"dangling", "confused", "no_stream"}
=============================================================================
