---------------------------- MODULE ObjRepository ----------------------------
(***************************************************************************)
(* The object repository: a map from names to pointers with the names of   *)
(* their types, one for every node of a simulation.                        *)
(***************************************************************************)
CONSTANTS
    Name,      \* names of objects
    TypeName,  \* names of types
    Object,    \* pointers
    NULL       \* the zero pointer, and no type

VARIABLE rep

\* A process on POSIX is one node.
getCurrentNode == 0
whichNode == getCurrentNode

RepKey == {getCurrentNode} \X Name
RepValue == [type : TypeName, obj : Object]

Key(name) == <<whichNode, name>>

Registered(name) == rep[Key(name)] # NULL

\* instance(): the repository is created when it is first asked for.
Empty == rep = [k \in RepKey |-> NULL]

\* What the repository holds after an insertion: std::map::insert() leaves a
\* key that is there alone.
\* Fault: rep[key] = val, which replaces what was there.
WithObj_Overwrites(name, type, obj) ==
    [rep EXCEPT ![Key(name)] = [type |-> type, obj |-> obj]]
WithObj(name, type, obj) ==
    IF Registered(name) THEN rep
    ELSE [rep EXCEPT ![Key(name)] = [type |-> type, obj |-> obj]]

insertObj(name, type, obj) == rep' = WithObj(name, type, obj)

\* Fault: the wrong half of the pair.
getObj_First(name) == IF Registered(name) THEN rep[Key(name)].type ELSE NULL
getObj(name) == IF Registered(name) THEN rep[Key(name)].obj ELSE NULL

getType(name) == IF Registered(name) THEN rep[Key(name)].type ELSE NULL

\* Fault: the key is another node's.
removeObject_OtherNode(name) == rep' = rep
removeObject(name) == rep' = [rep EXCEPT ![Key(name)] = NULL]

=============================================================================
