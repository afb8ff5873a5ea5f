------------------------------ MODULE Manager ------------------------------
(***************************************************************************)
(* The keyed registry AbstractManager<T> (AbstractManager.hpp): a list of *)
(* shared pointers with an index by id() and/or by code(), whichever T    *)
(* has.  add, rmv, get, empty, size and clear hold the mutex for their    *)
(* whole body; list() returns a reference to the list, which the caller   *)
(* walks after the mutex is released.  A list node is a number: the n-th  *)
(* push_back creates node n, holding nodes[n].                            *)
(***************************************************************************)
EXTENDS Naturals, Sequences, SequencesExt

CONSTANTS
    Objs,      \* the objects (shared pointers) callers may pass
    Id,        \* Id[o]: o->id()
    Code,      \* Code[o]: o->code()
    HasId,     \* T has id(): the id index exists
    HasCode,   \* T has code(): the code index exists
    Debug,     \* assert is compiled in (NDEBUG not defined)
    Threads,   \* threads that walk list()
    MaxNodes   \* bound on the push_backs explored

ASSUME ManagerAssumption ==
    /\ HasId \in BOOLEAN /\ HasCode \in BOOLEAN /\ (HasId \/ HasCode)
    /\ Debug \in BOOLEAN
    /\ Id \in [Objs -> Nat] /\ Code \in [Objs -> STRING]
    /\ MaxNodes \in Nat

VARIABLES
    nodes,    \* nodes[n]: the object list node n holds
    ptrs,     \* ptrs_: the sequence of live nodes
    idMap,    \* idToPtrs_
    codeMap,  \* codeToPtrs_
    cursor,   \* cursor[t]: the node thread t's iterator points to; 0 when not walking
    aborted   \* an assert failed and the process aborted

vars == <<nodes, ptrs, idMap, codeMap, cursor, aborted>>

Listed == {nodes[n] : n \in ToSet(ptrs)}

(* m without key k (unordered_map::erase).                                *)
Erase(m, k) == [x \in DOMAIN m \ {k} |-> m[x]]

(* An empty unordered_map.                                                *)
NoEntries == [x \in {} |-> CHOOSE o \in Objs : TRUE]

Init ==
    /\ nodes = <<>> /\ ptrs = <<>>
    /\ idMap = NoEntries /\ codeMap = NoEntries
    /\ cursor = [t \in Threads |-> 0]
    /\ aborted = FALSE

(* add(t): under the mutex, assert that neither key is taken (abort in a  *)
(* debug build; nothing in a release build), then set both index entries *)
(* and push_back.                                                         *)
Add(o) ==
    /\ ~aborted /\ Len(nodes) < MaxNodes
    /\ IF Debug /\ ((HasId /\ Id[o] \in DOMAIN idMap) \/ (HasCode /\ Code[o] \in DOMAIN codeMap))
       THEN aborted' = TRUE /\ UNCHANGED <<nodes, ptrs, idMap, codeMap>>
       ELSE /\ idMap' = IF HasId THEN (Id[o] :> o) @@ idMap ELSE idMap
            /\ codeMap' = IF HasCode THEN (Code[o] :> o) @@ codeMap ELSE codeMap
            /\ nodes' = Append(nodes, o)
            /\ ptrs' = Append(ptrs, Len(nodes) + 1)
            /\ UNCHANGED aborted
    /\ UNCHANGED cursor

(* Mutant: rmv leaves the id index alone.                                  *)
RmvNoIdErase(o) ==
    /\ ~aborted
    /\ ptrs' = SelectSeq(ptrs, LAMBDA n : nodes[n] # o)
    /\ codeMap' = IF HasCode THEN Erase(codeMap, Code[o]) ELSE codeMap
    /\ UNCHANGED <<nodes, idMap, cursor, aborted>>

(* rmv(t): under the mutex, list::remove drops every node holding t, and   *)
(* the entries under t's id and code are erased, whichever object they    *)
(* hold.                                                                  *)
Rmv(o) ==
    /\ ~aborted
    /\ ptrs' = SelectSeq(ptrs, LAMBDA n : nodes[n] # o)
    /\ idMap' = IF HasId THEN Erase(idMap, Id[o]) ELSE idMap
    /\ codeMap' = IF HasCode THEN Erase(codeMap, Code[o]) ELSE codeMap
    /\ UNCHANGED <<nodes, cursor, aborted>>

(* clear: under the mutex, the list and both indexes are emptied.          *)
Clear ==
    /\ ~aborted
    /\ ptrs' = <<>> /\ idMap' = NoEntries /\ codeMap' = NoEntries
    /\ UNCHANGED <<nodes, cursor, aborted>>

(* The caller of list() takes begin() of the returned reference, after the *)
(* mutex was released.                                                    *)
ListBegin(t) ==
    /\ ~aborted /\ cursor[t] = 0 /\ ptrs # <<>>
    /\ cursor' = [cursor EXCEPT ![t] = Head(ptrs)]
    /\ UNCHANGED <<nodes, ptrs, idMap, codeMap, aborted>>

(* ++it: follow the node's link to the next node, or to end().             *)
ListNext(t) ==
    /\ ~aborted /\ cursor[t] \in ToSet(ptrs)
    /\ LET k == CHOOSE j \in DOMAIN ptrs : ptrs[j] = cursor[t]
       IN cursor' = [cursor EXCEPT ![t] = IF k = Len(ptrs) THEN 0 ELSE ptrs[k + 1]]
    /\ UNCHANGED <<nodes, ptrs, idMap, codeMap, aborted>>

Next ==
    \/ \E o \in Objs : Add(o) \/ Rmv(o)
    \/ Clear
    \/ \E t \in Threads : ListBegin(t) \/ ListNext(t)

Spec == Init /\ [][Next]_vars

-----------------------------------------------------------------------------
(* Properties.                                                             *)

(* get never returns an object that is not in the list: whatever the      *)
(* duplicates, every index entry holds a listed object.                   *)
IndexOnlyListed ==
    /\ \A k \in DOMAIN idMap : idMap[k] \in Listed
    /\ \A k \in DOMAIN codeMap : codeMap[k] \in Listed

(* Every listed object is found by get under its id and its code.          *)
ListedObjectsFindable ==
    \A o \in Listed :
        /\ HasId => Id[o] \in DOMAIN idMap /\ idMap[Id[o]] = o
        /\ HasCode => Code[o] \in DOMAIN codeMap /\ codeMap[Code[o]] = o

(* An iterator over list() points to a node that is still in the list: a  *)
(* node removed meanwhile is freed under the walking thread.              *)
NoDanglingIterator ==
    \A t \in Threads : cursor[t] # 0 => cursor[t] \in ToSet(ptrs)

=============================================================================
