----------------------------- MODULE LinkedList -----------------------------
(***************************************************************************)
(* List of threads/list.cc, down to its pointers: the elements are cells   *)
(* of a heap that new takes and delete gives back.  Its callers run with   *)
(* interrupts off or under a lock, so that every routine is one step.      *)
(***************************************************************************)
EXTENDS Integers, SequencesExt

CONSTANTS
    Cell,           \* where new can put a ListElement
    Thing, Key, NULL

VARIABLES
    first, last,
    heap,           \* what each cell holds
    live,           \* the cells new has handed out and delete has not got back
    returned        \* what the last call returned, or Mapcar visited

listVars == <<first, last, heap, live, returned>>

ListElement(thing, key, next) == [thing |-> thing, key |-> key, next |-> next]

(* A cell outside the list holds nothing one may rely on. *)
Garbage == ListElement(NULL, 0, NULL)

ListInit ==
    /\ first = NULL /\ last = NULL
    /\ heap = [e \in Cell |-> Garbage]
    /\ live = {}
    /\ returned = <<>>

IsEmpty == first = NULL

Successor == [e \in Cell \cup {NULL} |-> IF e = NULL THEN NULL ELSE heap[e].next]

(* Where n steps along the next pointers lead; past the end, to NULL. *)
Walk[n \in Nat] == IF n = 0 THEN first ELSE Successor[Walk[n - 1]]

(* The list; more than Cardinality(Cell) elements would be a cycle. *)
Chain == [i \in 1..Cardinality({n \in 0..Cardinality(Cell) : Walk[n] # NULL}) |-> Walk[i - 1]]

New(e) == e \in Cell \ live /\ live' = live \cup {e}

-----------------------------------------------------------------------------
(* The assignments that put the new cell e, holding thing and key, alone   *)
(* on the list, before the first cell, after cell p, or at the end.        *)
PutAlone(e, thing, key) ==
    /\ heap' = [heap EXCEPT ![e] = ListElement(thing, key, NULL)]
    /\ first' = e /\ last' = e

PutFirst(e, thing, key) ==
    /\ heap' = [heap EXCEPT ![e] = ListElement(thing, key, first)]
    /\ first' = e
    /\ UNCHANGED last

PutAfter(p, e, thing, key) ==
    /\ heap' = [heap EXCEPT ![e] = ListElement(thing, key, heap[p].next),
                            ![p].next = e]
    /\ UNCHANGED <<first, last>>

PutLast(e, thing, key) ==
    /\ heap' = [heap EXCEPT ![e] = ListElement(thing, key, NULL),
                            ![last].next = e]
    /\ last' = e
    /\ UNCHANGED first

AppendItem(e, thing) ==
    /\ New(e)
    /\ IF IsEmpty THEN PutAlone(e, thing, 0) ELSE PutLast(e, thing, 0)
    /\ returned' = <<>>

Prepend(e, thing) ==
    /\ New(e)
    /\ IF IsEmpty THEN PutAlone(e, thing, 0) ELSE PutFirst(e, thing, 0)
    /\ returned' = <<>>

(* Mutant of SortedInsert: the loop compares with the element itself. *)
SortedInsertBeforeEqual(e, thing, key) ==
    /\ New(e)
    /\ IF IsEmpty THEN PutAlone(e, thing, key)
       ELSE IF key < heap[first].key THEN PutFirst(e, thing, key)
       ELSE LET chain == Chain
                Stops(n) == /\ heap[chain[n]].next # NULL
                            /\ key <= heap[heap[chain[n]].next].key
            IN IF \E n \in 1..Len(chain) : Stops(n)
                 THEN \E n \in 1..Len(chain) :
                        /\ Stops(n) /\ \A m \in 1..n - 1 : ~Stops(m)
                        /\ PutAfter(chain[n], e, thing, key)
                 ELSE PutLast(e, thing, key)
    /\ returned' = <<>>

(* The loop stops at the first element whose successor has a greater key. *)
SortedInsert(e, thing, key) ==
    /\ New(e)
    /\ IF IsEmpty THEN PutAlone(e, thing, key)
       ELSE IF key < heap[first].key THEN PutFirst(e, thing, key)
       ELSE LET chain == Chain
                Stops(n) == /\ heap[chain[n]].next # NULL
                            /\ key < heap[heap[chain[n]].next].key
            IN IF \E n \in 1..Len(chain) : Stops(n)
                 THEN \E n \in 1..Len(chain) :
                        /\ Stops(n) /\ \A m \in 1..n - 1 : ~Stops(m)
                        /\ PutAfter(chain[n], e, thing, key)
                 ELSE PutLast(e, thing, key)
    /\ returned' = <<>>

(* SortedRemove, which Remove calls too. *)
SortedRemove ==
    IF IsEmpty
      THEN returned' = <<NULL>> /\ UNCHANGED <<first, last, heap, live>>
      ELSE /\ returned' = <<heap[first].thing>>
           /\ live' = live \ {first}
           /\ IF first = last
                THEN first' = NULL /\ last' = NULL
                ELSE first' = heap[first].next /\ UNCHANGED last
           /\ heap' = [heap EXCEPT ![first] = Garbage]

Mapcar ==
    /\ returned' = LET chain == Chain IN [i \in 1..Len(chain) |-> heap[chain[i]].thing]
    /\ UNCHANGED <<first, last, heap, live>>

(* The destructor removes until Remove returns NULL. *)
Destroy ==
    /\ ~IsEmpty
    /\ live' = live \ Range(Chain)
    /\ first' = NULL /\ last' = NULL
    /\ heap' = [e \in Cell |-> Garbage]
    /\ returned' = <<>>

ListNext ==
    \/ \E e \in Cell, thing \in Thing : AppendItem(e, thing) \/ Prepend(e, thing)
    \/ \E e \in Cell, thing \in Thing, key \in Key : SortedInsert(e, thing, key)
    \/ SortedRemove \/ Mapcar \/ Destroy

ListSpec == ListInit /\ [][ListNext]_listVars
-----------------------------------------------------------------------------
(* The chain from first ends at last, meets no element twice, and meets    *)
(* exactly the elements that are allocated: no routine of list.cc leaks    *)
(* one, deletes one that is still linked, or lets last dangle.             *)
ChainSound ==
    /\ IsEmpty <=> last = NULL
    /\ ~IsEmpty => Last(Chain) = last
    /\ IsInjective(Chain)
    /\ live = Range(Chain)

LC == INSTANCE ListContents WITH
    contents <- LET chain == Chain
                IN  [i \in 1..Len(chain) |->
                        [thing |-> heap[chain[i]].thing, key |-> heap[chain[i]].key]]

(* The pointers implement the sequence of list.h, and stay a sound chain. *)
ImplementsContents == LC!LCSpec /\ []ChainSound
=============================================================================
