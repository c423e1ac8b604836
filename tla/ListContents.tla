---------------------------- MODULE ListContents ----------------------------
(***************************************************************************)
(* What threads/list.h promises: a list is a sequence of items, each with  *)
(* the key it was inserted with.  SortedInsert puts a thing behind those    *)
(* whose key is not greater, so that a list that only SortedInsert fills   *)
(* is sorted, equal keys in the order of insertion.                        *)
(***************************************************************************)
EXTENDS Integers, Sequences

CONSTANTS Thing, Key, NULL

VARIABLES
    contents,       \* what is on the list
    returned        \* what the last call returned, or visited one by one

lcVars == <<contents, returned>>

Pair(thing, key) == [thing |-> thing, key |-> key]

LCInit == contents = <<>> /\ returned = <<>>

LCAppend(thing) ==
    /\ contents' = Append(contents, Pair(thing, 0))
    /\ returned' = <<>>

LCPrepend(thing) ==
    /\ contents' = <<Pair(thing, 0)>> \o contents
    /\ returned' = <<>>

LCSortedInsert(thing, key) ==
    /\ \E i \in 0..Len(contents) :
          /\ \A j \in 1..i : contents[j].key <= key
          /\ i < Len(contents) => contents[i + 1].key > key
          /\ contents' = SubSeq(contents, 1, i) \o <<Pair(thing, key)>>
                         \o SubSeq(contents, i + 1, Len(contents))
    /\ returned' = <<>>

LCRemove ==
    IF contents = <<>>
      THEN returned' = <<NULL>> /\ UNCHANGED contents
      ELSE /\ returned' = <<contents[1].thing>>
           /\ contents' = Tail(contents)

LCMapcar ==
    /\ returned' = [i \in 1..Len(contents) |-> contents[i].thing]
    /\ UNCHANGED contents

LCDestroy == contents' = <<>> /\ returned' = <<>>

LCNext ==
    \/ \E thing \in Thing : LCAppend(thing) \/ LCPrepend(thing)
    \/ \E thing \in Thing, key \in Key : LCSortedInsert(thing, key)
    \/ LCRemove \/ LCMapcar \/ LCDestroy

LCSpec == LCInit /\ [][LCNext]_lcVars
=============================================================================
