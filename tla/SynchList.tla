----------------------------- MODULE SynchList -----------------------------
(***************************************************************************)
(* SynchList of threads/synchlist.cc: a list under a lock, with a          *)
(* condition for those who find it empty.  The lock and the condition are  *)
(* those of synch.cc: whoever is awake may take a free lock, a newcomer    *)
(* before the thread that Release or Signal woke, and a thread that Signal *)
(* wakes takes the lock again before Wait returns.                         *)
(***************************************************************************)
EXTENDS Naturals, Sequences, FiniteSets

CONSTANTS
    User,           \* the threads
    Item, NoItem,
    MaxItems        \* bound on the items on the list: no Append begins beyond

ASSUME SynchListAssumption ==
    /\ IsFiniteSet(User)
    /\ NoItem \notin Item \cup User
    /\ MaxItems \in Nat

VARIABLES
    list, doing, item,
    pc,             \* the next step of the call a thread is in
    holder,         \* of the lock, or NoItem
    listEmpty       \* threads asleep on the condition, in the order they came

slVars == <<list, doing, item, pc, holder, listEmpty>>

SynchListInit ==
    /\ list = <<>>
    /\ doing = [t \in User |-> "none"]
    /\ item = [t \in User |-> NoItem]
    /\ pc = [t \in User |-> "idle"]
    /\ holder = NoItem
    /\ listEmpty = <<>>

-----------------------------------------------------------------------------
CallAppend(t, i) ==
    /\ pc[t] = "idle"
    /\ Len(list) + Cardinality({u \in User : doing[u] = "Append"}) < MaxItems
    /\ doing' = [doing EXCEPT ![t] = "Append"]
    /\ item' = [item EXCEPT ![t] = i]
    /\ pc' = [pc EXCEPT ![t] = "Acquire"]
    /\ UNCHANGED <<list, holder, listEmpty>>

CallRemove(t) ==
    /\ pc[t] = "idle"
    /\ doing' = [doing EXCEPT ![t] = "Remove"]
    /\ item' = [item EXCEPT ![t] = NoItem]
    /\ pc' = [pc EXCEPT ![t] = "Acquire"]
    /\ UNCHANGED <<list, holder, listEmpty>>

(* Lock::Acquire, called first or by Condition::Wait. *)
AcquireList(t) ==
    /\ pc[t] = "Acquire" /\ holder = NoItem
    /\ holder' = t
    /\ pc' = [pc EXCEPT ![t] = "locked"]
    /\ UNCHANGED <<list, doing, item, listEmpty>>

SLAppend(t) ==
    /\ pc[t] = "locked" /\ doing[t] = "Append"
    /\ list' = Append(list, item[t])
    /\ pc' = [pc EXCEPT ![t] = "Signal"]
    /\ UNCHANGED <<doing, item, holder, listEmpty>>

(* Mutant of SignalEmpty: Signal is called only for the first item. *)
SignalEmptyFirstOnly(t) ==
    /\ pc[t] = "Signal"
    /\ IF listEmpty = <<>> \/ Len(list) > 1
         THEN pc' = [pc EXCEPT ![t] = "Release"] /\ UNCHANGED listEmpty
         ELSE /\ pc' = [pc EXCEPT ![t] = "Release",
                                  ![Head(listEmpty)] = "Acquire"]
              /\ listEmpty' = Tail(listEmpty)
    /\ UNCHANGED <<list, doing, item, holder>>

(* listEmpty->Signal(lock). *)
SignalEmpty(t) ==
    /\ pc[t] = "Signal"
    /\ IF listEmpty = <<>>
         THEN pc' = [pc EXCEPT ![t] = "Release"] /\ UNCHANGED listEmpty
         ELSE /\ pc' = [pc EXCEPT ![t] = "Release",
                                  ![Head(listEmpty)] = "Acquire"]
              /\ listEmpty' = Tail(listEmpty)
    /\ UNCHANGED <<list, doing, item, holder>>

(* Mutant of WaitEmpty: Remove returns without an item, as List::Remove    *)
(* does.                                                                   *)
WaitEmptyReturns(t) ==
    /\ pc[t] = "locked" /\ doing[t] = "Remove" /\ list = <<>>
    /\ pc' = [pc EXCEPT ![t] = "Release"]
    /\ UNCHANGED <<list, doing, item, holder, listEmpty>>

(* The test of the while loop of Remove: Wait gives up the lock and sleeps *)
(* in one step, interrupts being off.                                      *)
WaitEmpty(t) ==
    /\ pc[t] = "locked" /\ doing[t] = "Remove" /\ list = <<>>
    /\ listEmpty' = Append(listEmpty, t)
    /\ holder' = NoItem
    /\ pc' = [pc EXCEPT ![t] = "Wait"]
    /\ UNCHANGED <<list, doing, item>>

SLRemove(t) ==
    /\ pc[t] = "locked" /\ doing[t] = "Remove" /\ list # <<>>
    /\ item' = [item EXCEPT ![t] = Head(list)]
    /\ list' = Tail(list)
    /\ pc' = [pc EXCEPT ![t] = "Release"]
    /\ UNCHANGED <<doing, holder, listEmpty>>

ReleaseList(t) ==
    /\ pc[t] = "Release"
    /\ holder' = NoItem
    /\ doing' = [doing EXCEPT ![t] = "none"]
    /\ pc' = [pc EXCEPT ![t] = "idle"]
    /\ UNCHANGED <<list, item, listEmpty>>

Step(t) ==
    \/ AcquireList(t) \/ SLAppend(t) \/ SignalEmpty(t)
    \/ WaitEmpty(t) \/ SLRemove(t) \/ ReleaseList(t)

SynchListNext ==
    \E t \in User : Step(t) \/ CallRemove(t) \/ \E i \in Item : CallAppend(t, i)

SynchListSpec == SynchListInit /\ [][SynchListNext]_slVars
-----------------------------------------------------------------------------
(* Threads in Remove that are awake and have no item yet. *)
Removing == {t \in User : doing[t] = "Remove" /\ pc[t] \in {"Acquire", "locked"}}

(* Threads about to signal: Append is done, the wake-up is to come. *)
Signalling == {t \in User : pc[t] = "Signal"}

(* No thread sleeps over an item: while threads wait on the condition,     *)
(* every item on the list has an awake thread coming for it or a Signal    *)
(* to come, although newcomers may take what a woken thread was woken for. *)
NoSleepOverItems ==
    listEmpty # <<>> => Len(list) <= Cardinality(Removing) + Cardinality(Signalling)

(* Who is asleep on the condition. *)
Sleeping == {listEmpty[i] : i \in 1..Len(listEmpty)}

(* The inductive invariant behind the properties: the lock is held from    *)
(* Acquire to Release or Wait, the sleepers are in Remove and on the       *)
(* condition's queue, each once, and only threads in a call are elsewhere  *)
(* than idle.                                                              *)
SLTypeOK ==
    /\ list \in Seq(Item)
    /\ doing \in [User -> {"none", "Append", "Remove"}]
    /\ item \in [User -> Item \cup {NoItem}]
    /\ pc \in [User -> {"idle", "Acquire", "locked", "Signal", "Wait", "Release"}]
    /\ holder \in User \cup {NoItem}
    /\ listEmpty \in Seq(User)

SLStructure ==
    /\ \A t \in User : pc[t] \in {"locked", "Signal", "Release"} <=> holder = t
    /\ \A t \in User : pc[t] = "idle" <=> doing[t] = "none"
    /\ \A t \in User : doing[t] = "Append" => item[t] \in Item
    /\ \A t \in User : pc[t] = "Signal" => doing[t] = "Append"
    /\ \A t \in User : pc[t] = "Wait" => doing[t] = "Remove"
    /\ \A t \in User : pc[t] = "Wait" <=> t \in Sleeping
    /\ \A i, j \in 1..Len(listEmpty) : listEmpty[i] = listEmpty[j] => i = j

SLInv == SLTypeOK /\ SLStructure /\ NoSleepOverItems

applied == {t \in User : pc[t] \in {"Signal", "Release"}}

Q == INSTANCE Queue

(* Threads see a queue whose operations are atomic: ASSERT(item != NULL)   *)
(* of Remove included.                                                     *)
ImplementsQueue == Q!QSpec
=============================================================================
