-------------------------- MODULE SynchListProofs --------------------------
(***************************************************************************)
(* Proofs about SynchList for any finite set of threads and any items:     *)
(* SLInv is an invariant, and every step is one of the queue or changes    *)
(* nothing a caller sees.                                                  *)
(***************************************************************************)
EXTENDS SynchList, FiniteSetTheorems, SequenceTheorems, TLAPS

USE SynchListAssumption

(* An empty list that nobody uses satisfies the invariant. *)
LEMMA SLInitInv == SynchListInit => SLInv
  <1> SUFFICES ASSUME SynchListInit PROVE SLInv
    OBVIOUS
  <1>1. SLTypeOK
    BY EmptySeq DEF SynchListInit, SLTypeOK
  <1>2. SLStructure
    <2>1. Len(listEmpty) = 0
      BY EmptySeq DEF SynchListInit
    <2>2. Sleeping = {} /\ \A i \in 1..Len(listEmpty) : FALSE
      BY <2>1 DEF Sleeping
    <2>3. \A t \in User : holder # t
      BY DEF SynchListInit
    <2>4. QED
      BY <2>2, <2>3 DEF SynchListInit, SLStructure
  <1>3. NoSleepOverItems
    BY DEF SynchListInit, NoSleepOverItems
  <1>4. QED
    BY <1>1, <1>2, <1>3 DEF SLInv

(* The types, action by action. *)
LEMMA TypeStep ==
    ASSUME SLTypeOK, SLStructure, [SynchListNext]_slVars
    PROVE  SLTypeOK'
  <1>1. CASE UNCHANGED slVars
    BY <1>1 DEF slVars, SLTypeOK
  <1>2. ASSUME NEW t \in User, NEW i \in Item, CallAppend(t, i) PROVE SLTypeOK'
    BY <1>2 DEF CallAppend, SLTypeOK
  <1>3. ASSUME NEW t \in User, CallRemove(t) PROVE SLTypeOK'
    BY <1>3 DEF CallRemove, SLTypeOK
  <1>4. ASSUME NEW t \in User, AcquireList(t) PROVE SLTypeOK'
    BY <1>4 DEF AcquireList, SLTypeOK
  <1>5. ASSUME NEW t \in User, SLAppend(t) PROVE SLTypeOK'
    <2>1. item[t] \in Item
      BY <1>5 DEF SLAppend, SLStructure
    <2>2. list' \in Seq(Item)
      BY <1>5, <2>1, AppendProperties DEF SLAppend, SLTypeOK
    <2>3. QED
      BY <1>5, <2>2 DEF SLAppend, SLTypeOK
  <1>6. ASSUME NEW t \in User, SignalEmpty(t) PROVE SLTypeOK'
    <2>1. CASE listEmpty = <<>>
      BY <1>6, <2>1 DEF SignalEmpty, SLTypeOK
    <2>2. CASE listEmpty # <<>>
      <3>1. Head(listEmpty) \in User /\ Tail(listEmpty) \in Seq(User)
        BY <2>2, HeadTailProperties DEF SLTypeOK
      <3>2. QED
        BY <1>6, <2>2, <3>1, Zenon DEF SignalEmpty, SLTypeOK
    <2>3. QED
      BY <2>1, <2>2
  <1>7. ASSUME NEW t \in User, WaitEmpty(t) PROVE SLTypeOK'
    <2>1. listEmpty' \in Seq(User)
      BY <1>7, AppendProperties DEF WaitEmpty, SLTypeOK
    <2>2. QED
      BY <1>7, <2>1 DEF WaitEmpty, SLTypeOK
  <1>8. ASSUME NEW t \in User, SLRemove(t) PROVE SLTypeOK'
    <2>1. Head(list) \in Item /\ Tail(list) \in Seq(Item)
      BY <1>8, HeadTailProperties DEF SLRemove, SLTypeOK
    <2>2. QED
      BY <1>8, <2>1 DEF SLRemove, SLTypeOK
  <1>9. ASSUME NEW t \in User, ReleaseList(t) PROVE SLTypeOK'
    BY <1>9 DEF ReleaseList, SLTypeOK
  <1>10. QED
    BY <1>1, <1>2, <1>3, <1>4, <1>5, <1>6, <1>7, <1>8, <1>9 DEF SynchListNext, Step

(* The queue of the condition, when its first thread leaves and when a     *)
(* thread joins it.                                                        *)
LEMMA FirstLeaves ==
    ASSUME SLTypeOK, SLStructure, listEmpty # <<>>, listEmpty' = Tail(listEmpty)
    PROVE  /\ Sleeping' = Sleeping \ {Head(listEmpty)}
           /\ Head(listEmpty) \in Sleeping
           /\ \A i, j \in 1..Len(listEmpty') : listEmpty'[i] = listEmpty'[j] => i = j
  <1>0. listEmpty \in Seq(User)
    BY DEF SLTypeOK
  <1>1. /\ Len(listEmpty) \in Nat \ {0}
        /\ Head(listEmpty) = listEmpty[1]
        /\ Len(listEmpty') = Len(listEmpty) - 1
        /\ \A i \in 1..Len(listEmpty') : listEmpty'[i] = listEmpty[i + 1]
    BY <1>0, HeadTailProperties, EmptySeq
  <1>2. \A i \in 1..Len(listEmpty') : i + 1 \in 1..Len(listEmpty)
    BY <1>1
  <1>3. \A i, j \in 1..Len(listEmpty') : listEmpty'[i] = listEmpty'[j] => i = j
    <2> SUFFICES ASSUME NEW i \in 1..Len(listEmpty'), NEW j \in 1..Len(listEmpty'),
                        listEmpty'[i] = listEmpty'[j]
                 PROVE  i = j
      OBVIOUS
    <2>1. i + 1 = j + 1
      BY <1>1, <1>2 DEF SLStructure
    <2>2. QED
      BY <2>1
  <1>4. Sleeping' \subseteq Sleeping \ {Head(listEmpty)}
    <2> SUFFICES ASSUME NEW i \in 1..Len(listEmpty')
                 PROVE  listEmpty'[i] \in Sleeping \ {Head(listEmpty)}
      BY DEF Sleeping
    <2>1. listEmpty'[i] \in Sleeping
      BY <1>1, <1>2 DEF Sleeping
    <2>2. i + 1 # 1 /\ 1 \in 1..Len(listEmpty)
      BY <1>1
    <2>3. listEmpty'[i] # Head(listEmpty)
      BY <1>1, <1>2, <2>2 DEF SLStructure
    <2>4. QED
      BY <2>1, <2>3
  <1>5. Sleeping \ {Head(listEmpty)} \subseteq Sleeping'
    <2> SUFFICES ASSUME NEW i \in 1..Len(listEmpty), listEmpty[i] # Head(listEmpty)
                 PROVE  listEmpty[i] \in Sleeping'
      BY DEF Sleeping
    <2>1. i - 1 \in 1..Len(listEmpty') /\ (i - 1) + 1 = i
      BY <1>1
    <2>2. QED
      BY <1>1, <2>1 DEF Sleeping
  <1>6. Head(listEmpty) \in Sleeping
    BY <1>1 DEF Sleeping
  <1>7. QED
    BY <1>3, <1>4, <1>5, <1>6

(* Wait puts its caller, once, at the end of the queue. *)
LEMMA LastJoins ==
    ASSUME SLTypeOK, SLStructure, NEW t \in User, t \notin Sleeping,
           listEmpty' = Append(listEmpty, t)
    PROVE  /\ Sleeping' = Sleeping \cup {t}
           /\ \A i, j \in 1..Len(listEmpty') : listEmpty'[i] = listEmpty'[j] => i = j
  <1>1. /\ Len(listEmpty) \in Nat
        /\ Len(listEmpty') = Len(listEmpty) + 1
        /\ \A i \in 1..Len(listEmpty) : listEmpty'[i] = listEmpty[i]
        /\ listEmpty'[Len(listEmpty) + 1] = t
    BY AppendProperties, LenProperties DEF SLTypeOK
  <1>2. \A i \in 1..Len(listEmpty') : i \in 1..Len(listEmpty) \/ i = Len(listEmpty) + 1
    BY <1>1
  <1>3. \A i \in 1..Len(listEmpty) : listEmpty[i] # t
    BY DEF Sleeping
  <1>4. Sleeping' = Sleeping \cup {t}
    BY <1>1, <1>2 DEF Sleeping
  <1>5. \A i, j \in 1..Len(listEmpty') : listEmpty'[i] = listEmpty'[j] => i = j
    BY <1>1, <1>2, <1>3 DEF SLStructure
  <1>6. QED
    BY <1>4, <1>5

(* A step that leaves the queue alone leaves the sleepers alone. *)
LEMMA QueueStays ==
    ASSUME SLStructure, UNCHANGED listEmpty
    PROVE  /\ Sleeping' = Sleeping
           /\ \A i, j \in 1..Len(listEmpty') : listEmpty'[i] = listEmpty'[j] => i = j
  BY DEF Sleeping, SLStructure

(* Lock, call and queue, action by action. *)
LEMMA StructureStep ==
    ASSUME SLTypeOK, SLStructure, [SynchListNext]_slVars
    PROVE  SLStructure'
  <1>1. CASE UNCHANGED slVars
    BY <1>1 DEF slVars, SLStructure, Sleeping
  <1>2. ASSUME NEW t \in User, NEW i \in Item, CallAppend(t, i) PROVE SLStructure'
    <2>1. /\ pc[t] = "idle" /\ pc'[t] = "Acquire" /\ doing'[t] = "Append" /\ item'[t] = i
          /\ \A u \in User \ {t} :
                pc'[u] = pc[u] /\ doing'[u] = doing[u] /\ item'[u] = item[u]
      BY <1>2 DEF CallAppend, SLTypeOK
    <2>2. UNCHANGED <<holder, listEmpty>>
      BY <1>2 DEF CallAppend
    <2>3. QED
      BY <2>1, <2>2, QueueStays DEF SLStructure
  <1>3. ASSUME NEW t \in User, CallRemove(t) PROVE SLStructure'
    <2>1. /\ pc[t] = "idle" /\ pc'[t] = "Acquire" /\ doing'[t] = "Remove"
          /\ \A u \in User \ {t} :
                pc'[u] = pc[u] /\ doing'[u] = doing[u] /\ item'[u] = item[u]
      BY <1>3 DEF CallRemove, SLTypeOK
    <2>2. UNCHANGED <<holder, listEmpty>>
      BY <1>3 DEF CallRemove
    <2>3. QED
      BY <2>1, <2>2, QueueStays DEF SLStructure
  <1>4. ASSUME NEW t \in User, AcquireList(t) PROVE SLStructure'
    <2>1. /\ pc[t] = "Acquire" /\ pc'[t] = "locked" /\ holder = NoItem /\ holder' = t
          /\ \A u \in User \ {t} : pc'[u] = pc[u]
      BY <1>4 DEF AcquireList, SLTypeOK
    <2>2. UNCHANGED <<doing, item, listEmpty>>
      BY <1>4 DEF AcquireList
    <2>3. QED
      BY <2>1, <2>2, QueueStays DEF SLStructure
  <1>5. ASSUME NEW t \in User, SLAppend(t) PROVE SLStructure'
    <2>1. /\ pc[t] = "locked" /\ pc'[t] = "Signal" /\ doing[t] = "Append"
          /\ \A u \in User \ {t} : pc'[u] = pc[u]
      BY <1>5 DEF SLAppend, SLTypeOK
    <2>2. UNCHANGED <<doing, item, holder, listEmpty>>
      BY <1>5 DEF SLAppend
    <2>3. QED
      BY <2>1, <2>2, QueueStays DEF SLStructure
  <1>6. ASSUME NEW t \in User, SignalEmpty(t) PROVE SLStructure'
    <2>1. CASE listEmpty = <<>>
      <3>1. /\ pc[t] = "Signal" /\ pc'[t] = "Release"
            /\ \A u \in User \ {t} : pc'[u] = pc[u]
        BY <1>6, <2>1 DEF SignalEmpty, SLTypeOK
      <3>2. UNCHANGED <<doing, item, holder, listEmpty>>
        BY <1>6, <2>1 DEF SignalEmpty
      <3>3. QED
        BY <3>1, <3>2, QueueStays DEF SLStructure
    <2>2. CASE listEmpty # <<>>
      <3> DEFINE h == Head(listEmpty)
      <3>1. listEmpty' = Tail(listEmpty)
        BY <1>6, <2>2 DEF SignalEmpty
      <3>2. /\ Sleeping' = Sleeping \ {h} /\ h \in Sleeping
            /\ \A i, j \in 1..Len(listEmpty') : listEmpty'[i] = listEmpty'[j] => i = j
        BY <2>2, <3>1, FirstLeaves
      <3>3. h \in User /\ pc[h] = "Wait" /\ doing[h] = "Remove" /\ h # t
        <4>1. h \in User
          BY <2>2, HeadTailProperties DEF SLTypeOK
        <4>2. QED
          BY <4>1, <3>2, <1>6 DEF SLStructure, SignalEmpty
      <3>4. pc' = [pc EXCEPT ![t] = "Release", ![h] = "Acquire"]
        BY <1>6, <2>2 DEF SignalEmpty
      <3>5. pc'[t] = "Release" /\ pc'[h] = "Acquire" /\ pc[t] = "Signal"
            /\ \A u \in User \ {t, h} : pc'[u] = pc[u]
        BY <3>3, <3>4, <1>6 DEF SLTypeOK, SignalEmpty
      <3>6. UNCHANGED <<doing, item, holder>>
        BY <1>6 DEF SignalEmpty
      <3> HIDE DEF h
      <3>7. QED
        BY <3>2, <3>3, <3>5, <3>6 DEF SLStructure
    <2>3. QED
      BY <2>1, <2>2
  <1>7. ASSUME NEW t \in User, WaitEmpty(t) PROVE SLStructure'
    <2>1. t \notin Sleeping
      BY <1>7 DEF WaitEmpty, SLStructure
    <2>2. /\ Sleeping' = Sleeping \cup {t}
          /\ \A i, j \in 1..Len(listEmpty') : listEmpty'[i] = listEmpty'[j] => i = j
      BY <1>7, <2>1, LastJoins DEF WaitEmpty
    <2>3. pc[t] = "locked" /\ pc'[t] = "Wait" /\ doing[t] = "Remove" /\ holder' = NoItem
          /\ \A u \in User \ {t} : pc'[u] = pc[u]
      BY <1>7 DEF WaitEmpty, SLTypeOK
    <2>4. UNCHANGED <<doing, item>>
      BY <1>7 DEF WaitEmpty
    <2>5. QED
      BY <2>2, <2>3, <2>4 DEF SLStructure
  <1>8. ASSUME NEW t \in User, SLRemove(t) PROVE SLStructure'
    <2>1. /\ pc[t] = "locked" /\ pc'[t] = "Release" /\ doing[t] = "Remove"
          /\ \A u \in User \ {t} : pc'[u] = pc[u] /\ item'[u] = item[u]
      BY <1>8 DEF SLRemove, SLTypeOK
    <2>2. UNCHANGED <<doing, holder, listEmpty>>
      BY <1>8 DEF SLRemove
    <2>3. QED
      BY <2>1, <2>2, QueueStays DEF SLStructure
  <1>9. ASSUME NEW t \in User, ReleaseList(t) PROVE SLStructure'
    <2>1. /\ pc[t] = "Release" /\ pc'[t] = "idle" /\ doing'[t] = "none" /\ holder' = NoItem
          /\ \A u \in User \ {t} : pc'[u] = pc[u] /\ doing'[u] = doing[u]
      BY <1>9 DEF ReleaseList, SLTypeOK
    <2>2. UNCHANGED <<item, listEmpty>>
      BY <1>9 DEF ReleaseList
    <2>3. QED
      BY <2>1, <2>2, QueueStays DEF SLStructure
  <1>10. QED
    BY <1>1, <1>2, <1>3, <1>4, <1>5, <1>6, <1>7, <1>8, <1>9 DEF SynchListNext, Step

(* The two sets that NoSleepOverItems counts are finite. *)
LEMMA Counts ==
    ASSUME SLTypeOK
    PROVE  /\ IsFiniteSet(Removing) /\ Cardinality(Removing) \in Nat
           /\ IsFiniteSet(Signalling) /\ Cardinality(Signalling) \in Nat
  <1>1. Removing \subseteq User /\ Signalling \subseteq User
    BY DEF Removing, Signalling
  <1>2. IsFiniteSet(Removing) /\ IsFiniteSet(Signalling)
    BY <1>1, FS_Subset
  <1>3. QED
    BY <1>2, FS_CardinalityType

(* A step that changes neither set, list nor queue keeps the property. *)
LEMMA SameCounts ==
    ASSUME NoSleepOverItems, Removing' = Removing, Signalling' = Signalling,
           UNCHANGED <<list, listEmpty>>
    PROVE  NoSleepOverItems'
  BY DEF NoSleepOverItems

(* NoSleepOverItems, action by action: Append adds an item and a Signal to *)
(* come, Signal turns itself into a woken thread, Remove takes an item with *)
(* itself, and Wait finds no item.                                         *)
LEMMA ItemsStep ==
    ASSUME SLInv, SLTypeOK', [SynchListNext]_slVars
    PROVE  NoSleepOverItems'
  <1> USE DEF SLInv
  <1>0. Len(list) \in Nat /\ Len(list') \in Nat
    BY LenProperties DEF SLTypeOK
  <1>c. /\ IsFiniteSet(Removing) /\ Cardinality(Removing) \in Nat
        /\ IsFiniteSet(Signalling) /\ Cardinality(Signalling) \in Nat
    BY Counts
  <1>1. CASE UNCHANGED slVars
    BY <1>1 DEF slVars, NoSleepOverItems, Removing, Signalling
  <1>2. ASSUME NEW t \in User, NEW i \in Item, CallAppend(t, i) PROVE NoSleepOverItems'
    <2>1. /\ pc[t] = "idle" /\ pc'[t] = "Acquire" /\ doing[t] = "none" /\ doing'[t] = "Append"
          /\ \A u \in User \ {t} : pc'[u] = pc[u] /\ doing'[u] = doing[u]
      BY <1>2 DEF CallAppend, SLTypeOK, SLStructure
    <2>2. Removing' = Removing /\ Signalling' = Signalling
      BY <2>1 DEF Removing, Signalling
    <2>3. QED
      BY <1>2, <2>2, SameCounts DEF CallAppend
  <1>3. ASSUME NEW t \in User, CallRemove(t) PROVE NoSleepOverItems'
    <2>1. /\ pc[t] = "idle" /\ pc'[t] = "Acquire" /\ doing[t] = "none" /\ doing'[t] = "Remove"
          /\ \A u \in User \ {t} : pc'[u] = pc[u] /\ doing'[u] = doing[u]
      BY <1>3 DEF CallRemove, SLTypeOK, SLStructure
    <2>2. Removing' = Removing \cup {t} /\ t \notin Removing /\ Signalling' = Signalling
      BY <2>1 DEF Removing, Signalling
    <2>3. Cardinality(Removing') = Cardinality(Removing) + 1
      BY <1>c, <2>2, FS_AddElement, Zenon
    <2>4. UNCHANGED <<list, listEmpty>>
      BY <1>3 DEF CallRemove
    <2>5. QED
      BY <1>0, <1>c, <2>2, <2>3, <2>4 DEF NoSleepOverItems
  <1>4. ASSUME NEW t \in User, AcquireList(t) PROVE NoSleepOverItems'
    <2>1. /\ pc[t] = "Acquire" /\ pc'[t] = "locked" /\ doing' = doing
          /\ \A u \in User \ {t} : pc'[u] = pc[u]
      BY <1>4 DEF AcquireList, SLTypeOK
    <2>2. Removing' = Removing /\ Signalling' = Signalling
      BY <2>1 DEF Removing, Signalling
    <2>3. QED
      BY <1>4, <2>2, SameCounts DEF AcquireList
  <1>5. ASSUME NEW t \in User, SLAppend(t) PROVE NoSleepOverItems'
    <2>1. /\ pc[t] = "locked" /\ pc'[t] = "Signal" /\ doing' = doing /\ doing[t] = "Append"
          /\ \A u \in User \ {t} : pc'[u] = pc[u]
      BY <1>5 DEF SLAppend, SLTypeOK
    <2>2. Removing' = Removing /\ Signalling' = Signalling \cup {t} /\ t \notin Signalling
      BY <2>1 DEF Removing, Signalling
    <2>3. Cardinality(Signalling') = Cardinality(Signalling) + 1
      BY <1>c, <2>2, FS_AddElement, Zenon
    <2>4. item[t] \in Item
      BY <2>1 DEF SLStructure
    <2>5. Len(list') = Len(list) + 1 /\ listEmpty' = listEmpty
      BY <1>5, <2>4, AppendProperties DEF SLAppend, SLTypeOK
    <2>6. QED
      BY <1>0, <1>c, <2>2, <2>3, <2>5 DEF NoSleepOverItems
  <1>6. ASSUME NEW t \in User, SignalEmpty(t) PROVE NoSleepOverItems'
    <2>1. CASE listEmpty = <<>>
      BY <1>6, <2>1 DEF SignalEmpty, NoSleepOverItems
    <2>2. CASE listEmpty # <<>>
      <3> DEFINE h == Head(listEmpty)
      <3>1. listEmpty' = Tail(listEmpty) /\ list' = list /\ doing' = doing
        BY <1>6, <2>2 DEF SignalEmpty
      <3>2. h \in Sleeping /\ h \in User
        BY <2>2, <3>1, FirstLeaves, HeadTailProperties DEF SLTypeOK
      <3>3. pc[h] = "Wait" /\ doing[h] = "Remove" /\ pc[t] = "Signal" /\ h # t
        BY <1>6, <3>2 DEF SLStructure, SignalEmpty
      <3>4. pc' = [pc EXCEPT ![t] = "Release", ![h] = "Acquire"]
        BY <1>6, <2>2 DEF SignalEmpty
      <3>5. /\ pc'[t] = "Release" /\ pc'[h] = "Acquire"
            /\ \A u \in User \ {t, h} : pc'[u] = pc[u]
        BY <3>2, <3>3, <3>4 DEF SLTypeOK
      <3>6. doing[t] = "Append"
        BY <3>3 DEF SLStructure
      <3> HIDE DEF h
      <3>7. Removing' = Removing \cup {h} /\ h \notin Removing
        BY <3>1, <3>2, <3>3, <3>5, <3>6 DEF Removing
      <3>8. Signalling' = Signalling \ {t} /\ t \in Signalling
        BY <3>2, <3>3, <3>5 DEF Signalling
      <3>9. Cardinality(Removing') = Cardinality(Removing) + 1
        BY <1>c, <3>7, FS_AddElement, Zenon
      <3>10. Cardinality(Signalling') = Cardinality(Signalling) - 1
        BY <1>c, <3>8, FS_RemoveElement, Zenon
      <3>11. QED
        BY <1>0, <1>c, <2>2, <3>1, <3>9, <3>10 DEF NoSleepOverItems
    <2>3. QED
      BY <2>1, <2>2
  <1>7. ASSUME NEW t \in User, WaitEmpty(t) PROVE NoSleepOverItems'
    <2>1. Len(list') = 0
      BY <1>7, EmptySeq DEF WaitEmpty
    <2>2. Cardinality(Removing)' \in Nat /\ Cardinality(Signalling)' \in Nat
      <3>1. Removing' \subseteq User /\ Signalling' \subseteq User
        BY DEF Removing, Signalling
      <3>2. QED
        BY <3>1, FS_Subset, FS_CardinalityType
    <2>3. QED
      BY <2>1, <2>2 DEF NoSleepOverItems
  <1>8. ASSUME NEW t \in User, SLRemove(t) PROVE NoSleepOverItems'
    <2>1. /\ pc[t] = "locked" /\ pc'[t] = "Release" /\ doing' = doing /\ doing[t] = "Remove"
          /\ \A u \in User \ {t} : pc'[u] = pc[u]
      BY <1>8 DEF SLRemove, SLTypeOK
    <2>2. Removing' = Removing \ {t} /\ t \in Removing /\ Signalling' = Signalling
      BY <2>1 DEF Removing, Signalling
    <2>3. Cardinality(Removing') = Cardinality(Removing) - 1
      BY <1>c, <2>2, FS_RemoveElement, Zenon
    <2>4. Len(list') = Len(list) - 1 /\ listEmpty' = listEmpty
      BY <1>8, HeadTailProperties DEF SLRemove, SLTypeOK
    <2>5. QED
      BY <1>0, <1>c, <2>2, <2>3, <2>4 DEF NoSleepOverItems
  <1>9. ASSUME NEW t \in User, ReleaseList(t) PROVE NoSleepOverItems'
    <2>1. /\ pc[t] = "Release" /\ pc'[t] = "idle"
          /\ \A u \in User \ {t} : pc'[u] = pc[u] /\ doing'[u] = doing[u]
      BY <1>9 DEF ReleaseList, SLTypeOK
    <2>2. Removing' = Removing /\ Signalling' = Signalling
      BY <2>1 DEF Removing, Signalling
    <2>3. QED
      BY <1>9, <2>2, SameCounts DEF ReleaseList
  <1>10. QED
    BY <1>1, <1>2, <1>3, <1>4, <1>5, <1>6, <1>7, <1>8, <1>9 DEF SynchListNext, Step

(* Every step of SynchList::Append and Remove preserves the invariant. *)
LEMMA SLInvStep == SLInv /\ [SynchListNext]_slVars => SLInv'
  BY TypeStep, StructureStep, ItemsStep DEF SLInv

(* The invariant holds in every reachable state. *)
LEMMA SLInvAlways == SynchListSpec => []SLInv
  BY SLInitInv, SLInvStep, PTL DEF SynchListSpec

-----------------------------------------------------------------------------
(* However threads interleave, nobody sleeps on the condition while there  *)
(* are more items than threads awake or woken to take them.                *)
THEOREM NobodySleepsOverItems == SynchListSpec => []NoSleepOverItems
  <1>1. SLInv => NoSleepOverItems
    BY DEF SLInv
  <1>2. QED
    BY <1>1, SLInvAlways, PTL

-----------------------------------------------------------------------------
(* The initial state is an empty queue. *)
LEMMA QueueInit == SynchListInit => Q!QInit
  BY DEF SynchListInit, Q!QInit, applied

(* The step under the lock that changes the list is the moment the call    *)
(* takes effect; Acquire, Signal and Wait change nothing a caller sees.    *)
LEMMA QueueStep ==
    ASSUME SLTypeOK, SLStructure, [SynchListNext]_slVars
    PROVE  [Q!QNext]_(Q!queueVars)
  <1> USE DEF Q!queueVars
  <1>1. CASE UNCHANGED slVars
    BY <1>1 DEF slVars, applied
  <1>2. ASSUME NEW t \in User, NEW i \in Item, CallAppend(t, i) PROVE Q!QNext
    <2>1. /\ pc[t] = "idle" /\ pc'[t] = "Acquire" /\ doing[t] = "none"
          /\ \A u \in User \ {t} : pc'[u] = pc[u]
      BY <1>2 DEF CallAppend, SLTypeOK, SLStructure
    <2>2. applied' = applied
      BY <2>1 DEF applied
    <2>3. Q!QStart(t)
      BY <1>2, <2>1, <2>2, Zenon DEF CallAppend, Q!QStart
    <2>4. QED
      BY <2>3 DEF Q!QNext
  <1>3. ASSUME NEW t \in User, CallRemove(t) PROVE Q!QNext
    <2>1. /\ pc[t] = "idle" /\ pc'[t] = "Acquire" /\ doing[t] = "none"
          /\ \A u \in User \ {t} : pc'[u] = pc[u]
      BY <1>3 DEF CallRemove, SLTypeOK, SLStructure
    <2>2. applied' = applied
      BY <2>1 DEF applied
    <2>3. Q!QStart(t)
      BY <1>3, <2>1, <2>2 DEF CallRemove, Q!QStart
    <2>4. QED
      BY <2>3 DEF Q!QNext
  <1>4. ASSUME NEW t \in User, AcquireList(t) PROVE UNCHANGED Q!queueVars
    <2>1. /\ pc[t] = "Acquire" /\ pc'[t] = "locked"
          /\ \A u \in User \ {t} : pc'[u] = pc[u]
      BY <1>4 DEF AcquireList, SLTypeOK
    <2>2. applied' = applied
      BY <2>1 DEF applied
    <2>3. QED
      BY <1>4, <2>2 DEF AcquireList
  <1>5. ASSUME NEW t \in User, SLAppend(t) PROVE Q!QNext
    <2>1. /\ pc[t] = "locked" /\ pc'[t] = "Signal"
          /\ \A u \in User \ {t} : pc'[u] = pc[u]
      BY <1>5 DEF SLAppend, SLTypeOK
    <2>2. applied' = applied \cup {t} /\ t \notin applied
      BY <2>1 DEF applied
    <2>3. Q!QApply(t)
      BY <1>5, <2>2 DEF SLAppend, Q!QApply
    <2>4. QED
      BY <2>3 DEF Q!QNext
  <1>6. ASSUME NEW t \in User, SignalEmpty(t) PROVE UNCHANGED Q!queueVars
    <2>1. CASE listEmpty = <<>>
      <3>1. /\ pc[t] = "Signal" /\ pc'[t] = "Release"
            /\ \A u \in User \ {t} : pc'[u] = pc[u]
        BY <1>6, <2>1 DEF SignalEmpty, SLTypeOK
      <3>2. applied' = applied
        BY <3>1 DEF applied
      <3>3. QED
        BY <1>6, <3>2 DEF SignalEmpty
    <2>2. CASE listEmpty # <<>>
      <3> DEFINE h == Head(listEmpty)
      <3>1. listEmpty' = Tail(listEmpty)
        BY <1>6, <2>2 DEF SignalEmpty
      <3>2. h \in Sleeping /\ h \in User
        BY <2>2, <3>1, FirstLeaves, HeadTailProperties DEF SLTypeOK
      <3>3. pc[h] = "Wait" /\ pc[t] = "Signal" /\ h # t
        BY <1>6, <3>2 DEF SLStructure, SignalEmpty
      <3>4. pc' = [pc EXCEPT ![t] = "Release", ![h] = "Acquire"]
        BY <1>6, <2>2 DEF SignalEmpty
      <3>5. /\ pc'[t] = "Release" /\ pc'[h] = "Acquire"
            /\ \A u \in User \ {t, h} : pc'[u] = pc[u]
        BY <3>2, <3>3, <3>4 DEF SLTypeOK
      <3> HIDE DEF h
      <3>6. applied' = applied
        BY <3>2, <3>3, <3>5 DEF applied
      <3>7. QED
        BY <1>6, <3>6 DEF SignalEmpty
    <2>3. QED
      BY <2>1, <2>2
  <1>7. ASSUME NEW t \in User, WaitEmpty(t) PROVE UNCHANGED Q!queueVars
    <2>1. /\ pc[t] = "locked" /\ pc'[t] = "Wait"
          /\ \A u \in User \ {t} : pc'[u] = pc[u]
      BY <1>7 DEF WaitEmpty, SLTypeOK
    <2>2. applied' = applied
      BY <2>1 DEF applied
    <2>3. QED
      BY <1>7, <2>2 DEF WaitEmpty
  <1>8. ASSUME NEW t \in User, SLRemove(t) PROVE Q!QNext
    <2>1. /\ pc[t] = "locked" /\ pc'[t] = "Release"
          /\ \A u \in User \ {t} : pc'[u] = pc[u]
      BY <1>8 DEF SLRemove, SLTypeOK
    <2>2. applied' = applied \cup {t} /\ t \notin applied
      BY <2>1 DEF applied
    <2>3. Q!QApply(t)
      BY <1>8, <2>2 DEF SLRemove, Q!QApply
    <2>4. QED
      BY <2>3 DEF Q!QNext
  <1>9. ASSUME NEW t \in User, ReleaseList(t) PROVE Q!QNext
    <2>1. /\ pc[t] = "Release" /\ pc'[t] = "idle"
          /\ \A u \in User \ {t} : pc'[u] = pc[u]
      BY <1>9 DEF ReleaseList, SLTypeOK
    <2>2. applied' = applied \ {t} /\ t \in applied
      BY <2>1 DEF applied
    <2>3. Q!QReturn(t)
      BY <1>9, <2>2 DEF ReleaseList, Q!QReturn
    <2>4. QED
      BY <2>3 DEF Q!QNext
  <1>10. QED
    BY <1>1, <1>2, <1>3, <1>4, <1>5, <1>6, <1>7, <1>8, <1>9 DEF SynchListNext, Step

(* Threads that share a SynchList see a queue whose calls take effect at   *)
(* one moment, for any number of threads and items.                        *)
THEOREM SynchListImplementsQueue == SynchListSpec => ImplementsQueue
  <1>1. SynchListInit => Q!QInit
    BY QueueInit
  <1>2. SLInv /\ [SynchListNext]_slVars => [Q!QNext]_(Q!queueVars)
    BY QueueStep DEF SLInv
  <1>3. QED
    BY <1>1, <1>2, SLInvAlways, PTL DEF SynchListSpec, ImplementsQueue, Q!QSpec
=============================================================================
