------------------------------- MODULE Queue -------------------------------
(***************************************************************************)
(* What threads/synchlist.h promises: threads append to a list and remove  *)
(* from its front, each call takes effect at one moment between its start  *)
(* and its return, and a Remove of an empty list waits for an item.        *)
(***************************************************************************)
EXTENDS Sequences

CONSTANTS User, Item, NoItem

VARIABLES
    list,
    doing,          \* the call a thread is in: "none", "Append" or "Remove"
    item,           \* what it appends, or what it has removed
    applied         \* the threads whose call has taken effect

queueVars == <<list, doing, item, applied>>

QInit ==
    /\ list = <<>>
    /\ doing = [t \in User |-> "none"]
    /\ item = [t \in User |-> NoItem]
    /\ applied = {}

QStart(t) ==
    /\ doing[t] = "none"
    /\ \/ /\ doing' = [doing EXCEPT ![t] = "Append"]
          /\ \E i \in Item : item' = [item EXCEPT ![t] = i]
       \/ /\ doing' = [doing EXCEPT ![t] = "Remove"]
          /\ item' = [item EXCEPT ![t] = NoItem]
    /\ UNCHANGED <<list, applied>>

QApply(t) ==
    /\ t \notin applied
    /\ applied' = applied \cup {t}
    /\ \/ /\ doing[t] = "Append"
          /\ list' = Append(list, item[t])
          /\ UNCHANGED item
       \/ /\ doing[t] = "Remove" /\ list # <<>>
          /\ item' = [item EXCEPT ![t] = Head(list)]
          /\ list' = Tail(list)
    /\ UNCHANGED doing

QReturn(t) ==
    /\ t \in applied
    /\ applied' = applied \ {t}
    /\ doing' = [doing EXCEPT ![t] = "none"]
    /\ UNCHANGED <<list, item>>

QNext == \E t \in User : QStart(t) \/ QApply(t) \/ QReturn(t)

QSpec == QInit /\ [][QNext]_queueVars
=============================================================================
