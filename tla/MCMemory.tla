------------------------------ MODULE MCMemory ------------------------------
(* Memory, the virtual memory, the program loader and the list package for *)
(* TLC: a behaviour is one of the component "part" names while the others  *)
(* rest in their initial state.                                            *)
EXTENDS Memory, VirtualMemory, Loader, LinkedList, TLC

VARIABLE part

MCInit ==
    /\ part \in {"memory", "virtualmemory", "loader", "list"}
    /\ MemInit
    /\ VMInit
    /\ LoaderInit
    /\ ListInit
    /\ part # "memory" => ~randomYield
    /\ part # "loader" => ~VM /\ sections = Layout(1, 0, 0, 0, 0, 0)

MCNext ==
    /\ UNCHANGED part
    /\ \/ part = "memory" /\ MemNext /\ UNCHANGED <<vmVars, ldVars, listVars>>
       \/ part = "virtualmemory" /\ VMNext /\ UNCHANGED <<vars, ldVars, listVars>>
       \/ part = "loader" /\ LoaderNext /\ UNCHANGED <<vars, vmVars, listVars>>
       \/ part = "list" /\ ListNext /\ UNCHANGED <<vars, vmVars, ldVars>>

(* The fairness of FairMemSpec, asked of Memory when it is the part that   *)
(* runs.                                                                   *)
MCFairness ==
    \A p \in Process : /\ WF_vars(part = "memory" /\ getPage(p))
                       /\ WF_vars(part = "memory" /\ clearPage(p))

MCSpec == MCInit /\ [][MCNext]_<<part, vars, vmVars, ldVars, listVars>> /\ MCFairness

(* A set whose elements only the virtual memory mentions, of which no      *)
(* liveness is checked.                                                    *)
MCSymmetry == Permutations(Pid)
=============================================================================
