--------------------------- MODULE MCSystemCalls ---------------------------
(* Processes and the copying of user buffers for TLC: a behaviour is one   *)
(* of the component "part" names while the other rests in its initial      *)
(* state.                                                                  *)
EXTENDS MCProcesses, UserBuffer, TLC

CONSTANT Large      \* the thread with the larger address space

VARIABLE part

(* Two address spaces of three pages and of one, and a free frame. *)
MCNumPages == [t \in Thread |-> IF t = Large THEN 3 ELSE 1]
MCPageTable == [t \in Thread |-> IF t = Large THEN (0 :> 3 @@ 1 :> 0 @@ 2 :> 4) ELSE (0 :> 1)]

MCInit ==
    /\ part \in {"processes", "userbuffer"}
    /\ ProcInit
    /\ UserBufferInit
    /\ part # "processes" => ~randomYield
    /\ part # "userbuffer" => ~preemptive

MCNext ==
    /\ UNCHANGED part
    /\ \/ part = "processes" /\ ProcNext /\ UNCHANGED ubVars
       \/ part = "userbuffer" /\ UserBufferNext /\ UNCHANGED vars

(* ProcFairness, asked of Processes when it is the part that runs. *)
MCFairness ==
    \A p \in Process :
       LET on == part = "processes" /\ ~fault /\ ~randomYield IN
       /\ SF_vars(on /\ KernelStep(p) /\ UNCHANGED randomYield)
       /\ SF_vars(on /\ Switch(p) /\ UNCHANGED randomYield)

MCSpec == MCInit /\ [][MCNext]_<<part, vars, ubVars>> /\ MCFairness
=============================================================================
