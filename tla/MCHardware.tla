----------------------------- MODULE MCHardware -----------------------------
(* The CPU, the devices, and the open file tables of the system calls for  *)
(* TLC: a behaviour is one of the component "part" names while the others  *)
(* rest in their initial state.                                            *)
EXTENDS MCMachine, Devices, OpenFiles, TLC

VARIABLE part

MCTyped == <<"a", "q">>

MCInit ==
    /\ part \in {"machine", "devices", "openfiles"}
    /\ DevicesInit
    /\ OpenFilesInit
    /\ MachineInit
    /\ part # "machine" => pageTable = CHOOSE t \in InitialTable : TRUE
    /\ part # "machine" =>
          \A r \in GPR \ {0, 31} : registers[r] = CHOOSE w \in InitialWord : TRUE
    /\ part # "devices" => timer = "off" /\ echo = "done"
    /\ part # "openfiles" => ~timeSlices

MCNext ==
    /\ UNCHANGED part
    /\ \/ part = "machine" /\ MachineNext /\ UNCHANGED <<devVars, tableVars>>
       \/ part = "devices" /\ DevicesNext /\ UNCHANGED <<vars, tableVars>>
       \/ part = "openfiles" /\ OpenFilesNext /\ UNCHANGED <<vars, devVars>>

MCSpec == MCInit /\ [][MCNext]_<<part, vars, devVars, tableVars>>

MCSymmetry == Permutations(Proc) \cup Permutations(FileName)
=============================================================================
