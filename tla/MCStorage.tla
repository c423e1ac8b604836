----------------------------- MODULE MCStorage -----------------------------
(* SynchDisk, the file system and the bytes of an open file for TLC: a     *)
(* behaviour is one of the component "part" names while the others rest in *)
(* their initial state.                                                    *)
EXTENDS SynchDisk, FileSystem, OpenFile, TLC

VARIABLE part

MCInit ==
    /\ part \in {"synchdisk", "filesystem", "openfile"}
    /\ Init
    /\ FileSystemInit
    /\ OpenFileInit
    /\ part # "openfile" => written = <<>>

MCNext ==
    /\ UNCHANGED part
    /\ \/ part = "synchdisk" /\ Next /\ UNCHANGED <<fsVars, ofVars>>
       \/ part = "filesystem" /\ FileSystemNext /\ UNCHANGED <<vars, ofVars>>
       \/ part = "openfile" /\ OpenFileNext /\ UNCHANGED <<vars, fsVars>>

(* The fairness of FairSpec, asked of SynchDisk when it is the part that   *)
(* runs.                                                                   *)
MCFairness ==
    /\ \A t \in Thread : WF_vars(part = "synchdisk" /\ Step(t))
    /\ WF_vars(part = "synchdisk" /\ HandleInterrupt)

MCSpec == MCInit /\ [][MCNext]_<<part, vars, fsVars, ofVars>> /\ MCFairness

(* A set whose elements only the file system mentions, of which no         *)
(* liveness is checked.                                                    *)
MCSymmetry == Permutations(Name)
=============================================================================
