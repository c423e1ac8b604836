----------------------------- MODULE AtomicDisk -----------------------------
(***************************************************************************)
(* What SynchDisk promises (filesys/synchdisk.h): threads read and write   *)
(* whole sectors, each call takes effect at one moment between its start   *)
(* and its return, and a read delivers what the last write stored.         *)
(***************************************************************************)
CONSTANTS Thread, Sector, Data, NoCall, Blank

Call == [type : {"read"}, sector : Sector]
        \cup [type : {"write"}, sector : Sector, data : Data]

VARIABLES
    sectors,        \* contents of the disk
    call,           \* the call a thread is in, or NoCall
    applied,        \* the threads whose call has taken effect
    buffer          \* what a thread last read

diskVars == <<sectors, call, applied, buffer>>

ADInit ==
    /\ sectors = [s \in Sector |-> Blank]
    /\ call = [t \in Thread |-> NoCall]
    /\ applied = {}
    /\ buffer = [t \in Thread |-> Blank]

Start(t, c) ==
    /\ call[t] = NoCall
    /\ call' = [call EXCEPT ![t] = c]
    /\ UNCHANGED <<sectors, applied, buffer>>

(* The effect of a call on the disk and on the caller's buffer. *)
Effect(t) ==
    LET c == call[t] IN
    IF c.type = "write"
      THEN sectors' = [sectors EXCEPT ![c.sector] = c.data] /\ UNCHANGED buffer
      ELSE buffer' = [buffer EXCEPT ![t] = sectors[c.sector]] /\ UNCHANGED sectors

Apply(t) ==
    /\ call[t] # NoCall /\ t \notin applied
    /\ applied' = applied \cup {t}
    /\ Effect(t)
    /\ UNCHANGED call

Return(t) ==
    /\ t \in applied
    /\ applied' = applied \ {t}
    /\ call' = [call EXCEPT ![t] = NoCall]
    /\ UNCHANGED <<sectors, buffer>>

ADNext ==
    \E t \in Thread : (\E c \in Call : Start(t, c)) \/ Apply(t) \/ Return(t)

ADSpec == ADInit /\ [][ADNext]_diskVars
=============================================================================
