----------------------------- MODULE SynchDisk -----------------------------
(***************************************************************************)
(* SynchDisk: filesys/synchdisk.cc over the asynchronous disk of           *)
(* machine/disk.cc, whose completion interrupt raises the semaphore.  Each *)
(* call is a lock, a request, a P and a release; threads lose the CPU      *)
(* between them, and the interrupt comes at any time after the request.    *)
(***************************************************************************)
EXTENDS Integers

CONSTANTS Thread, Sector, Data, NoCall, Blank

ASSUME DiskAssumption ==
    /\ Blank \in Data
    /\ "free" \notin Thread
    /\ NoCall \notin [type : {"read"}, sector : Sector]
    /\ NoCall \notin [type : {"write"}, sector : Sector, data : Data]

VARIABLES
    sectors, call, buffer,
    pc,             \* next step of the thread inside ReadSector or WriteSector
    lock,           \* owner, or "free"
    semaphore,      \* value
    active          \* the disk is working on a request, its interrupt pending

vars == <<sectors, call, buffer, pc, lock, semaphore, active>>

applied == {t \in Thread : pc[t] \in {"P", "Release"}}

AD == INSTANCE AtomicDisk

SynchDiskTypeOK ==
    /\ sectors \in [Sector -> Data]
    /\ call \in [Thread -> AD!Call \cup {NoCall}]
    /\ buffer \in [Thread -> Data]
    /\ pc \in [Thread -> {"idle", "Acquire", "Request", "P", "Release"}]
    /\ lock \in Thread \cup {"free"}
    /\ semaphore \in Nat
    /\ active \in BOOLEAN

Init ==
    /\ sectors = [s \in Sector |-> Blank]
    /\ call = [t \in Thread |-> NoCall]
    /\ buffer = [t \in Thread |-> Blank]
    /\ pc = [t \in Thread |-> "idle"]
    /\ lock = "free"
    /\ semaphore = 0
    /\ active = FALSE

-----------------------------------------------------------------------------
Goto(t, label) == pc' = [pc EXCEPT ![t] = label]

CallSector(t, c) ==
    /\ pc[t] = "idle"
    /\ call' = [call EXCEPT ![t] = c]
    /\ Goto(t, "Acquire")
    /\ UNCHANGED <<sectors, buffer, lock, semaphore, active>>

(* Mutant of Acquire: the lock is not taken. *)
AcquireNothing(t) ==
    /\ pc[t] = "Acquire"
    /\ Goto(t, "Request")
    /\ UNCHANGED <<sectors, call, buffer, lock, semaphore, active>>

Acquire(t) ==
    /\ pc[t] = "Acquire" /\ lock \in {"free", t}
    /\ lock' = t
    /\ Goto(t, "Request")
    /\ UNCHANGED <<sectors, call, buffer, semaphore, active>>

(* Mutant of Request: Lseek is forgotten. *)
RequestUnpositioned(t) ==
    LET c == call[t]
        s == CHOOSE x \in Sector : TRUE
    IN
    /\ pc[t] = "Request"
    /\ IF c.type = "write"
         THEN sectors' = [sectors EXCEPT ![s] = c.data] /\ UNCHANGED buffer
         ELSE buffer' = [buffer EXCEPT ![t] = sectors[s]] /\ UNCHANGED sectors
    /\ active' = TRUE
    /\ Goto(t, "P")
    /\ UNCHANGED <<call, lock, semaphore>>

(* Disk::ReadRequest and WriteRequest do the transfer at once and schedule *)
(* the interrupt.                                                          *)
Request(t) ==
    LET c == call[t] IN
    /\ pc[t] = "Request"
    /\ IF c.type = "write"
         THEN sectors' = [sectors EXCEPT ![c.sector] = c.data] /\ UNCHANGED buffer
         ELSE buffer' = [buffer EXCEPT ![t] = sectors[c.sector]] /\ UNCHANGED sectors
    /\ active' = TRUE
    /\ Goto(t, "P")
    /\ UNCHANGED <<call, lock, semaphore>>

(* Disk::HandleInterrupt, then SynchDisk::RequestDone. *)
HandleInterrupt ==
    /\ active
    /\ active' = FALSE
    /\ semaphore' = semaphore + 1
    /\ UNCHANGED <<sectors, call, buffer, pc, lock>>

P(t) ==
    /\ pc[t] = "P" /\ semaphore > 0
    /\ semaphore' = semaphore - 1
    /\ Goto(t, "Release")
    /\ UNCHANGED <<sectors, call, buffer, lock, active>>

(* Mutant of Release: the lock is kept. *)
ReleaseNothing(t) ==
    /\ pc[t] = "Release"
    /\ call' = [call EXCEPT ![t] = NoCall]
    /\ Goto(t, "idle")
    /\ UNCHANGED <<sectors, buffer, lock, semaphore, active>>

Release(t) ==
    /\ pc[t] = "Release"
    /\ lock' = "free"
    /\ call' = [call EXCEPT ![t] = NoCall]
    /\ Goto(t, "idle")
    /\ UNCHANGED <<sectors, buffer, semaphore, active>>

Step(t) == Acquire(t) \/ Request(t) \/ P(t) \/ Release(t)

Next ==
    \/ \E t \in Thread : Step(t) \/ \E c \in AD!Call : CallSector(t, c)
    \/ HandleInterrupt

Spec == Init /\ [][Next]_vars

(* Kernel threads run on, and Interrupt::Idle advances the clock to the    *)
(* pending interrupt when all threads wait for it.                         *)
FairSpec == Spec /\ (\A t \in Thread : WF_vars(Step(t))) /\ WF_vars(HandleInterrupt)
-----------------------------------------------------------------------------
(* ASSERT(!active) of disk.cc: one request at a time, however threads and  *)
(* the interrupt interleave.                                               *)
OneRequestAtATime == \A t \in Thread : pc[t] = "Request" => ~active

(* A request finds the disk inactive, and a call goes on after P only when *)
(* its own request is complete: every V of the handler is for the one      *)
(* thread that waits (synchdisk.cc: "Return only after the data has been   *)
(* read").                                                                 *)
WaitsForItsInterrupt ==
    /\ OneRequestAtATime
    /\ \A t \in Thread : pc[t] = "Release" => ~active /\ semaphore = 0
    /\ semaphore > 0 => ~active /\ \E t \in Thread : pc[t] = "P"

(* What the steps preserve together: who is inside holds the lock, the     *)
(* request of the one inside is either on the disk or in the semaphore     *)
(* until its P, and only a thread in a call has one.                       *)
Inside == {"Request", "P", "Release"}

DiskInv ==
    /\ SynchDiskTypeOK
    /\ \A t \in Thread : pc[t] \in Inside <=> lock = t
    /\ \A t \in Thread : pc[t] = "P" => semaphore = IF active THEN 0 ELSE 1
    /\ (\A t \in Thread : pc[t] # "P") => ~active /\ semaphore = 0
    /\ \A t \in Thread : call[t] = NoCall <=> pc[t] = "idle"

(* Threads see an atomic disk. *)
ImplementsAtomicDisk == AD!ADSpec

(* Disk traffic does not come to a halt: when threads are inside SynchDisk *)
(* one of them gets out.  (Not each of them: see the README on Lock.)      *)
SomeCallReturns ==
    (\E t \in Thread : pc[t] # "idle") ~> (\E t \in Thread : pc[t] = "Release")
=============================================================================
