------------------------------- MODULE Synch -------------------------------
(***************************************************************************)
(* Semaphores, locks and condition variables: threads/synch.cc, on top of  *)
(* the scheduler it calls.  Threads are the most general client: whoever   *)
(* is running may call any routine on any object, in any order, and a      *)
(* device handler may V a semaphore whenever an interrupt can be served.   *)
(*                                                                         *)
(* Every routine runs with interrupts off, so it is one step up to the     *)
(* point where it sleeps; "call" tells in which routine a thread sleeps.   *)
(***************************************************************************)
EXTENDS Scheduler

CONSTANTS
    Semaphore, Lock, Condition,
    InitialValue,       \* value each semaphore is constructed with
    MaxValue            \* bound on semaphore values: V stops there

ASSUME SynchAssumption ==
    /\ \A s \in Semaphore : s \notin Lock /\ s \notin Condition
    /\ \A l \in Lock : l \notin Condition
    /\ NULL \notin Semaphore \cup Lock \cup Condition
    /\ MaxValue \in Nat
    /\ InitialValue \in [Semaphore -> 0..MaxValue]

Object == Semaphore \cup Lock \cup Condition

VARIABLES
    value,              \* Semaphore::value
    lockTaken,          \* Lock::lockTaken
    currentTh,          \* Lock::currentTh, which only Acquire assigns
    waiting_threads,    \* Condition::waiting_threads
    queue,              \* the "queue" member of each object
    call,               \* the routine a thread is inside of, if it slept there
    owners              \* threads between the return of Acquire and Release

synchVars == <<value, lockTaken, currentTh, waiting_threads, queue, call, owners>>

vars == <<schedVars, synchVars>>

(* No routine; waiting in P or Acquire on "on"; waiting on condition "on", *)
(* to re-acquire "lock" afterwards.                                        *)
NoCall == [op |-> "none", on |-> NULL, lock |-> NULL]
InP(s) == [op |-> "P", on |-> s, lock |-> NULL]
InAcquire(l) == [op |-> "Acquire", on |-> l, lock |-> NULL]
InWait(c, l) == [op |-> "Wait", on |-> c, lock |-> l]

Call == {NoCall} \cup {InP(s) : s \in Semaphore}
                 \cup {InAcquire(l) : l \in Lock}
                 \cup {InWait(c, l) : c \in Condition, l \in Lock}

SynchTypeOK ==
    /\ value \in [Semaphore -> 0..MaxValue]
    /\ lockTaken \in [Lock -> BOOLEAN]
    /\ currentTh \in [Lock -> Thread \cup {NULL}]
    /\ waiting_threads \in [Condition -> Nat]
    /\ queue \in [Object -> Seq(Thread)]
    /\ call \in [Thread -> Call]
    /\ owners \in [Lock -> SUBSET Thread]

(* The constructors.  Lock::Lock leaves currentTh uninitialised: it holds  *)
(* whatever was in the heap block, at worst the address of a thread.       *)
SynchInit ==
    /\ SchedInit
    /\ value = InitialValue
    /\ lockTaken = [l \in Lock |-> FALSE]
    /\ currentTh \in [Lock -> Thread \cup {NULL}]
    /\ waiting_threads = [c \in Condition |-> 0]
    /\ queue = [o \in Object |-> <<>>]
    /\ call = [t \in Thread |-> NoCall]
    /\ owners = [l \in Lock |-> {}]

-----------------------------------------------------------------------------
(* The current thread can call a routine. *)
Free == Preemptible /\ call[currentThread] = NoCall

(* n calls of List::Remove take the first n threads of queue q, or as many *)
(* as there are, and leave the rest.                                       *)
Removed(q, n) == IF n <= Len(q) THEN n ELSE Len(q)
First(q, n) == SubSeq(q, 1, Removed(q, n))
Rest(q, n) == SubSeq(q, Removed(q, n) + 1, Len(q))

(* The current thread appends itself to the queue of o and sleeps. *)
SleepOn(o, c) ==
    /\ WakeThenSleep(<<>>)
    /\ queue' = [queue EXCEPT ![o] = Append(@, currentThread)]
    /\ call' = [call EXCEPT ![currentThread] = c]

(* The routine returns and restores the interrupt level of its caller. *)
Return ==
    /\ EnableInterrupts
    /\ call' = [call EXCEPT ![currentThread] = NoCall]

(* Mutant: the threads stay on the queue. *)
WakeWithoutRemove(o, n) ==
    /\ Wake(First(queue[o], n))
    /\ UNCHANGED queue

(* The first n threads of the queue of o go to Scheduler::ReadyToRun. *)
WakeFirst(o, n) ==
    /\ Wake(First(queue[o], n))
    /\ queue' = [queue EXCEPT ![o] = Rest(@, n)]

-----------------------------------------------------------------------------
(* Semaphore::P, entered or resumed after Sleep: the while loop is tested  *)
(* again by every thread that is woken.                                    *)
P(s) ==
    /\ Executing
    /\ Free \/ call[currentThread] = InP(s)
    /\ \/ /\ value[s] = 0
          /\ SleepOn(s, InP(s))
          /\ UNCHANGED value
       \/ /\ value[s] > 0
          /\ value' = [value EXCEPT ![s] = @ - 1]
          /\ Return
          /\ UNCHANGED queue
    /\ UNCHANGED <<lockTaken, currentTh, waiting_threads, owners>>

(* Mutant: V wakes a waiter only when it makes the value positive. *)
VWakesAtZero(s) ==
    /\ value[s] < MaxValue
    /\ WakeFirst(s, IF value[s] = 0 THEN 1 ELSE 0)
    /\ value' = [value EXCEPT ![s] = @ + 1]
    /\ UNCHANGED <<lockTaken, currentTh, waiting_threads, call, owners>>

(* Semaphore::V, called by a thread or by the handler of an interrupt that *)
(* OneTick or Idle serves.                                                 *)
V(s) ==
    /\ value[s] < MaxValue
    /\ WakeFirst(s, 1)
    /\ value' = [value EXCEPT ![s] = @ + 1]
    /\ UNCHANGED <<lockTaken, currentTh, waiting_threads, call, owners>>

isHeldByCurrentThread(l) == currentTh[l] = currentThread

(* Mutant: "if" for "while", a woken thread takes the lock untested. *)
AcquireOnWakeup(l) ==
    /\ Executing
    /\ Free \/ call[currentThread] = InAcquire(l)
    /\ \/ /\ Free /\ ~isHeldByCurrentThread(l) /\ lockTaken[l]
          /\ SleepOn(l, InAcquire(l))
          /\ UNCHANGED <<lockTaken, currentTh, owners>>
       \/ /\ ~Free \/ isHeldByCurrentThread(l) \/ ~lockTaken[l]
          /\ lockTaken' = [lockTaken EXCEPT ![l] = TRUE]
          /\ currentTh' = [currentTh EXCEPT ![l] = currentThread]
          /\ owners' = [owners EXCEPT ![l] = @ \cup {currentThread}]
          /\ Return
          /\ UNCHANGED queue
    /\ UNCHANGED <<value, waiting_threads>>

(* Lock::Acquire, entered, resumed after Sleep, or called by Wait. *)
Acquire(l) ==
    /\ Executing
    /\ Free \/ call[currentThread] = InAcquire(l)
    /\ \/ /\ ~isHeldByCurrentThread(l) /\ lockTaken[l]
          /\ SleepOn(l, InAcquire(l))
          /\ UNCHANGED <<lockTaken, currentTh, owners>>
       \/ /\ isHeldByCurrentThread(l) \/ ~lockTaken[l]
          /\ lockTaken' = [lockTaken EXCEPT ![l] = TRUE]
          /\ currentTh' = [currentTh EXCEPT ![l] = currentThread]
          /\ owners' = [owners EXCEPT ![l] = @ \cup {currentThread}]
          /\ Return
          /\ UNCHANGED queue
    /\ UNCHANGED <<value, waiting_threads>>

(* Lock::Release; it leaves currentTh alone. *)
Release(l) ==
    /\ Free
    /\ isHeldByCurrentThread(l)
    /\ WakeFirst(l, 1)
    /\ lockTaken' = [lockTaken EXCEPT ![l] = FALSE]
    /\ owners' = [owners EXCEPT ![l] = @ \ {currentThread}]
    /\ UNCHANGED <<value, currentTh, waiting_threads, call>>

(* Condition::Wait up to its Sleep: Release wakes a thread waiting for the *)
(* lock before the caller goes to sleep, interrupts being off throughout.  *)
Wait(c, l) ==
    /\ Free
    /\ isHeldByCurrentThread(l)
    /\ WakeThenSleep(First(queue[l], 1))
    /\ queue' = [queue EXCEPT ![c] = Append(@, currentThread),
                              ![l] = Rest(@, 1)]
    /\ waiting_threads' = [waiting_threads EXCEPT ![c] = @ + 1]
    /\ lockTaken' = [lockTaken EXCEPT ![l] = FALSE]
    /\ owners' = [owners EXCEPT ![l] = @ \ {currentThread}]
    /\ call' = [call EXCEPT ![currentThread] = InWait(c, l)]
    /\ UNCHANGED <<value, currentTh>>

(* Condition::Wait after its Sleep: interrupts are enabled again before    *)
(* Acquire is called, so the thread can be preempted in between.           *)
WaitReturn ==
    /\ Executing
    /\ call[currentThread].op = "Wait"
    /\ EnableInterrupts
    /\ call' = [call EXCEPT ![currentThread] = InAcquire(@.lock)]
    /\ UNCHANGED <<value, lockTaken, currentTh, waiting_threads, queue, owners>>

(* Condition::Signal and Condition::Broadcast, given how many threads they *)
(* wake.                                                                   *)
Notify(c, l, n) ==
    /\ Free
    /\ isHeldByCurrentThread(l)
    /\ waiting_threads[c] > 0
    /\ WakeFirst(c, n)
    /\ waiting_threads' = [waiting_threads EXCEPT ![c] = @ - n]
    /\ UNCHANGED <<value, lockTaken, currentTh, call, owners>>

Signal(c, l) == Notify(c, l, 1)

Broadcast(c, l) == Notify(c, l, waiting_threads[c])

-----------------------------------------------------------------------------
(* What the threads do besides: create threads, yield or be preempted, and *)
(* finish, even while they hold a lock.                                    *)
ThreadStep ==
    /\ \/ Free /\ \E t \in Thread : NewThread(t) \/ Fork(t)
       \/ Yield \/ Dispatch
       \/ Free /\ Finish
    /\ UNCHANGED synchVars

SynchNext ==
    \/ ThreadStep
    \/ \E s \in Semaphore : P(s) \/ V(s)
    \/ \E l \in Lock : Acquire(l) \/ Release(l)
    \/ \E c \in Condition, l \in Lock :
          Wait(c, l) \/ Signal(c, l) \/ Broadcast(c, l)
    \/ WaitReturn

SynchSpec == SynchInit /\ [][SynchNext]_vars
-----------------------------------------------------------------------------
(* A wait queue holds sleeping threads only, each once, and every sleeping *)
(* thread that has not finished is on the queue of the object it waits     *)
(* for: nobody is woken twice for one Sleep, and nobody sleeps where no    *)
(* Remove can find it.                                                     *)
WaitersSound ==
    /\ \A o \in Object : Distinct(queue[o])
    /\ \A o \in Object, t \in Thread :
          t \in Elements(queue[o]) <=> t \in Sleepers /\ call[t].on = o
    /\ \A t \in Sleepers : call[t] # NoCall

(* At most one thread is between Acquire and Release of a lock, although   *)
(* currentTh starts uninitialised and outlives Release (synch.cc:122-154). *)
MutualExclusion ==
    \A l \in Lock : \A t, u \in owners[l] : t = u

(* The threads that are on their way to test the condition of P's or       *)
(* Acquire's loop again.                                                   *)
Woken(o) == {t \in Awake : call[t].on = o}

(* While threads are queued, every unit of a semaphore, and a free lock,   *)
(* has a woken thread coming for it.                                       *)
UnitsClaimed(s) == queue[s] # <<>> => value[s] <= Cardinality(Woken(s))

FreeLockClaimed(l) == queue[l] # <<>> /\ ~lockTaken[l] => Woken(l) # {}

(* V and Release do not hand over the semaphore or the lock: the thread    *)
(* they wake competes with newcomers, and may go to sleep again.  Still no *)
(* wake-up is lost (synch.cc:64-98 and 122-149).                           *)
NoLostWakeup ==
    /\ \A s \in Semaphore : UnitsClaimed(s)
    /\ \A l \in Lock : FreeLockClaimed(l)

(* Signal and Broadcast count with waiting_threads and take from queue: if *)
(* the two disagreed a waiter would be skipped (synch.cc:199-233).         *)
WaitersCounted ==
    \A c \in Condition : waiting_threads[c] = Len(queue[c])

(* Every sleeper is queued where a V, Release or Signal finds it, no        *)
(* wake-up is lost, and Signal and Broadcast know how many they may wake.   *)
WaitersServed == WaitersSound /\ NoLostWakeup /\ WaitersCounted

(* Who may make a lock free. *)
ReleasedByOwner ==
    \A l \in Lock : lockTaken[l] /\ ~lockTaken'[l] => owners[l] = {currentThread}

(* synch.h:62: only the thread that acquired the lock may release it. *)
OnlyOwnerReleases == [][ReleasedByOwner]_vars

(* A taken lock has exactly one owner, the thread in currentTh. *)
LocksOwned ==
    \A l \in Lock : owners[l] = IF lockTaken[l] THEN {currentTh[l]} ELSE {}

(* The inductive invariant behind the properties above. *)
SynchInv ==
    /\ SchedInv
    /\ SynchTypeOK
    /\ WaitersSound
    /\ LocksOwned
    /\ WaitersCounted
    /\ NoLostWakeup
=============================================================================
