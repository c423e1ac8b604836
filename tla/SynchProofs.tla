---------------------------- MODULE SynchProofs ----------------------------
(***************************************************************************)
(* SchedInv is an invariant of the scheduler, whatever the set of threads. *)
(* SynchInv is an invariant of the synchronisation routines, whatever the  *)
(* sets of threads, semaphores, locks and conditions; and every step of    *)
(* theirs is a step the scheduler's specification allows.                  *)
(***************************************************************************)
EXTENDS Synch, FiniteSetTheorems, SequenceTheorems, TLAPS

(* What the operations on the ready list and on the wait queues do to the  *)
(* set of their elements, and that they keep it free of duplicates.        *)
LEMMA ConcatElements ==
    ASSUME NEW S, NEW s \in Seq(S), NEW w \in Seq(S)
    PROVE  /\ s \o w \in Seq(S)
           /\ Elements(s \o w) = Elements(s) \cup Elements(w)
           /\ Distinct(s) /\ Distinct(w) /\ Elements(s) \cap Elements(w) = {}
                 => Distinct(s \o w)
<1>1. /\ s \o w \in Seq(S)
      /\ Len(s \o w) = Len(s) + Len(w)
      /\ \A i \in 1..(Len(s) + Len(w)) :
            (s \o w)[i] = IF i <= Len(s) THEN s[i] ELSE w[i - Len(s)]
  BY ConcatProperties
<1>2. Len(s) \in Nat /\ Len(w) \in Nat
  BY LenProperties
<1>3. Elements(s \o w) \subseteq Elements(s) \cup Elements(w)
  BY <1>1, <1>2 DEF Elements
<1>4. Elements(s) \subseteq Elements(s \o w)
  BY <1>1, <1>2 DEF Elements
<1>5. Elements(w) \subseteq Elements(s \o w)
  <2> SUFFICES ASSUME NEW j \in 1..Len(w)
               PROVE  w[j] \in Elements(s \o w)
    BY DEF Elements
  <2>1. j + Len(s) \in 1..(Len(s) + Len(w)) /\ (s \o w)[j + Len(s)] = w[j]
    BY <1>1, <1>2
  <2> QED BY <2>1, <1>1 DEF Elements
<1>6. ASSUME Distinct(s), Distinct(w), Elements(s) \cap Elements(w) = {}
      PROVE  Distinct(s \o w)
  <2> SUFFICES ASSUME NEW i \in 1..(Len(s) + Len(w)),
                      NEW j \in 1..(Len(s) + Len(w)),
                      (s \o w)[i] = (s \o w)[j]
               PROVE  i = j
    BY <1>1 DEF Distinct
  <2>1. CASE i <= Len(s) /\ j <= Len(s)
    BY <2>1, <1>1, <1>2, <1>6 DEF Distinct
  <2>2. CASE i > Len(s) /\ j > Len(s)
    BY <2>2, <1>1, <1>2, <1>6 DEF Distinct
  <2>3. \A a \in 1..Len(s), b \in 1..Len(w) : s[a] # w[b]
    BY <1>6 DEF Elements
  <2>4. CASE i <= Len(s) /\ j > Len(s)
    BY <2>4, <2>3, <1>1, <1>2
  <2>5. CASE i > Len(s) /\ j <= Len(s)
    BY <2>5, <2>3, <1>1, <1>2
  <2> QED BY <2>1, <2>2, <2>4, <2>5, <1>2
<1> QED BY <1>1, <1>3, <1>4, <1>5, <1>6

LEMMA SingletonElements ==
    ASSUME NEW S, NEW x \in S
    PROVE  <<x>> \in Seq(S) /\ Elements(<<x>>) = {x} /\ Distinct(<<x>>)
BY DEF Elements, Distinct

LEMMA EmptyElements ==
    ASSUME NEW S
    PROVE  <<>> \in Seq(S) /\ Elements(<<>>) = {} /\ Distinct(<<>>)
BY DEF Elements, Distinct

LEMMA AppendElements ==
    ASSUME NEW S, NEW s \in Seq(S), NEW x \in S
    PROVE  /\ Append(s, x) \in Seq(S)
           /\ Elements(Append(s, x)) = Elements(s) \cup {x}
           /\ Distinct(s) /\ x \notin Elements(s) => Distinct(Append(s, x))
<1> DEFINE w == <<x>>
<1>1. Append(s, x) = s \o w
  BY AppendIsConcat
<1>2. w \in Seq(S) /\ Elements(w) = {x} /\ Distinct(w)
  BY SingletonElements
<1> HIDE DEF w
<1>3. /\ s \o w \in Seq(S)
      /\ Elements(s \o w) = Elements(s) \cup Elements(w)
      /\ Distinct(s) /\ Distinct(w) /\ Elements(s) \cap Elements(w) = {}
            => Distinct(s \o w)
  BY <1>2, ConcatElements
<1> QED BY <1>1, <1>2, <1>3

LEMMA TailElements ==
    ASSUME NEW S, NEW s \in Seq(S), s # <<>>
    PROVE  /\ Head(s) \in Elements(s)
           /\ Head(s) \in S
           /\ Tail(s) \in Seq(S)
           /\ Distinct(s) => /\ Elements(Tail(s)) = Elements(s) \ {Head(s)}
                             /\ Distinct(Tail(s))
<1>1. /\ Head(s) \in S
      /\ Tail(s) \in Seq(S)
      /\ Len(Tail(s)) = Len(s) - 1
      /\ \A i \in 1..Len(Tail(s)) : Tail(s)[i] = s[i + 1]
  BY HeadTailProperties
<1>2. Len(s) \in Nat /\ Len(s) >= 1 /\ Head(s) = s[1]
  BY EmptySeq
<1>3. Head(s) \in Elements(s)
  BY <1>2 DEF Elements
<1>4. ASSUME Distinct(s)
      PROVE  Elements(Tail(s)) = Elements(s) \ {Head(s)}
  <2>1. Elements(Tail(s)) \subseteq Elements(s) \ {Head(s)}
    BY <1>1, <1>2, <1>4 DEF Elements, Distinct
  <2>2. ASSUME NEW k \in 1..Len(s), s[k] # Head(s)
        PROVE  s[k] \in Elements(Tail(s))
    <3>1. k - 1 \in 1..Len(Tail(s)) /\ Tail(s)[k - 1] = s[k]
      BY <2>2, <1>1, <1>2
    <3> QED BY <3>1 DEF Elements
  <2> QED BY <2>1, <2>2 DEF Elements
<1>5. ASSUME Distinct(s)
      PROVE  Distinct(Tail(s))
  BY <1>1, <1>2, <1>5 DEF Distinct
<1> QED BY <1>1, <1>3, <1>4, <1>5

(* An order of some threads of S is a sequence of distinct threads of S. *)
LEMMA OrderElements ==
    ASSUME NEW S, NEW ws \in OrdersOf(S)
    PROVE  ws \in Seq(S) /\ Elements(ws) \subseteq S /\ Distinct(ws)
<1>1. PICK n \in 0..Cardinality(S) : ws \in [1..n -> S]
  BY DEF OrdersOf
<1>2. n \in Nat
  OBVIOUS
<1>3. ws \in Seq(S)
  BY <1>1, <1>2
<1>4. Elements(ws) \subseteq S
  BY <1>3, ElementOfSeq DEF Elements
<1> QED BY <1>3, <1>4 DEF OrdersOf
-----------------------------------------------------------------------------
(* Running the head of the ready list, with the old thread appended to the *)
(* rest (Yield) or not (Dispatch).                                         *)
LEMMA RunInv ==
    ASSUME SchedInv, readyList # <<>>,
           NEW rl \in Seq(Thread), NEW st \in [Thread -> Status],
           Distinct(rl), Head(readyList) \notin Elements(rl),
           Elements(rl) = {t \in Thread : st[t] = "READY"} \ {Head(readyList)},
           \A t \in Thread : st[t] # "RUNNING",
           \A t \in finished : st[t] = "BLOCKED",
           resume' \in [Thread -> {"new", "yield", "sleep"}],
           Run(Head(readyList), rl, st)
    PROVE  SchedInv'
<1> DEFINE next == Head(readyList)
<1>1. next \in Thread /\ status[next] = "READY"
  BY TailElements DEF SchedInv, SchedTypeOK, ReadyListSound
<1>2. Carcass(next) \subseteq finished /\ next \notin finished
  BY <1>1, ThreadAssumption DEF SchedInv, FinishedStopped, Carcass
<1> HIDE DEF next
<1>3. Run(next, rl, st) /\ next \notin Elements(rl)
      /\ Elements(rl) = {t \in Thread : st[t] = "READY"} \ {next}
  BY DEF next
<1>4. SchedTypeOK'
  BY <1>1, <1>2, <1>3 DEF SchedInv, SchedTypeOK, Run, Status
<1>5. ReadyListSound'
  <2>1. \A t \in Thread : status'[t] = "READY" <=> t # next /\ st[t] = "READY"
    BY <1>1, <1>2, <1>3 DEF Run
  <2>2. Elements(rl) = {t \in Thread : status'[t] = "READY"}
    BY <1>3, <2>1
  <2>3. \A t \in Thread : status'[t] = "RUNNING" => t = next
    BY <1>3 DEF Run
  <2> QED BY <2>2, <2>3, <1>3 DEF ReadyListSound, Run
<1>6. FinishedStopped'
  <2>1. finished' \subseteq finished /\ finished \subseteq Thread
    BY <1>3 DEF SchedInv, SchedTypeOK, Run
  <2>2. \A t \in finished' : status'[t] = "BLOCKED"
    BY <1>2, <1>3, <2>1 DEF Run
  <2>3. threadToBeDestroyed' \in finished' \cup {NULL}
    BY <1>3 DEF Run, Carcass, SchedInv, FinishedStopped
  <2> QED BY <2>2, <2>3 DEF FinishedStopped
<1> QED BY <1>4, <1>5, <1>6 DEF SchedInv

(* Handing sleeping threads to ReadyToRun keeps the ready list sound. *)
LEMMA ReadiedSound ==
    ASSUME SchedInv, NEW ws \in Seq(Thread), Distinct(ws),
           Elements(ws) \subseteq Sleepers
    PROVE  /\ ReadyListWith(ws) \in Seq(Thread)
           /\ Readied(ws) \in [Thread -> Status]
           /\ Distinct(ReadyListWith(ws))
           /\ Elements(ReadyListWith(ws)) =
                 {t \in Thread : Readied(ws)[t] = "READY"}
           /\ \A t \in Thread : Readied(ws)[t] = "RUNNING" => status[t] = "RUNNING"
           /\ \A t \in finished : Readied(ws)[t] = "BLOCKED"
<1>1. /\ readyList \in Seq(Thread)
      /\ Distinct(readyList)
      /\ Elements(readyList) = {t \in Thread : status[t] = "READY"}
      /\ status \in [Thread -> Status]
  BY DEF SchedInv, SchedTypeOK, ReadyListSound
<1>2. Elements(readyList) \cap Elements(ws) = {}
  BY <1>1 DEF Sleepers
<1>3. /\ ReadyListWith(ws) \in Seq(Thread)
      /\ Elements(ReadyListWith(ws)) = Elements(readyList) \cup Elements(ws)
      /\ Distinct(ReadyListWith(ws))
  BY <1>1, <1>2, ConcatElements DEF ReadyListWith
<1>4. Readied(ws) \in [Thread -> Status]
  BY <1>1 DEF Readied, Status
<1>5. \A t \in Thread : Readied(ws)[t] = "READY" <=>
                            t \in Elements(ws) \/ status[t] = "READY"
  BY DEF Readied
<1>6. Elements(ws) \subseteq Thread
  BY DEF Sleepers
<1>7. Elements(ReadyListWith(ws)) = {t \in Thread : Readied(ws)[t] = "READY"}
  BY <1>1, <1>3, <1>5, <1>6
<1>8. \A t \in Thread : Readied(ws)[t] = "RUNNING" => status[t] = "RUNNING"
  BY DEF Readied
<1>9. \A t \in finished : Readied(ws)[t] = "BLOCKED"
  BY DEF Readied, Sleepers, SchedInv, SchedTypeOK, FinishedStopped
<1> QED BY <1>3, <1>4, <1>7, <1>8, <1>9

LEMMA WakeInv ==
    ASSUME SchedInv, NEW ws \in Seq(Thread), Distinct(ws),
           Elements(ws) \subseteq Sleepers, Wake(ws)
    PROVE  SchedInv'
BY ReadiedSound
   DEF Wake, SchedInv, SchedTypeOK, ReadyListSound, FinishedStopped

LEMMA WakeThenSleepInv ==
    ASSUME SchedInv, NEW ws \in Seq(Thread), Distinct(ws),
           Elements(ws) \subseteq Sleepers, WakeThenSleep(ws)
    PROVE  SchedInv'
<1>1. currentThread \notin Elements(ws) /\ status[currentThread] = "RUNNING"
  BY DEF WakeThenSleep, Executing, Sleepers
<1>2. Readied(ws)[currentThread] = "RUNNING" /\ currentThread \in Thread
  BY <1>1 DEF Readied, SchedInv, SchedTypeOK
<1>3. /\ ReadyListWith(ws) \in Seq(Thread)
      /\ Readied(ws) \in [Thread -> Status]
      /\ Distinct(ReadyListWith(ws))
      /\ Elements(ReadyListWith(ws)) =
            {t \in Thread : Readied(ws)[t] = "READY"}
      /\ \A t \in Thread : Readied(ws)[t] = "RUNNING" => status[t] = "RUNNING"
      /\ \A t \in finished : Readied(ws)[t] = "BLOCKED"
  BY ReadiedSound
<1>4. SchedTypeOK'
  BY <1>3 DEF WakeThenSleep, Sleep, SchedInv, SchedTypeOK, Status
<1>5. \A t \in Thread :
         status'[t] = IF t = currentThread THEN "BLOCKED" ELSE Readied(ws)[t]
  BY <1>2, <1>3 DEF WakeThenSleep, Sleep
<1>6. Elements(readyList') = {t \in Thread : status'[t] = "READY"}
  BY <1>2, <1>3, <1>5 DEF WakeThenSleep, Sleep
<1>7. ReadyListSound'
  BY <1>3, <1>5, <1>6
     DEF WakeThenSleep, Sleep, ReadyListSound, SchedInv
<1>8. FinishedStopped'
  BY <1>3, <1>5 DEF WakeThenSleep, SchedInv, SchedTypeOK, FinishedStopped
<1> QED BY <1>4, <1>7, <1>8 DEF SchedInv
-----------------------------------------------------------------------------
LEMMA SchedInitInv == SchedInit => SchedInv
<1> SUFFICES ASSUME SchedInit PROVE SchedInv
  OBVIOUS
<1>1. readyList \in Seq(Thread) /\ Elements(readyList) = {} /\ Distinct(readyList)
  BY EmptyElements DEF SchedInit
<1>2. SchedTypeOK
  BY <1>1, ThreadAssumption DEF SchedInit, SchedTypeOK, Status
<1>3. ReadyListSound
  BY <1>1 DEF SchedInit, ReadyListSound
<1>4. FinishedStopped
  BY DEF SchedInit, FinishedStopped
<1> QED BY <1>2, <1>3, <1>4 DEF SchedInv

LEMMA NewThreadInv ==
    ASSUME SchedInv, NEW t \in Thread, NewThread(t)
    PROVE  SchedInv'
BY DEF SchedInv, SchedTypeOK, ReadyListSound, FinishedStopped, NewThread, Status

LEMMA ForkInv ==
    ASSUME SchedInv, NEW t \in Thread, Fork(t)
    PROVE  SchedInv'
<1> DEFINE w == <<t>>
<1>1. w \in Seq(Thread) /\ Elements(w) = {t} /\ Distinct(w)
  BY SingletonElements
<1>2. readyList' = readyList \o w /\ status' = Readied(w)
  BY DEF Fork, ReadyListWith
<1> HIDE DEF w
<1>3. /\ status[t] = "JUST_CREATED"
      /\ readyList \in Seq(Thread)
      /\ Distinct(readyList)
      /\ Elements(readyList) = {u \in Thread : status[u] = "READY"}
      /\ status \in [Thread -> Status]
  BY DEF SchedInv, SchedTypeOK, ReadyListSound, Fork
<1>4. Elements(readyList) \cap Elements(w) = {}
  BY <1>1, <1>3
<1>5. /\ readyList' \in Seq(Thread)
      /\ Elements(readyList') = Elements(readyList) \cup {t}
      /\ Distinct(readyList')
  BY <1>1, <1>2, <1>3, <1>4, ConcatElements
<1>6. status' = [u \in Thread |-> IF u = t THEN "READY" ELSE status[u]]
  BY <1>1, <1>2 DEF Readied
<1>7. SchedTypeOK'
  BY <1>3, <1>5, <1>6 DEF SchedInv, SchedTypeOK, Fork, Status
<1>8. ReadyListSound'
  BY <1>3, <1>5, <1>6 DEF SchedInv, ReadyListSound, Fork
<1>9. FinishedStopped'
  BY <1>3, <1>6 DEF SchedInv, SchedTypeOK, FinishedStopped, Fork
<1> QED BY <1>7, <1>8, <1>9 DEF SchedInv

LEMMA YieldInv == SchedInv /\ Yield => SchedInv'
<1> SUFFICES ASSUME SchedInv, Yield PROVE SchedInv'
  OBVIOUS
<1> DEFINE tl == Tail(readyList)
           rl == Append(tl, currentThread)
           st == [status EXCEPT ![currentThread] = "READY"]
<1>1. /\ readyList \in Seq(Thread) /\ readyList # <<>>
      /\ Distinct(readyList)
      /\ Elements(readyList) = {t \in Thread : status[t] = "READY"}
      /\ currentThread \in Thread
      /\ status \in [Thread -> Status]
      /\ status[currentThread] = "RUNNING"
      /\ \A t \in Thread : status[t] = "RUNNING" => t = currentThread
      /\ finished \subseteq Thread
      /\ \A t \in finished : status[t] = "BLOCKED"
  BY DEF SchedInv, SchedTypeOK, ReadyListSound, FinishedStopped, Yield,
         Preemptible, Executing
<1>2. /\ tl \in Seq(Thread)
      /\ Distinct(tl)
      /\ Elements(tl) = Elements(readyList) \ {Head(readyList)}
      /\ Head(readyList) \in Elements(readyList)
  BY <1>1, TailElements
<1>3. currentThread \notin Elements(readyList)
  BY <1>1
<1>4. /\ rl \in Seq(Thread)
      /\ Elements(rl) = Elements(tl) \cup {currentThread}
      /\ Distinct(rl)
  <2> HIDE DEF tl
  <2> QED BY <1>1, <1>2, <1>3, AppendElements
<1>5. st \in [Thread -> Status] /\ \A t \in Thread : st[t] # "RUNNING"
  BY <1>1 DEF Status
<1>6. \A t \in finished : st[t] = "BLOCKED"
  BY <1>1
<1>7. {t \in Thread : st[t] = "READY"} = Elements(readyList) \cup {currentThread}
  BY <1>1
<1>8. Run(Head(readyList), rl, st)
      /\ resume' \in [Thread -> {"new", "yield", "sleep"}]
  BY DEF Yield, SchedInv, SchedTypeOK
<1> HIDE DEF rl, st
<1>9. /\ Elements(rl) = {t \in Thread : st[t] = "READY"} \ {Head(readyList)}
      /\ Head(readyList) \notin Elements(rl)
  BY <1>2, <1>3, <1>4, <1>7
<1> QED BY <1>1, <1>4, <1>5, <1>6, <1>8, <1>9, RunInv

LEMMA DispatchInv == SchedInv /\ Dispatch => SchedInv'
<1> SUFFICES ASSUME SchedInv, Dispatch PROVE SchedInv'
  OBVIOUS
<1>1. /\ readyList \in Seq(Thread) /\ readyList # <<>>
      /\ Distinct(readyList)
      /\ Elements(readyList) = {t \in Thread : status[t] = "READY"}
      /\ status \in [Thread -> Status]
      /\ \A t \in Thread : status[t] # "RUNNING"
      /\ \A t \in finished : status[t] = "BLOCKED"
      /\ resume' \in [Thread -> {"new", "yield", "sleep"}]
      /\ Run(Head(readyList), Tail(readyList), status)
  BY DEF SchedInv, SchedTypeOK, ReadyListSound, FinishedStopped, Dispatch,
         Executing
<1>2. /\ Tail(readyList) \in Seq(Thread)
      /\ Distinct(Tail(readyList))
      /\ Elements(Tail(readyList)) = Elements(readyList) \ {Head(readyList)}
  BY <1>1, TailElements
<1> QED BY <1>1, <1>2, RunInv

LEMMA FinishInv == SchedInv /\ Finish => SchedInv'
<1> SUFFICES ASSUME SchedInv, Finish PROVE SchedInv'
  OBVIOUS
<1>1. status[currentThread] = "RUNNING" /\ currentThread \in Thread
  BY DEF Finish, Preemptible, Executing, SchedInv, SchedTypeOK
<1>2. status' = [status EXCEPT ![currentThread] = "BLOCKED"]
      /\ readyList' = readyList
  BY DEF Finish, Sleep
<1>3. SchedTypeOK'
  BY <1>1, <1>2 DEF Finish, Sleep, SchedInv, SchedTypeOK, Status
<1>4. ReadyListSound'
  BY <1>1, <1>2 DEF Finish, Sleep, SchedInv, SchedTypeOK, ReadyListSound
<1>5. FinishedStopped'
  BY <1>1, <1>2 DEF Finish, SchedInv, SchedTypeOK, FinishedStopped
<1> QED BY <1>3, <1>4, <1>5 DEF SchedInv

LEMMA EnableInterruptsInv == SchedInv /\ EnableInterrupts => SchedInv'
BY DEF SchedInv, SchedTypeOK, ReadyListSound, FinishedStopped, EnableInterrupts

LEMMA SchedNextInv == SchedInv /\ [SchedNext]_schedVars => SchedInv'
<1> SUFFICES ASSUME SchedInv, [SchedNext]_schedVars PROVE SchedInv'
  OBVIOUS
<1>1. ASSUME NEW t \in Thread, NewThread(t) PROVE SchedInv'
  BY <1>1, NewThreadInv
<1>2. ASSUME NEW t \in Thread, Fork(t) PROVE SchedInv'
  BY <1>2, ForkInv
<1>3. CASE Yield
  BY <1>3, YieldInv
<1>4. CASE Dispatch
  BY <1>4, DispatchInv
<1>5. CASE Finish
  BY <1>5, FinishInv
<1>6. ASSUME NEW ws \in OrdersOf(Sleepers), Wake(ws) \/ WakeThenSleep(ws)
      PROVE  SchedInv'
  <2>1. ws \in Seq(Sleepers) /\ Elements(ws) \subseteq Sleepers /\ Distinct(ws)
    BY <1>6, OrderElements
  <2>2. ws \in Seq(Thread)
    BY <2>1, SeqMonotonic DEF Sleepers
  <2> QED BY <1>6, <2>1, <2>2, WakeInv, WakeThenSleepInv
<1>7. CASE EnableInterrupts
  BY <1>7, EnableInterruptsInv
<1>8. CASE UNCHANGED schedVars
  BY <1>8 DEF schedVars, SchedInv, SchedTypeOK, ReadyListSound, FinishedStopped
<1> QED BY <1>1, <1>2, <1>3, <1>4, <1>5, <1>6, <1>7, <1>8 DEF SchedNext

(* The inductive invariant of the scheduler holds in every behaviour. *)
THEOREM SchedInvariant == SchedSpec => []SchedInv
BY SchedInitInv, SchedNextInv, PTL DEF SchedSpec

(* The variables of thread.cc and scheduler.cc keep their types. *)
THEOREM SchedTypeCorrect == SchedSpec => []SchedTypeOK
BY SchedInvariant, PTL DEF SchedInv

(* The ready list holds exactly the READY threads, each once, and only the *)
(* current thread is RUNNING, for any number of threads.                   *)
THEOREM ReadyListCorrect == SchedSpec => []ReadyListSound
BY SchedInvariant, PTL DEF SchedInv

(* Only Run deletes a thread, and then a finished one that neither runs    *)
(* nor can be dispatched.                                                  *)
LEMMA RunDestroysSafely ==
    ASSUME SchedInv, SchedInv', readyList # <<>>,
           NEW rl, NEW st, \A t \in Thread : status[t] # "NONE" => st[t] # "NONE",
           Run(Head(readyList), rl, st)
    PROVE  DestroysSafely
<1> SUFFICES ASSUME NEW t \in Thread, status[t] # "NONE", status'[t] = "NONE"
             PROVE  /\ t \in finished
                    /\ t # currentThread'
                    /\ t \notin Elements(readyList')
  BY DEF DestroysSafely
<1>1. t # Head(readyList) /\ t \in Carcass(Head(readyList))
  BY DEF Run
<1>2. t \in finished
  BY <1>1 DEF Carcass, SchedInv, FinishedStopped
<1>3. t \notin Elements(readyList')
  BY DEF SchedInv, ReadyListSound
<1> QED BY <1>1, <1>2, <1>3 DEF Run

LEMMA NextDestroysSafely ==
    ASSUME SchedInv, SchedInv', [SchedNext]_schedVars
    PROVE  DestroysSafely
<1>1. CASE Yield
  <2> DEFINE st == [status EXCEPT ![currentThread] = "READY"]
  <2>1. \A t \in Thread : status[t] # "NONE" => st[t] # "NONE"
    BY DEF SchedInv, SchedTypeOK
  <2> QED BY <1>1, <2>1, RunDestroysSafely DEF Yield
<1>2. CASE Dispatch
  BY <1>2, RunDestroysSafely DEF Dispatch
<1>3. ASSUME ~Yield, ~Dispatch
      PROVE  \A t \in Thread : status'[t] = "NONE" => status[t] = "NONE"
  BY <1>3 DEF SchedNext, NewThread, Fork, Finish, Wake, WakeThenSleep, Sleep,
              EnableInterrupts, Readied, schedVars, SchedInv, SchedTypeOK
<1> QED BY <1>1, <1>2, <1>3 DEF DestroysSafely

(* The destructor call in Scheduler::Run never frees a thread that is      *)
(* running or can still be dispatched, for any number of threads.          *)
THEOREM DestroyIsSafe == SchedSpec => SafeDestroy
<1>1. SchedInv /\ SchedInv' /\ [SchedNext]_schedVars
         => [DestroysSafely]_schedVars
  BY NextDestroysSafely
<1> QED BY <1>1, SchedInvariant, PTL DEF SchedSpec, SafeDestroy

-----------------------------------------------------------------------------
(* Synch. *)
(* What each use of the scheduler does to the sets of sleeping and of      *)
(* awake threads.                                                          *)
LEMMA RunningIsAwake ==
    ASSUME SchedInv, Executing
    PROVE  /\ currentThread \in Thread
           /\ currentThread \in Awake
           /\ currentThread \notin Sleepers
           /\ currentThread \notin finished
BY Zenon DEF SchedInv, SchedTypeOK, FinishedStopped, Executing, Awake, Sleepers

LEMMA WakeSets ==
    ASSUME SchedInv, NEW ws, Elements(ws) \subseteq Sleepers, Wake(ws)
    PROVE  /\ Sleepers' = Sleepers \ Elements(ws)
           /\ Awake' = Awake \cup Elements(ws)
           /\ currentThread' = currentThread
BY Zenon DEF Wake, Readied, Sleepers, Awake

LEMMA WakeThenSleepSets ==
    ASSUME SchedInv, NEW ws, Elements(ws) \subseteq Sleepers, WakeThenSleep(ws)
    PROVE  /\ Sleepers' = (Sleepers \ Elements(ws)) \cup {currentThread}
           /\ Awake' = (Awake \cup Elements(ws)) \ {currentThread}
           /\ currentThread' = currentThread
<1>1. currentThread \in Thread /\ currentThread \notin finished
  BY RunningIsAwake, Zenon DEF WakeThenSleep
<1>2. \A t \in Thread :
         status'[t] = IF t = currentThread THEN "BLOCKED"
                      ELSE IF t \in Elements(ws) THEN "READY" ELSE status[t]
  BY <1>1, Zenon DEF WakeThenSleep, Sleep, Readied
<1>3. finished' = finished /\ currentThread' = currentThread
  BY Zenon DEF WakeThenSleep, Sleep
<1> QED BY <1>1, <1>2, <1>3 DEF Sleepers, Awake

LEMMA RunSets ==
    ASSUME SchedInv, readyList # <<>>, NEW rl, NEW st,
           \A t \in Thread : st[t] = "BLOCKED" <=> status[t] = "BLOCKED",
           \A t \in Thread : st[t] \in {"READY", "RUNNING"} <=> t \in Awake,
           Run(Head(readyList), rl, st)
    PROVE  Sleepers' = Sleepers /\ Awake' = Awake
<1> DEFINE next == Head(readyList)
<1>1. next \in Thread /\ status[next] = "READY"
  BY TailElements, Zenon DEF SchedInv, SchedTypeOK, ReadyListSound
<1>2. \A t \in Carcass(next) : t \in finished /\ status[t] = "BLOCKED"
  BY Zenon DEF SchedInv, FinishedStopped, Carcass
<1>3. Run(next, rl, st)
  BY Zenon
<1> HIDE DEF next
<1>4. \A t \in Thread : status'[t] = IF t = next THEN "RUNNING"
                                     ELSE IF t \in Carcass(next) THEN "NONE"
                                     ELSE st[t]
  BY <1>3, Zenon DEF Run
<1>5. finished' = finished \ Carcass(next)
  BY <1>3, Zenon DEF Run
<1> QED BY <1>1, <1>2, <1>4, <1>5 DEF Sleepers, Awake

LEMMA SwitchSets ==
    ASSUME SchedInv, Yield \/ Dispatch
    PROVE  Sleepers' = Sleepers /\ Awake' = Awake
<1>1. CASE Yield
  <2> DEFINE st == [status EXCEPT ![currentThread] = "READY"]
  <2>1. /\ \A t \in Thread : st[t] = "BLOCKED" <=> status[t] = "BLOCKED"
        /\ \A t \in Thread : st[t] \in {"READY", "RUNNING"} <=> t \in Awake
    BY <1>1, Zenon DEF Yield, Preemptible, Executing, SchedInv, SchedTypeOK, Awake
  <2> HIDE DEF st
  <2> QED BY <1>1, <2>1, RunSets, Zenon DEF Yield, st
<1>2. CASE Dispatch
  BY <1>2, RunSets, Zenon DEF Dispatch, Awake
<1> QED BY <1>1, <1>2

LEMMA CreateSets ==
    ASSUME SchedInv, NEW t \in Thread, NewThread(t) \/ Fork(t)
    PROVE  Sleepers' = Sleepers /\ Awake \subseteq Awake' /\ Awake' \subseteq Awake \cup {t}
<1>1. CASE NewThread(t)
  BY <1>1, Zenon DEF NewThread, SchedInv, SchedTypeOK, Sleepers, Awake
<1>2. CASE Fork(t)
  <2>1. Elements(<<t>>) = {t}
    BY SingletonElements, Zenon
  <2>2. status' = [u \in Thread |-> IF u = t THEN "READY" ELSE status[u]]
    BY <1>2, <2>1, Zenon DEF Fork, Readied
  <2> QED BY <1>2, <2>2 DEF Fork, Sleepers, Awake
<1> QED BY <1>1, <1>2

LEMMA FinishSets ==
    ASSUME SchedInv, Finish
    PROVE  Sleepers' = Sleepers /\ Awake' = Awake \ {currentThread}
BY Zenon DEF Finish, Preemptible, Executing, Sleep, SchedInv, SchedTypeOK, Sleepers, Awake

LEMMA EnableInterruptsSets ==
    ASSUME EnableInterrupts
    PROVE  Sleepers' = Sleepers /\ Awake' = Awake /\ currentThread' = currentThread
BY Zenon DEF EnableInterrupts, Sleepers, Awake

-----------------------------------------------------------------------------
(* Taking the first threads of a queue splits it in two. *)
LEMMA RemoveFromQueue ==
    ASSUME NEW q \in Seq(Thread), Distinct(q), NEW n \in Nat
    PROVE  /\ First(q, n) \in Seq(Thread) /\ Distinct(First(q, n))
           /\ Rest(q, n) \in Seq(Thread) /\ Distinct(Rest(q, n))
           /\ Elements(First(q, n)) \subseteq Elements(q)
           /\ Elements(Rest(q, n)) = Elements(q) \ Elements(First(q, n))
           /\ Len(Rest(q, n)) = Len(q) - Removed(q, n)
<1> DEFINE r == Removed(q, n)
<1>1. Len(q) \in Nat /\ r \in Nat /\ r <= Len(q)
  BY LenProperties DEF Removed
<1>2. \A i \in 1..Len(q) : q[i] \in Thread
  BY ElementOfSeq, Zenon
<1> HIDE DEF r
<1> DEFINE a == SubSeq(q, 1, r)
           b == SubSeq(q, r + 1, Len(q))
<1>3. /\ a \in Seq(Thread)
      /\ Len(a) = r
      /\ \A i \in 1..r : a[i] = q[i]
  <2>1. \A i \in 1..r : q[i] \in Thread
    BY <1>1, <1>2
  <2> QED BY <1>1, <2>1, SubSeqProperties
<1>4. /\ b \in Seq(Thread)
      /\ Len(b) = Len(q) - r
      /\ \A i \in 1..(Len(q) - r) : b[i] = q[r + i]
  <2>1. \A i \in (r + 1)..Len(q) : q[i] \in Thread
    BY <1>1, <1>2
  <2> QED BY <1>1, <2>1, SubSeqProperties
<1> HIDE DEF a, b
<1>5. Distinct(a) /\ Elements(a) \subseteq Elements(q)
  BY <1>1, <1>3 DEF Distinct, Elements
<1>6. Distinct(b)
  <2> SUFFICES ASSUME NEW i \in 1..(Len(q) - r), NEW j \in 1..(Len(q) - r),
                      b[i] = b[j]
               PROVE  i = j
    BY <1>4, Zenon DEF Distinct
  <2>1. r + i \in 1..Len(q) /\ r + j \in 1..Len(q) /\ q[r + i] = q[r + j]
    BY <1>1, <1>4
  <2>2. r + i = r + j
    BY <2>1, Zenon DEF Distinct
  <2> QED BY <2>2, <1>1
<1>7. Elements(b) \subseteq Elements(q) \ Elements(a)
  <2> SUFFICES ASSUME NEW i \in 1..(Len(q) - r)
               PROVE  b[i] \in Elements(q) /\ b[i] \notin Elements(a)
    BY <1>4, Zenon DEF Elements
  <2>1. r + i \in 1..Len(q) /\ b[i] = q[r + i]
    BY <1>1, <1>4
  <2>2. \A k \in 1..r : a[k] # q[r + i]
    <3> SUFFICES ASSUME NEW k \in 1..r, q[k] = q[r + i]
                 PROVE  FALSE
      BY <1>3, Zenon
    <3>1. k \in 1..Len(q)
      BY <1>1
    <3>2. k = r + i
      BY <3>1, <2>1, Zenon DEF Distinct
    <3> QED BY <3>2, <1>1
  <2> QED BY <2>1, <2>2, <1>3 DEF Elements
<1>8. ASSUME NEW k \in 1..Len(q), q[k] \notin Elements(a)
      PROVE  q[k] \in Elements(b)
  <2>1. ~(k \in 1..r)
    BY <1>3, <1>8, Zenon DEF Elements
  <2>2. k - r \in 1..(Len(q) - r) /\ b[k - r] = q[k]
    BY <2>1, <1>1, <1>4
  <2> QED BY <2>2, <1>4 DEF Elements
<1>9. Elements(b) = Elements(q) \ Elements(a)
  BY <1>7, <1>8, Zenon DEF Elements
<1> QED BY <1>3, <1>4, <1>5, <1>6, <1>9 DEF First, Rest, a, b, r

(* One Remove from a queue that is not empty takes exactly one thread. *)
LEMMA RemoveOne ==
    ASSUME NEW q \in Seq(Thread), q # <<>>
    PROVE  Elements(First(q, 1)) = {q[1]} /\ q[1] \in Elements(q)
<1>1. Len(q) \in Nat /\ Len(q) >= 1
  BY EmptySeq
<1>2. Removed(q, 1) = 1
  BY <1>1, Zenon DEF Removed
<1>3. q[1] \in Thread
  BY <1>1, ElementOfSeq
<1> DEFINE a == SubSeq(q, 1, 1)
<1>4. Len(a) = 1 /\ a[1] = q[1]
  BY <1>3, SubSeqProperties
<1> HIDE DEF a
<1>5. Elements(a) = {q[1]}
  BY <1>4 DEF Elements
<1>6. First(q, 1) = a
  BY <1>2, Zenon DEF First, a
<1>7. q[1] \in Elements(q)
  BY <1>1 DEF Elements
<1> QED BY <1>5, <1>6, <1>7

(* Nothing can be removed from an empty queue. *)
LEMMA RemoveNone ==
    ASSUME NEW q \in Seq(Thread), NEW n \in Nat, q = <<>>
    PROVE  First(q, n) = <<>> /\ Rest(q, n) = <<>>
<1>1. Len(q) = 0 /\ Removed(q, n) = 0
  BY DEF Removed
<1> QED BY <1>1, SubSeqEmpty DEF First, Rest

-----------------------------------------------------------------------------
(* The queues after waking the first n threads of one of them, ... *)
LEMMA AfterWakeFirst ==
    ASSUME SynchInv, NEW o \in Object, NEW n \in Nat, WakeFirst(o, n), call' = call
    PROVE  /\ SchedInv'
           /\ queue' \in [Object -> Seq(Thread)]
           /\ WaitersSound'
           /\ Elements(First(queue[o], n)) \subseteq Sleepers
           /\ Awake' = Awake \cup Elements(First(queue[o], n))
<1> DEFINE q == queue[o]
           ws == First(q, n)
<1>1. q \in Seq(Thread) /\ Distinct(q) /\ queue \in [Object -> Seq(Thread)]
  BY Zenon DEF SynchInv, SynchTypeOK, WaitersSound
<1>2. /\ ws \in Seq(Thread) /\ Distinct(ws)
      /\ Rest(q, n) \in Seq(Thread) /\ Distinct(Rest(q, n))
      /\ Elements(ws) \subseteq Elements(q)
      /\ Elements(Rest(q, n)) = Elements(q) \ Elements(ws)
  BY <1>1, RemoveFromQueue, Zenon
<1>3. Wake(ws) /\ queue' = [queue EXCEPT ![o] = Rest(q, n)]
  BY Zenon DEF WakeFirst
<1>4. \A p \in Object, t \in Thread :
         t \in Elements(queue[p]) <=> t \in Sleepers /\ call[t].on = p
  BY Zenon DEF SynchInv, WaitersSound
<1>5. Elements(q) \subseteq Thread
  BY <1>1, ElementOfSeq, Zenon DEF Elements
<1>6. Elements(ws) \subseteq Sleepers
  BY <1>2, <1>4, <1>5, Zenon
<1> HIDE DEF ws
<1>7. SchedInv'
  BY <1>2, <1>3, <1>6, WakeInv, Zenon DEF SynchInv
<1>8. /\ Sleepers' = Sleepers \ Elements(ws)
      /\ Awake' = Awake \cup Elements(ws)
  BY <1>3, <1>6, WakeSets, Zenon DEF SynchInv
<1>9. /\ queue' \in [Object -> Seq(Thread)]
      /\ queue'[o] = Rest(q, n)
      /\ \A p \in Object : p # o => queue'[p] = queue[p]
  BY <1>1, <1>2, <1>3, Zenon
<1>10. \A t \in Elements(ws) : call[t].on = o
  BY <1>2, <1>4, <1>5, Zenon
<1> HIDE DEF q
<1>11. \A p \in Object, t \in Thread :
          t \in Elements(queue'[p]) <=> t \in Sleepers' /\ call[t].on = p
  <2> SUFFICES ASSUME NEW p \in Object, NEW t \in Thread
               PROVE  t \in Elements(queue'[p]) <=> t \in Sleepers' /\ call[t].on = p
    BY Zenon
  <2>1. CASE p = o
    BY <2>1, <1>2, <1>4, <1>8, <1>9 DEF q
  <2>2. CASE p # o
    BY <2>2, <1>4, <1>8, <1>9, <1>10
  <2> QED BY <2>1, <2>2
<1>12. \A p \in Object : Distinct(queue'[p])
  BY <1>2, <1>9 DEF SynchInv, WaitersSound
<1>13. \A t \in Sleepers' : call[t] # NoCall
  BY <1>8, Zenon DEF SynchInv, WaitersSound
<1>14. WaitersSound'
  BY <1>11, <1>12, <1>13, Zenon DEF WaitersSound, NoCall
<1> QED BY <1>6, <1>7, <1>8, <1>9, <1>14 DEF ws, q

(* ... after the current thread went to sleep in one, ... *)
LEMMA AfterSleepOn ==
    ASSUME SynchInv, NEW o \in Object, NEW c \in Call, c.on = o, c # NoCall,
           SleepOn(o, c)
    PROVE  /\ SchedInv'
           /\ queue' \in [Object -> Seq(Thread)]
           /\ call' \in [Thread -> Call]
           /\ WaitersSound'
           /\ Awake' = Awake \ {currentThread}
<1> DEFINE q == queue[o]
           e == <<>>
<1>1. q \in Seq(Thread) /\ Distinct(q) /\ queue \in [Object -> Seq(Thread)]
  BY Zenon DEF SynchInv, SynchTypeOK, WaitersSound
<1>2. \A p \in Object, t \in Thread :
         t \in Elements(queue[p]) <=> t \in Sleepers /\ call[t].on = p
  BY Zenon DEF SynchInv, WaitersSound
<1>3. /\ currentThread \in Thread
      /\ currentThread \notin Sleepers
  BY RunningIsAwake, Zenon DEF SleepOn, WakeThenSleep, SynchInv
<1>4. e \in Seq(Thread) /\ Elements(e) = {} /\ Distinct(e)
  BY EmptyElements, Zenon
<1>5. WakeThenSleep(e)
  BY Zenon DEF SleepOn
<1> HIDE DEF e
<1>6. SchedInv'
  BY <1>4, <1>5, WakeThenSleepInv, Zenon DEF SynchInv
<1>7. /\ Sleepers' = Sleepers \cup {currentThread}
      /\ Awake' = Awake \ {currentThread}
  BY <1>4, <1>5, WakeThenSleepSets, Zenon DEF SynchInv
<1>8. queue' = [queue EXCEPT ![o] = Append(q, currentThread)]
      /\ call' = [call EXCEPT ![currentThread] = c]
  BY Zenon DEF SleepOn
<1> DEFINE a == Append(q, currentThread)
<1> HIDE DEF q
<1>9. /\ a \in Seq(Thread)
      /\ Elements(a) = Elements(q) \cup {currentThread}
      /\ Distinct(a)
  BY <1>1, <1>2, <1>3, AppendElements DEF q
<1> HIDE DEF a
<1>10. /\ queue' \in [Object -> Seq(Thread)]
       /\ queue'[o] = a
       /\ \A p \in Object : p # o => queue'[p] = queue[p]
  BY <1>1, <1>8, <1>9, Zenon DEF a
<1>11. /\ call' \in [Thread -> Call]
       /\ call'[currentThread] = c
       /\ \A t \in Thread : t # currentThread => call'[t] = call[t]
  BY <1>3, <1>8, Zenon DEF SynchInv, SynchTypeOK
<1>12. \A p \in Object, t \in Thread :
          t \in Elements(queue'[p]) <=> t \in Sleepers' /\ call'[t].on = p
  <2> SUFFICES ASSUME NEW p \in Object, NEW t \in Thread
               PROVE  t \in Elements(queue'[p]) <=> t \in Sleepers' /\ call'[t].on = p
    BY Zenon
  <2>1. CASE p = o
    BY <2>1, <1>2, <1>7, <1>9, <1>10, <1>11 DEF q
  <2>2. CASE p # o
    BY <2>2, <1>2, <1>3, <1>7, <1>10, <1>11
  <2> QED BY <2>1, <2>2
<1>13. \A p \in Object : Distinct(queue'[p])
  BY <1>9, <1>10, Zenon DEF SynchInv, WaitersSound
<1>14. \A t \in Sleepers' : call'[t] # NoCall
  BY <1>3, <1>7, <1>11, Zenon DEF SynchInv, WaitersSound, Sleepers
<1>15. WaitersSound'
  BY <1>12, <1>13, <1>14, Zenon DEF WaitersSound, NoCall
<1> QED BY <1>6, <1>7, <1>10, <1>11, <1>15

(* ... and after a step that leaves the queues and the sleepers alone and  *)
(* changes the call of a thread that is awake.                             *)
LEMMA QueuesKept ==
    ASSUME SynchInv, queue' = queue, Sleepers' = Sleepers,
           NEW t \in Thread, t \notin Sleepers, NEW c \in Call,
           call' = [call EXCEPT ![t] = c]
    PROVE  /\ queue' \in [Object -> Seq(Thread)]
           /\ call' \in [Thread -> Call]
           /\ WaitersSound'
<1>1. call' \in [Thread -> Call]
      /\ \A u \in Thread : u # t => call'[u] = call[u]
  BY Zenon DEF SynchInv, SynchTypeOK
<1>2. \A p \in Object, u \in Thread :
         u \in Elements(queue[p]) <=> u \in Sleepers /\ call'[u].on = p
  BY <1>1 DEF SynchInv, WaitersSound
<1>3. \A u \in Sleepers : call'[u] # NoCall
  BY <1>1, Zenon DEF SynchInv, WaitersSound, Sleepers
<1> QED BY <1>1, <1>2, <1>3 DEF SynchInv, SynchTypeOK, WaitersSound, NoCall

(* ... and after Wait, which removes from one queue and appends to another. *)
LEMMA AfterWait ==
    ASSUME SynchInv, NEW c \in Condition, NEW l \in Lock, Wait(c, l)
    PROVE  /\ SchedInv'
           /\ queue' \in [Object -> Seq(Thread)]
           /\ call' \in [Thread -> Call]
           /\ WaitersSound'
           /\ Elements(First(queue[l], 1)) \subseteq Sleepers
           /\ Awake' = (Awake \cup Elements(First(queue[l], 1))) \ {currentThread}
           /\ queue' = [queue EXCEPT ![c] = Append(queue[c], currentThread),
                                     ![l] = Rest(queue[l], 1)]
<1> DEFINE q == queue[l]
           ws == First(q, 1)
           w == queue[c]
           a == Append(w, currentThread)
<1>0. c \in Object /\ l \in Object /\ c # l
  BY SynchAssumption, Zenon DEF Object
<1>1. /\ q \in Seq(Thread) /\ Distinct(q) /\ queue \in [Object -> Seq(Thread)]
      /\ w \in Seq(Thread) /\ Distinct(w)
  BY <1>0, Zenon DEF SynchInv, SynchTypeOK, WaitersSound
<1>2. /\ ws \in Seq(Thread) /\ Distinct(ws)
      /\ Rest(q, 1) \in Seq(Thread) /\ Distinct(Rest(q, 1))
      /\ Elements(ws) \subseteq Elements(q)
      /\ Elements(Rest(q, 1)) = Elements(q) \ Elements(ws)
  BY <1>1, RemoveFromQueue, Zenon
<1>3. /\ WakeThenSleep(ws)
      /\ queue' = [queue EXCEPT ![c] = a, ![l] = Rest(q, 1)]
      /\ call' = [call EXCEPT ![currentThread] = InWait(c, l)]
  BY <1>0, <1>1, Zenon DEF Wait
<1>4. \A p \in Object, t \in Thread :
         t \in Elements(queue[p]) <=> t \in Sleepers /\ call[t].on = p
  BY Zenon DEF SynchInv, WaitersSound
<1>5. Elements(q) \subseteq Thread
  BY <1>1, ElementOfSeq, Zenon DEF Elements
<1>6. Elements(ws) \subseteq Sleepers
  BY <1>0, <1>2, <1>4, <1>5, Zenon
<1>7. currentThread \in Thread /\ currentThread \notin Sleepers
  BY RunningIsAwake, Zenon DEF Wait, Free, Preemptible, SynchInv
<1>8. \A t \in Elements(ws) : call[t].on = l
  BY <1>0, <1>2, <1>4, <1>5, Zenon
<1> HIDE DEF ws, w
<1>9. a \in Seq(Thread) /\ Distinct(a) /\ Elements(a) = Elements(w) \cup {currentThread}
  BY <1>0, <1>1, <1>4, <1>7, AppendElements DEF w
<1> HIDE DEF a
<1>10. SchedInv'
  BY <1>2, <1>3, <1>6, WakeThenSleepInv, Zenon DEF SynchInv
<1>11. /\ Sleepers' = (Sleepers \ Elements(ws)) \cup {currentThread}
       /\ Awake' = (Awake \cup Elements(ws)) \ {currentThread}
  BY <1>3, <1>6, WakeThenSleepSets, Zenon DEF SynchInv
<1>12. /\ queue' \in [Object -> Seq(Thread)]
       /\ queue'[c] = a
       /\ queue'[l] = Rest(q, 1)
       /\ \A p \in Object : p # c /\ p # l => queue'[p] = queue[p]
  BY <1>0, <1>1, <1>2, <1>3, <1>9, Zenon
<1>13. InWait(c, l) \in Call /\ InWait(c, l).on = c /\ InWait(c, l) # NoCall
  BY DEF Call, InWait, NoCall
<1>14. /\ call' \in [Thread -> Call]
       /\ call'[currentThread] = InWait(c, l)
       /\ \A t \in Thread : t # currentThread => call'[t] = call[t]
  BY <1>3, <1>7, <1>13, Zenon DEF SynchInv, SynchTypeOK
<1> HIDE DEF q
<1>15. \A p \in Object, t \in Thread :
          t \in Elements(queue'[p]) <=> t \in Sleepers' /\ call'[t].on = p
  <2> SUFFICES ASSUME NEW p \in Object, NEW t \in Thread
               PROVE  t \in Elements(queue'[p]) <=> t \in Sleepers' /\ call'[t].on = p
    BY Zenon
  <2>1. t \in Elements(queue[p]) <=> t \in Sleepers /\ call[t].on = p
    BY <1>4, Zenon
  <2>2. CASE t = currentThread
    BY <2>1, <2>2, <1>0, <1>2, <1>6, <1>7, <1>9, <1>11, <1>12, <1>13, <1>14 DEF q, w
  <2>3. CASE t # currentThread
    <3>1. call'[t].on = call[t].on /\ (t \in Sleepers' <=> t \in Sleepers \ Elements(ws))
      BY <2>3, <1>11, <1>14, Zenon
    <3>2. CASE p = c
      BY <3>1, <3>2, <2>1, <2>3, <1>0, <1>8, <1>9, <1>12 DEF w
    <3>3. CASE p = l
      BY <3>1, <3>3, <2>1, <1>2, <1>12, Zenon DEF q
    <3>4. CASE p # c /\ p # l
      BY <3>1, <3>4, <2>1, <1>8, <1>12
    <3> QED BY <3>2, <3>3, <3>4
  <2> QED BY <2>2, <2>3
<1>16. \A p \in Object : Distinct(queue'[p])
  BY <1>2, <1>9, <1>12, Zenon DEF SynchInv, WaitersSound
<1>17. \A t \in Sleepers' : call'[t] # NoCall
  BY <1>7, <1>11, <1>13, <1>14, Zenon DEF SynchInv, WaitersSound, Sleepers
<1>18. WaitersSound'
  BY <1>15, <1>16, <1>17, Zenon DEF WaitersSound, NoCall
<1> QED BY <1>3, <1>6, <1>10, <1>11, <1>12, <1>14, <1>18, Zenon DEF ws, q, a, w

-----------------------------------------------------------------------------
(* Woken threads can be counted. *)
LEMMA WokenFinite ==
    ASSUME NEW o
    PROVE  /\ IsFiniteSet(Woken(o)) /\ Cardinality(Woken(o)) \in Nat
           /\ IsFiniteSet(Woken(o)') /\ Cardinality(Woken(o)') \in Nat
<1>1. Woken(o) \subseteq Thread /\ Woken(o)' \subseteq Thread
  BY Zenon DEF Woken, Awake
<1> QED BY <1>1, ThreadAssumption, FS_Subset, FS_CardinalityType

(* No wake-up is lost if the step touches at most the object x and leaves  *)
(* that one well, and nobody stops being on the way to another.            *)
LEMMA ClaimsKept ==
    ASSUME SynchInv, NEW x,
           \A o \in Semaphore \cup Lock : o # x =>
              /\ queue'[o] # <<>> => queue[o] # <<>>
              /\ Woken(o) \subseteq Woken(o)',
           \A s \in Semaphore : s # x => value'[s] = value[s],
           \A l \in Lock : l # x => lockTaken'[l] = lockTaken[l],
           x \in Semaphore => UnitsClaimed(x)',
           x \in Lock => FreeLockClaimed(x)'
    PROVE  NoLostWakeup'
<1>1. ASSUME NEW s \in Semaphore
      PROVE  UnitsClaimed(s)'
  <2>1. CASE s # x
    <3>1. Cardinality(Woken(s)) <= Cardinality(Woken(s)')
      BY <2>1, WokenFinite, FS_Subset, Zenon
    <3>2. value[s] \in Nat
      BY DEF SynchInv, SynchTypeOK
    <3>3. queue[s] # <<>> => value[s] <= Cardinality(Woken(s))
      BY Zenon DEF SynchInv, NoLostWakeup, UnitsClaimed
    <3> QED BY <2>1, <3>1, <3>2, <3>3, WokenFinite DEF UnitsClaimed
  <2> QED BY <2>1
<1>2. ASSUME NEW l \in Lock
      PROVE  FreeLockClaimed(l)'
  <2>1. CASE l # x
    BY <2>1, Zenon DEF FreeLockClaimed, SynchInv, NoLostWakeup
  <2> QED BY <2>1
<1> QED BY <1>1, <1>2 DEF NoLostWakeup

(* A thread that is in no routine, or in one on object x, is not on its    *)
(* way to any other object.                                                *)
LEMMA CallFacts ==
    /\ NoCall \in Call /\ NULL \notin Object
    /\ \A o \in Object : NoCall.on # o
    /\ \A s \in Semaphore : InP(s) \in Call /\ InP(s).on = s /\ InP(s) # NoCall
    /\ \A l \in Lock : InAcquire(l) \in Call /\ InAcquire(l).on = l /\ InAcquire(l) # NoCall
BY SynchAssumption DEF Call, NoCall, InP, InAcquire, Object

LEMMA OtherClaimsKept ==
    ASSUME SynchInv, NEW x \in Object, NEW o \in Object, o # x,
           NEW t \in Thread, call[t] = NoCall \/ call[t].on = x,
           Awake \ {t} \subseteq Awake',
           \A u \in Thread : u # t => call'[u] = call[u]
    PROVE  Woken(o) \subseteq Woken(o)'
BY CallFacts, Zenon DEF Woken, Awake

LEMMA PInv ==
    ASSUME SynchInv, NEW s \in Semaphore, P(s)
    PROVE  SynchInv'
<1>1. /\ currentThread \in Thread /\ currentThread \notin Sleepers
      /\ s \in Object /\ s \notin Condition /\ s \notin Lock
      /\ call[currentThread] = NoCall \/ call[currentThread].on = s
  BY RunningIsAwake, CallFacts, SynchAssumption, Zenon DEF P, Free, SynchInv, Object
<1>2. value \in [Semaphore -> 0..MaxValue]
  BY Zenon DEF SynchInv, SynchTypeOK
<1>3. LocksOwned'
  BY Zenon DEF P, SynchInv, LocksOwned
<1>4. CASE value[s] = 0 /\ SleepOn(s, InP(s)) /\ UNCHANGED value
  <2>1. /\ SchedInv' /\ WaitersSound'
        /\ queue' \in [Object -> Seq(Thread)]
        /\ call' \in [Thread -> Call]
        /\ Awake' = Awake \ {currentThread}
    BY <1>1, <1>4, AfterSleepOn, CallFacts, Zenon
  <2>2. \A o \in Object : o # s => queue'[o] = queue[o]
    BY <1>4, Zenon DEF SleepOn, SynchInv, SynchTypeOK
  <2>3. SynchTypeOK'
    BY <2>1, <1>4, Zenon DEF P, SynchInv, SynchTypeOK
  <2>4. WaitersCounted'
    BY <2>2, <1>1, Zenon DEF P, SynchInv, WaitersCounted, Object
  <2>5. \A u \in Thread : u # currentThread => call'[u] = call[u]
    BY <1>4, Zenon DEF SleepOn, SynchInv, SynchTypeOK
  <2>6. UnitsClaimed(s)'
    BY <1>4, WokenFinite DEF UnitsClaimed
  <2>7. \A o \in Semaphore \cup Lock : o # s =>
           (queue'[o] # <<>> => queue[o] # <<>>) /\ Woken(o) \subseteq Woken(o)'
    BY <2>1, <2>2, <2>5, <1>1, OtherClaimsKept, Zenon DEF Object
  <2>8. lockTaken' = lockTaken
    BY Zenon DEF P
  <2>9. NoLostWakeup'
    BY <2>6, <2>7, <2>8, <1>1, <1>4, ClaimsKept, Zenon
  <2> QED BY <2>1, <2>3, <2>4, <2>9, <1>3 DEF SynchInv
<1>5. CASE /\ value[s] > 0
           /\ value' = [value EXCEPT ![s] = @ - 1]
           /\ Return
           /\ UNCHANGED queue
  <2>1. SchedInv'
    BY <1>5, EnableInterruptsInv, Zenon DEF Return, SynchInv
  <2>2. Sleepers' = Sleepers /\ Awake' = Awake
    BY <1>5, EnableInterruptsSets, Zenon DEF Return
  <2>3. call' = [call EXCEPT ![currentThread] = NoCall]
    BY <1>5, Zenon DEF Return
  <2>4. /\ WaitersSound'
        /\ queue' \in [Object -> Seq(Thread)]
        /\ call' \in [Thread -> Call]
    BY <2>2, <2>3, <1>1, <1>5, QueuesKept, CallFacts, Zenon
  <2>5. /\ value' \in [Semaphore -> 0..MaxValue]
        /\ value'[s] = value[s] - 1
        /\ \A r \in Semaphore : r # s => value'[r] = value[r]
    BY <1>2, <1>5, SynchAssumption
  <2>6. SynchTypeOK'
    BY <2>4, <2>5, Zenon DEF P, SynchInv, SynchTypeOK
  <2>7. WaitersCounted'
    BY <1>5, Zenon DEF P, SynchInv, WaitersCounted
  <2>8. \A u \in Thread : u # currentThread => call'[u] = call[u]
    BY <2>3, Zenon DEF SynchInv, SynchTypeOK
  <2>9. \A o \in Semaphore \cup Lock : o # s =>
           (queue'[o] # <<>> => queue[o] # <<>>) /\ Woken(o) \subseteq Woken(o)'
    BY <2>2, <2>8, <1>1, <1>5, OtherClaimsKept, Zenon DEF Object
  <2>10. Cardinality(Woken(s)) - 1 <= Cardinality(Woken(s)')
    <3>1. Woken(s) \ {currentThread} \subseteq Woken(s)'
      BY <2>2, <2>8, Zenon DEF Woken, Awake
    <3>2. Cardinality(Woken(s) \ {currentThread}) <= Cardinality(Woken(s)')
      BY <3>1, WokenFinite, FS_Subset, Zenon
    <3>3. Cardinality(Woken(s)) - 1 <= Cardinality(Woken(s) \ {currentThread})
      BY WokenFinite, FS_RemoveElement
    <3>4. Cardinality(Woken(s) \ {currentThread}) \in Nat
      BY WokenFinite, FS_RemoveElement, FS_CardinalityType, Zenon
    <3> QED BY <3>2, <3>3, <3>4, WokenFinite
  <2>11. UnitsClaimed(s)'
    <3>1. queue[s] # <<>> => value[s] <= Cardinality(Woken(s))
      BY Zenon DEF SynchInv, NoLostWakeup, UnitsClaimed
    <3>2. value[s] \in Nat
      BY <1>2
    <3> QED BY <3>1, <3>2, <2>5, <2>10, <1>5, WokenFinite DEF UnitsClaimed
  <2>12. lockTaken' = lockTaken
    BY Zenon DEF P
  <2>13. NoLostWakeup'
    BY <2>5, <2>9, <2>11, <2>12, <1>1, ClaimsKept
  <2> QED BY <2>1, <2>4, <2>6, <2>7, <2>13, <1>3 DEF SynchInv
<1> QED BY <1>4, <1>5 DEF P

LEMMA VInv ==
    ASSUME SynchInv, NEW s \in Semaphore, V(s)
    PROVE  SynchInv'
<1> DEFINE q == queue[s]
<1>1. /\ s \in Object /\ s \notin Condition /\ s \notin Lock
      /\ queue \in [Object -> Seq(Thread)] /\ q \in Seq(Thread)
      /\ value \in [Semaphore -> 0..MaxValue]
  BY SynchAssumption, Zenon DEF Object, SynchInv, SynchTypeOK
<1>2. WakeFirst(s, 1) /\ call' = call /\ lockTaken' = lockTaken
  BY Zenon DEF V
<1>3. /\ SchedInv' /\ WaitersSound'
      /\ queue' \in [Object -> Seq(Thread)]
      /\ Elements(First(q, 1)) \subseteq Sleepers
      /\ Awake' = Awake \cup Elements(First(q, 1))
  BY <1>1, <1>2, AfterWakeFirst, Zenon
<1>4. /\ \A o \in Object : o # s => queue'[o] = queue[o]
      /\ queue'[s] = Rest(q, 1)
  BY <1>1, <1>2, Zenon DEF WakeFirst
<1>5. /\ value' \in [Semaphore -> 0..MaxValue]
      /\ value'[s] = value[s] + 1
      /\ \A r \in Semaphore : r # s => value'[r] = value[r]
  BY <1>1, SynchAssumption DEF V
<1>6. SynchTypeOK'
  BY <1>3, <1>5, Zenon DEF V, SynchInv, SynchTypeOK
<1>7. LocksOwned' /\ WaitersCounted'
  BY <1>1, <1>4, Zenon DEF V, SynchInv, LocksOwned, WaitersCounted, Object
<1>8. \A o \in Semaphore \cup Lock : o # s =>
         (queue'[o] # <<>> => queue[o] # <<>>) /\ Woken(o) \subseteq Woken(o)'
  BY <1>2, <1>3, <1>4 DEF Woken, Object
<1>9. UnitsClaimed(s)'
  <2> SUFFICES ASSUME queue'[s] # <<>>
               PROVE  value'[s] <= Cardinality(Woken(s)')
    BY Zenon DEF UnitsClaimed
  <2>1. q # <<>>
    BY <1>1, <1>4, RemoveNone
  <2>2. Elements(First(q, 1)) = {q[1]} /\ q[1] \in Elements(q)
    BY <2>1, <1>1, RemoveOne, Zenon
  <2>3. q[1] \in Sleepers /\ q[1] \in Thread /\ q[1] \notin Awake
    BY <2>2, <1>3, Zenon DEF Sleepers, Awake
  <2>4. call[q[1]].on = s
    BY <2>2, <2>3, <1>1 DEF SynchInv, WaitersSound
  <2>5. Woken(s) \cup {q[1]} \subseteq Woken(s)' /\ q[1] \notin Woken(s)
    BY <2>2, <2>3, <2>4, <1>2, <1>3 DEF Woken
  <2> DEFINE z == q[1]
  <2> HIDE DEF z
  <2>6. Cardinality(Woken(s) \cup {z}) = Cardinality(Woken(s)) + 1
    BY <2>5, WokenFinite, FS_AddElement, Zenon DEF z
  <2>7. Cardinality(Woken(s) \cup {z}) <= Cardinality(Woken(s)')
    BY <2>5, WokenFinite, FS_Subset, Zenon DEF z
  <2>8. value[s] <= Cardinality(Woken(s))
    BY <2>1, Zenon DEF SynchInv, NoLostWakeup, UnitsClaimed
  <2>9. value[s] \in Nat
    BY <1>1
  <2> QED BY <2>6, <2>7, <2>8, <2>9, <1>5, WokenFinite
<1>10. NoLostWakeup'
  BY <1>1, <1>2, <1>5, <1>8, <1>9, ClaimsKept, Zenon
<1> QED BY <1>3, <1>6, <1>7, <1>10 DEF SynchInv

LEMMA AcquireInv ==
    ASSUME SynchInv, NEW l \in Lock, Acquire(l)
    PROVE  SynchInv'
<1>1. /\ currentThread \in Thread /\ currentThread \notin Sleepers
      /\ l \in Object /\ l \notin Condition /\ l \notin Semaphore
      /\ call[currentThread] = NoCall \/ call[currentThread].on = l
  BY RunningIsAwake, CallFacts, SynchAssumption, Zenon DEF Acquire, Free, SynchInv, Object
<1>2. /\ lockTaken \in [Lock -> BOOLEAN]
      /\ currentTh \in [Lock -> Thread \cup {NULL}]
      /\ owners \in [Lock -> SUBSET Thread]
      /\ value' = value /\ waiting_threads' = waiting_threads
  BY Zenon DEF Acquire, SynchInv, SynchTypeOK
<1>3. CASE /\ ~isHeldByCurrentThread(l) /\ lockTaken[l]
           /\ SleepOn(l, InAcquire(l))
           /\ UNCHANGED <<lockTaken, currentTh, owners>>
  <2>1. /\ SchedInv' /\ WaitersSound'
        /\ queue' \in [Object -> Seq(Thread)]
        /\ call' \in [Thread -> Call]
        /\ Awake' = Awake \ {currentThread}
    BY <1>1, <1>3, AfterSleepOn, CallFacts
  <2>2. \A o \in Object : o # l => queue'[o] = queue[o]
    BY <1>3, Zenon DEF SleepOn, SynchInv, SynchTypeOK
  <2>3. SynchTypeOK' /\ LocksOwned'
    BY <2>1, <1>2, <1>3, Zenon DEF SynchInv, SynchTypeOK, LocksOwned
  <2>4. WaitersCounted'
    BY <2>2, <1>1, <1>2, Zenon DEF SynchInv, WaitersCounted, Object
  <2>5. \A u \in Thread : u # currentThread => call'[u] = call[u]
    BY <1>3, Zenon DEF SleepOn, SynchInv, SynchTypeOK
  <2>6. FreeLockClaimed(l)'
    BY <1>3, Zenon DEF FreeLockClaimed
  <2>7. \A o \in Semaphore \cup Lock : o # l =>
           (queue'[o] # <<>> => queue[o] # <<>>) /\ Woken(o) \subseteq Woken(o)'
    BY <2>1, <2>2, <2>5, <1>1, OtherClaimsKept, Zenon DEF Object
  <2>8. NoLostWakeup'
    BY <2>6, <2>7, <1>1, <1>2, <1>3, ClaimsKept
  <2> QED BY <2>1, <2>3, <2>4, <2>8 DEF SynchInv
<1>4. CASE /\ isHeldByCurrentThread(l) \/ ~lockTaken[l]
           /\ lockTaken' = [lockTaken EXCEPT ![l] = TRUE]
           /\ currentTh' = [currentTh EXCEPT ![l] = currentThread]
           /\ owners' = [owners EXCEPT ![l] = @ \cup {currentThread}]
           /\ Return
           /\ UNCHANGED queue
  <2>1. SchedInv'
    BY <1>4, EnableInterruptsInv, Zenon DEF Return, SynchInv
  <2>2. Sleepers' = Sleepers /\ Awake' = Awake
    BY <1>4, EnableInterruptsSets, Zenon DEF Return
  <2>3. call' = [call EXCEPT ![currentThread] = NoCall]
    BY <1>4, Zenon DEF Return
  <2>4. /\ WaitersSound'
        /\ queue' \in [Object -> Seq(Thread)]
        /\ call' \in [Thread -> Call]
    BY <2>2, <2>3, <1>1, <1>4, QueuesKept, CallFacts, Zenon
  <2>5. SynchTypeOK'
    BY <2>4, <1>1, <1>2, <1>4, Zenon DEF SynchInv, SynchTypeOK
  <2>6. LocksOwned'
    BY <1>1, <1>2, <1>4, Zenon DEF SynchInv, LocksOwned, isHeldByCurrentThread
  <2>7. WaitersCounted'
    BY <1>2, <1>4, Zenon DEF SynchInv, WaitersCounted
  <2>8. \A u \in Thread : u # currentThread => call'[u] = call[u]
    BY <2>3, Zenon DEF SynchInv, SynchTypeOK
  <2>9. \A o \in Semaphore \cup Lock : o # l =>
           (queue'[o] # <<>> => queue[o] # <<>>) /\ Woken(o) \subseteq Woken(o)'
    BY <2>2, <2>8, <1>1, <1>4, OtherClaimsKept, Zenon DEF Object
  <2>10. FreeLockClaimed(l)' /\ \A m \in Lock : m # l => lockTaken'[m] = lockTaken[m]
    BY <1>2, <1>4, Zenon DEF FreeLockClaimed
  <2>11. NoLostWakeup'
    BY <2>9, <2>10, <1>1, <1>2, ClaimsKept, Zenon
  <2> QED BY <2>1, <2>4, <2>5, <2>6, <2>7, <2>11 DEF SynchInv
<1> QED BY <1>3, <1>4 DEF Acquire

(* Letting go of a lock: its owner is gone, and its first waiter, if any,  *)
(* is on its way.                                                          *)
LEMMA LetGo ==
    ASSUME SynchInv, NEW l \in Lock, isHeldByCurrentThread(l),
           lockTaken' = [lockTaken EXCEPT ![l] = FALSE],
           owners' = [owners EXCEPT ![l] = @ \ {currentThread}],
           currentTh' = currentTh
    PROVE  /\ lockTaken' \in [Lock -> BOOLEAN]
           /\ owners' \in [Lock -> SUBSET Thread]
           /\ LocksOwned'
           /\ \A m \in Lock : m # l => lockTaken'[m] = lockTaken[m]
BY Zenon DEF SynchInv, SynchTypeOK, LocksOwned, isHeldByCurrentThread

LEMMA FirstWaiterComes ==
    ASSUME SynchInv, NEW l \in Lock, queue'[l] = Rest(queue[l], 1),
           Elements(First(queue[l], 1)) \subseteq Sleepers,
           \A t \in Elements(First(queue[l], 1)) : t \in Awake' /\ call'[t] = call[t]
    PROVE  FreeLockClaimed(l)'
<1> DEFINE q == queue[l]
<1>1. l \in Object /\ q \in Seq(Thread)
  BY Zenon DEF Object, SynchInv, SynchTypeOK
<1> SUFFICES ASSUME queue'[l] # <<>>
             PROVE  Woken(l)' # {}
  BY Zenon DEF FreeLockClaimed
<1>2. q # <<>>
  BY <1>1, RemoveNone, Zenon
<1>3. Elements(First(q, 1)) = {q[1]} /\ q[1] \in Elements(q)
  BY <1>1, <1>2, RemoveOne, Zenon
<1>4. q[1] \in Awake' /\ call'[q[1]] = call[q[1]] /\ q[1] \in Thread
  BY <1>3, Zenon DEF Sleepers
<1>5. call[q[1]].on = l
  BY <1>1, <1>3, <1>4, Zenon DEF SynchInv, WaitersSound
<1> QED BY <1>4, <1>5 DEF Woken

LEMMA ReleaseInv ==
    ASSUME SynchInv, NEW l \in Lock, Release(l)
    PROVE  SynchInv'
<1> DEFINE q == queue[l]
<1>1. /\ l \in Object /\ l \notin Condition /\ l \notin Semaphore
      /\ queue \in [Object -> Seq(Thread)]
  BY SynchAssumption, Zenon DEF Object, SynchInv, SynchTypeOK
<1>2. /\ WakeFirst(l, 1) /\ call' = call /\ value' = value
      /\ waiting_threads' = waiting_threads /\ currentTh' = currentTh
  BY Zenon DEF Release
<1>3. /\ SchedInv' /\ WaitersSound'
      /\ queue' \in [Object -> Seq(Thread)]
      /\ Elements(First(q, 1)) \subseteq Sleepers
      /\ Awake' = Awake \cup Elements(First(q, 1))
  BY <1>1, <1>2, AfterWakeFirst, Zenon
<1>4. /\ \A o \in Object : o # l => queue'[o] = queue[o]
      /\ queue'[l] = Rest(q, 1)
  BY <1>1, <1>2, Zenon DEF WakeFirst
<1>5. /\ lockTaken' \in [Lock -> BOOLEAN]
      /\ owners' \in [Lock -> SUBSET Thread]
      /\ LocksOwned'
      /\ \A m \in Lock : m # l => lockTaken'[m] = lockTaken[m]
  BY LetGo, Zenon DEF Release
<1>6. SynchTypeOK'
  BY <1>2, <1>3, <1>5, Zenon DEF SynchInv, SynchTypeOK
<1>7. WaitersCounted'
  BY <1>1, <1>2, <1>4, Zenon DEF SynchInv, WaitersCounted, Object
<1>8. \A o \in Semaphore \cup Lock : o # l =>
         (queue'[o] # <<>> => queue[o] # <<>>) /\ Woken(o) \subseteq Woken(o)'
  BY <1>2, <1>3, <1>4, Zenon DEF Woken, Object
<1>9. FreeLockClaimed(l)'
  BY <1>2, <1>3, <1>4, FirstWaiterComes, Zenon
<1>10. NoLostWakeup'
  BY <1>1, <1>2, <1>5, <1>8, <1>9, ClaimsKept
<1> QED BY <1>3, <1>5, <1>6, <1>7, <1>10 DEF SynchInv

LEMMA WaitInv ==
    ASSUME SynchInv, NEW c \in Condition, NEW l \in Lock, Wait(c, l)
    PROVE  SynchInv'
<1> DEFINE q == queue[l]
<1>1. /\ l \in Object /\ l \notin Condition /\ l \notin Semaphore
      /\ c \in Object /\ c \notin Lock /\ c \notin Semaphore /\ c # l
      /\ queue \in [Object -> Seq(Thread)] /\ queue[c] \in Seq(Thread)
      /\ waiting_threads \in [Condition -> Nat]
  BY SynchAssumption, Zenon DEF Object, SynchInv, SynchTypeOK
<1>2. /\ currentThread \in Thread /\ currentThread \notin Sleepers
      /\ call[currentThread] = NoCall
  BY RunningIsAwake, Zenon DEF Wait, Free, Preemptible, SynchInv
<1>3. /\ SchedInv' /\ WaitersSound'
      /\ queue' \in [Object -> Seq(Thread)]
      /\ call' \in [Thread -> Call]
      /\ Elements(First(q, 1)) \subseteq Sleepers
      /\ Awake' = (Awake \cup Elements(First(q, 1))) \ {currentThread}
      /\ queue' = [queue EXCEPT ![c] = Append(queue[c], currentThread),
                                ![l] = Rest(queue[l], 1)]
  BY AfterWait, Zenon
<1>4. /\ \A o \in Object : o # l /\ o # c => queue'[o] = queue[o]
      /\ queue'[l] = Rest(q, 1)
      /\ Len(queue'[c]) = Len(queue[c]) + 1
  BY <1>1, <1>2, <1>3, AppendProperties
<1>5. /\ lockTaken' \in [Lock -> BOOLEAN]
      /\ owners' \in [Lock -> SUBSET Thread]
      /\ LocksOwned'
      /\ \A m \in Lock : m # l => lockTaken'[m] = lockTaken[m]
  BY LetGo, Zenon DEF Wait
<1>6. /\ waiting_threads' = [waiting_threads EXCEPT ![c] = @ + 1]
      /\ value' = value /\ currentTh' = currentTh
  BY Zenon DEF Wait
<1>7. SynchTypeOK'
  <2>1. waiting_threads' \in [Condition -> Nat]
    BY <1>1, <1>6
  <2>2. queue' \in [Object -> Seq(Thread)] /\ call' \in [Thread -> Call]
    BY <1>3, Zenon
  <2> QED BY <2>1, <2>2, <1>5, <1>6 DEF SynchInv, SynchTypeOK
<1>8. WaitersCounted'
  BY <1>1, <1>4, <1>6, Zenon DEF SynchInv, WaitersCounted, Object
<1>9. \A u \in Thread : u # currentThread => call'[u] = call[u]
  BY Zenon DEF Wait, SynchInv, SynchTypeOK
<1>10. \A o \in Semaphore \cup Lock : o # l =>
          (queue'[o] # <<>> => queue[o] # <<>>) /\ Woken(o) \subseteq Woken(o)'
  BY <1>1, <1>2, <1>3, <1>4, <1>9, OtherClaimsKept, Zenon DEF Object
<1>11. FreeLockClaimed(l)'
  <2>1. \A t \in Elements(First(q, 1)) : t \in Awake' /\ call'[t] = call[t]
    BY <1>2, <1>3, <1>9, Zenon DEF Sleepers
  <2> QED BY <2>1, <1>3, <1>4, FirstWaiterComes
<1>12. NoLostWakeup'
  BY <1>1, <1>5, <1>6, <1>10, <1>11, ClaimsKept
<1> QED BY <1>3, <1>5, <1>7, <1>8, <1>12 DEF SynchInv

LEMMA WaitReturnInv ==
    ASSUME SynchInv, WaitReturn
    PROVE  SynchInv'
<1>1. /\ currentThread \in Thread /\ currentThread \notin Sleepers
  BY RunningIsAwake, Zenon DEF WaitReturn, SynchInv
<1>2. PICK c \in Condition, l \in Lock : call[currentThread] = InWait(c, l)
  <2>1. call[currentThread] \in Call /\ call[currentThread].op = "Wait"
    BY <1>1, Zenon DEF WaitReturn, SynchInv, SynchTypeOK
  <2> QED BY <2>1 DEF Call, NoCall, InP, InAcquire, InWait
<1>3. call' = [call EXCEPT ![currentThread] = InAcquire(l)]
  <2>1. call[currentThread].lock = l
    BY <1>2 DEF InWait
  <2> QED BY <2>1 DEF WaitReturn
<1>4. SchedInv'
  BY EnableInterruptsInv, Zenon DEF WaitReturn, SynchInv
<1>5. Sleepers' = Sleepers /\ Awake' = Awake
  BY EnableInterruptsSets, Zenon DEF WaitReturn
<1>6. /\ queue' = queue /\ value' = value /\ lockTaken' = lockTaken
      /\ currentTh' = currentTh /\ owners' = owners
      /\ waiting_threads' = waiting_threads
  BY Zenon DEF WaitReturn
<1>7. /\ WaitersSound'
      /\ queue' \in [Object -> Seq(Thread)]
      /\ call' \in [Thread -> Call]
  BY <1>1, <1>3, <1>5, <1>6, QueuesKept, CallFacts, Zenon
<1>8. SynchTypeOK' /\ LocksOwned' /\ WaitersCounted'
  BY <1>6, <1>7, Zenon DEF SynchInv, SynchTypeOK, LocksOwned, WaitersCounted
<1>9. \A u \in Thread : u # currentThread => call'[u] = call[u]
  BY <1>3, Zenon DEF SynchInv, SynchTypeOK
<1>10. c \in Object /\ call[currentThread].on = c /\ c \notin Semaphore \cup Lock
  BY <1>2, SynchAssumption DEF InWait, Object
<1>11. \A o \in Semaphore \cup Lock : Woken(o) \subseteq Woken(o)'
  BY <1>1, <1>5, <1>9, <1>10, OtherClaimsKept DEF Object
<1>12. NoLostWakeup'
  BY <1>6, <1>10, <1>11, ClaimsKept
<1> QED BY <1>4, <1>7, <1>8, <1>12 DEF SynchInv

LEMMA NotifyInv ==
    ASSUME SynchInv, NEW c \in Condition, NEW l \in Lock, NEW n \in Nat,
           n <= waiting_threads[c], Notify(c, l, n)
    PROVE  SynchInv'
<1> DEFINE q == queue[c]
<1>1. /\ c \in Object /\ c \notin Lock /\ c \notin Semaphore
      /\ queue \in [Object -> Seq(Thread)] /\ q \in Seq(Thread) /\ Distinct(q)
      /\ waiting_threads \in [Condition -> Nat]
      /\ waiting_threads[c] = Len(q)
  BY SynchAssumption, Zenon DEF Object, SynchInv, SynchTypeOK, WaitersSound, WaitersCounted
<1>2. /\ WakeFirst(c, n) /\ call' = call /\ value' = value
      /\ lockTaken' = lockTaken /\ currentTh' = currentTh /\ owners' = owners
      /\ waiting_threads' = [waiting_threads EXCEPT ![c] = @ - n]
  BY Zenon DEF Notify
<1>3. /\ SchedInv' /\ WaitersSound'
      /\ queue' \in [Object -> Seq(Thread)]
      /\ Awake' = Awake \cup Elements(First(q, n))
  BY <1>1, <1>2, AfterWakeFirst, Zenon
<1>4. /\ \A o \in Object : o # c => queue'[o] = queue[o]
      /\ queue'[c] = Rest(q, n)
  BY <1>1, <1>2, Zenon DEF WakeFirst
<1>5. Len(queue'[c]) = Len(q) - n
  BY <1>1, <1>4, RemoveFromQueue DEF Removed
<1>6. waiting_threads' \in [Condition -> Nat] /\ waiting_threads'[c] = Len(q) - n
  BY <1>1, <1>2
<1>7. SynchTypeOK' /\ LocksOwned'
  BY <1>2, <1>3, <1>6, Zenon DEF SynchInv, SynchTypeOK, LocksOwned
<1>8. WaitersCounted'
  BY <1>1, <1>2, <1>4, <1>5, <1>6, Zenon DEF SynchInv, WaitersCounted, Object
<1>9. \A o \in Semaphore \cup Lock : o # c =>
         (queue'[o] # <<>> => queue[o] # <<>>) /\ Woken(o) \subseteq Woken(o)'
  BY <1>2, <1>3, <1>4, Zenon DEF Woken, Object
<1>10. NoLostWakeup'
  BY <1>1, <1>2, <1>9, ClaimsKept
<1> QED BY <1>3, <1>7, <1>8, <1>10 DEF SynchInv

LEMMA ThreadStepInv ==
    ASSUME SynchInv, ThreadStep
    PROVE  SynchInv'
<1>1. UNCHANGED synchVars
  BY Zenon DEF ThreadStep
<1>2. /\ SchedInv'
      /\ Sleepers' = Sleepers
      /\ \A t \in Awake : call[t] # NoCall => t \in Awake'
  <2>1. CASE \E t \in Thread : NewThread(t) \/ Fork(t)
    BY <2>1, NewThreadInv, ForkInv, CreateSets DEF SynchInv
  <2>2. CASE Yield \/ Dispatch
    BY <2>2, YieldInv, DispatchInv, SwitchSets DEF SynchInv
  <2>3. CASE Free /\ Finish
    BY <2>3, FinishInv, FinishSets DEF SynchInv, Free
  <2> QED BY <2>1, <2>2, <2>3 DEF ThreadStep
<1>3. SynchTypeOK' /\ WaitersSound' /\ LocksOwned' /\ WaitersCounted'
  BY <1>1, <1>2 DEF SynchInv, SynchTypeOK, WaitersSound, LocksOwned, WaitersCounted,
                    synchVars
<1>4. \A o \in Semaphore \cup Lock : Woken(o) \subseteq Woken(o)'
  BY <1>1, <1>2, CallFacts DEF Woken, Object, synchVars
<1>5. NULL \notin Semaphore /\ NULL \notin Lock
  BY SynchAssumption, Zenon
<1>6. NoLostWakeup'
  BY <1>1, <1>4, <1>5, ClaimsKept, Zenon DEF synchVars
<1> QED BY <1>2, <1>3, <1>6 DEF SynchInv

LEMMA SynchInitInv ==
    ASSUME SynchInit
    PROVE  SynchInv
<1>1. SchedInv
  BY SchedInitInv, Zenon DEF SynchInit
<1>2. SynchTypeOK /\ LocksOwned
  BY SynchAssumption, CallFacts DEF SynchInit, SynchTypeOK, LocksOwned
<1>3. \A o \in Object : queue[o] = <<>>
  BY Zenon DEF SynchInit
<1>4. Sleepers = {}
  BY Zenon DEF SynchInit, SchedInit, Sleepers
<1>5. WaitersSound
  BY <1>3, <1>4, EmptyElements, Zenon DEF WaitersSound, Distinct
<1>6. WaitersCounted /\ NoLostWakeup
  BY <1>3, Zenon DEF SynchInit, WaitersCounted, NoLostWakeup, UnitsClaimed, FreeLockClaimed, Object
<1> QED BY <1>1, <1>2, <1>5, <1>6 DEF SynchInv

LEMMA SynchNextInv ==
    ASSUME SynchInv, [SynchNext]_vars
    PROVE  SynchInv'
<1>1. CASE ThreadStep
  BY <1>1, ThreadStepInv, Zenon
<1>2. CASE \E s \in Semaphore : P(s) \/ V(s)
  BY <1>2, PInv, VInv
<1>3. CASE \E l \in Lock : Acquire(l) \/ Release(l)
  BY <1>3, AcquireInv, ReleaseInv
<1>4. ASSUME NEW c \in Condition, NEW l \in Lock,
             Wait(c, l) \/ Signal(c, l) \/ Broadcast(c, l)
      PROVE  SynchInv'
  <2>1. waiting_threads[c] \in Nat
    BY Zenon DEF SynchInv, SynchTypeOK
  <2>2. CASE Wait(c, l)
    BY <2>2, WaitInv, Zenon
  <2>3. CASE Signal(c, l)
    <3>1. Notify(c, l, 1) /\ 1 <= waiting_threads[c]
      BY <2>1, <2>3 DEF Signal, Notify
    <3> QED BY <3>1, NotifyInv
  <2>4. CASE Broadcast(c, l)
    BY <2>1, <2>4, NotifyInv DEF Broadcast
  <2> QED BY <1>4, <2>2, <2>3, <2>4
<1>5. CASE WaitReturn
  BY <1>5, WaitReturnInv, Zenon
<1>6. CASE UNCHANGED vars
  <2>1. /\ currentThread' = currentThread /\ readyList' = readyList /\ status' = status
        /\ resume' = resume /\ finished' = finished /\ level' = level
        /\ threadToBeDestroyed' = threadToBeDestroyed /\ machineStatus' = machineStatus
        /\ value' = value /\ lockTaken' = lockTaken /\ currentTh' = currentTh
        /\ waiting_threads' = waiting_threads /\ queue' = queue /\ call' = call
        /\ owners' = owners
    BY <1>6 DEF vars, schedVars, synchVars
  <2>2. SchedInv'
    BY <2>1, Zenon DEF SynchInv, SchedInv, SchedTypeOK, ReadyListSound, FinishedStopped
  <2>3. SynchTypeOK' /\ WaitersSound' /\ LocksOwned'
    BY <2>1, Zenon DEF SynchInv, SynchTypeOK, WaitersSound, Sleepers, LocksOwned
  <2>4. WaitersCounted' /\ NoLostWakeup'
    BY <2>1, Zenon DEF SynchInv, WaitersCounted, NoLostWakeup, UnitsClaimed, FreeLockClaimed,
                       Woken, Awake
  <2> QED BY <2>2, <2>3, <2>4, Zenon DEF SynchInv
<1> QED BY <1>1, <1>2, <1>3, <1>4, <1>5, <1>6 DEF SynchNext

-----------------------------------------------------------------------------
(* The inductive invariant holds in every state the routines of synch.cc   *)
(* can reach, for any finite set of threads and any sets of objects.       *)
THEOREM SynchInvariant == SynchSpec => []SynchInv
BY SynchInitInv, SynchNextInv, PTL DEF SynchSpec

(* The members of Semaphore, Lock and Condition keep their types; values   *)
(* are never negative (synch.h:50).                                        *)
THEOREM SynchTypeCorrect == SynchSpec => []SynchTypeOK
BY SynchInvariant, PTL DEF SynchInv

(* Wait queues and sleeping threads correspond, for any number of both. *)
THEOREM WaitersCorrect == SynchSpec => []WaitersSound
BY SynchInvariant, PTL DEF SynchInv

(* Lock::Acquire and Release give mutual exclusion, also around            *)
(* Condition::Wait, for any number of threads and locks.                   *)
THEOREM LockExcludes == SynchSpec => []MutualExclusion
<1>1. SynchInv => MutualExclusion
  BY Zenon DEF SynchInv, LocksOwned, MutualExclusion
<1> QED BY <1>1, SynchInvariant, PTL

(* No V and no Release is lost while threads wait, although newcomers can  *)
(* overtake the thread that was woken.                                     *)
THEOREM WakeupsReach == SynchSpec => []NoLostWakeup
BY SynchInvariant, PTL DEF SynchInv

(* waiting_threads is the length of a condition's queue in every reachable *)
(* state.                                                                  *)
THEOREM WaitersAreCounted == SynchSpec => []WaitersCounted
BY SynchInvariant, PTL DEF SynchInv

(* The three together: no sleeper is forgotten by the object it waits for. *)
THEOREM WaitersAreServed == SynchSpec => []WaitersServed
<1>1. SynchInv => WaitersServed
  BY Zenon DEF SynchInv, WaitersServed
<1> QED BY <1>1, SynchInvariant, PTL

(* Release and Wait free a taken lock for its owner only. *)
THEOREM ReleaseIsOwners == SynchSpec => OnlyOwnerReleases
<1>1. ASSUME SynchInv, [SynchNext]_vars
      PROVE  [ReleasedByOwner]_vars
  <2> SUFFICES ASSUME NEW l \in Lock, lockTaken[l], ~lockTaken'[l]
               PROVE  owners[l] = {currentThread}
    BY DEF ReleasedByOwner
  <2>1. isHeldByCurrentThread(l)
    <3>1. lockTaken' # lockTaken
      BY Zenon
    <3>2. CASE \E m \in Lock : Acquire(m)
      <4>1. PICK m \in Lock : Acquire(m)
        BY <3>2, Zenon
      <4>2. lockTaken' = lockTaken \/ lockTaken' = [lockTaken EXCEPT ![m] = TRUE]
        BY <4>1, Zenon DEF Acquire
      <4> QED BY <4>2, <1>1, Zenon DEF SynchInv, SynchTypeOK
    <3>3. CASE \E m \in Lock : Release(m)
      BY <1>1, <3>3 DEF Release, SynchInv, SynchTypeOK
    <3>4. CASE \E c \in Condition, m \in Lock : Wait(c, m)
      BY <1>1, <3>4 DEF Wait, SynchInv, SynchTypeOK
    <3>5. ~ThreadStep /\ ~WaitReturn /\ ~UNCHANGED vars
      BY <3>1, Zenon DEF ThreadStep, WaitReturn, vars, synchVars
    <3>6. \A t \in Semaphore : ~P(t) /\ ~V(t)
      BY <3>1, Zenon DEF P, V
    <3>7. \A c \in Condition, m \in Lock : ~Signal(c, m) /\ ~Broadcast(c, m)
      BY <3>1, Zenon DEF Signal, Broadcast, Notify
    <3> QED BY <1>1, <3>2, <3>3, <3>4, <3>5, <3>6, <3>7 DEF SynchNext
  <2> QED BY <2>1, <1>1, Zenon DEF SynchInv, LocksOwned, isHeldByCurrentThread
<1> QED BY <1>1, SynchInvariant, PTL DEF SynchSpec, OnlyOwnerReleases

-----------------------------------------------------------------------------
(* A queue of distinct sleepers is one of the orders the scheduler's       *)
(* specification lets threads be woken in.                                 *)
LEMMA QueueIsOrder ==
    ASSUME NEW S, IsFiniteSet(S), NEW ws \in Seq(Thread), Distinct(ws),
           Elements(ws) \subseteq S
    PROVE  ws \in OrdersOf(S)
<1> DEFINE n == Len(ws)
<1>1. n \in Nat /\ ws \in [1..n -> S]
  BY LenProperties, Zenon DEF Elements
<1>2. Cardinality(S) \in Nat
  BY FS_CardinalityType, Zenon
<1> HIDE DEF n
<1>3. IsFiniteSet(1..n) /\ Cardinality(1..n) = n
  BY <1>1, FS_Interval
<1>4. n <= Cardinality(S)
  <2> SUFFICES ASSUME Cardinality(S) < Cardinality(1..n)
               PROVE  FALSE
    BY <1>1, <1>2, <1>3
  <2>1. \E x, y \in 1..n : x # y /\ ws[x] = ws[y]
    BY <1>1, <1>3, FS_PigeonHole, Zenon
  <2> QED BY <2>1 DEF Distinct, n
<1> QED BY <1>1, <1>2, <1>4 DEF OrdersOf

LEMMA WakeFirstIsWake ==
    ASSUME SynchInv, NEW o \in Object, NEW n \in Nat
    PROVE  First(queue[o], n) \in OrdersOf(Sleepers)
<1> DEFINE q == queue[o]
<1>1. q \in Seq(Thread) /\ Distinct(q)
  BY Zenon DEF SynchInv, SynchTypeOK, WaitersSound
<1>2. Elements(q) \subseteq Thread
  BY <1>1, ElementOfSeq, Zenon DEF Elements
<1>3. Elements(q) \subseteq Sleepers
  BY <1>2, Zenon DEF SynchInv, WaitersSound
<1>4. IsFiniteSet(Sleepers)
  BY ThreadAssumption, FS_Subset DEF Sleepers
<1> QED BY <1>1, <1>3, <1>4, RemoveFromQueue, QueueIsOrder

LEMMA SynchStepIsSchedStep ==
    ASSUME SynchInv, [SynchNext]_vars
    PROVE  [SchedNext]_schedVars
<1>1. CASE ThreadStep
  BY <1>1, Zenon DEF ThreadStep, SchedNext
<1>2. <<>> \in OrdersOf(Sleepers)
  <2>1. IsFiniteSet(Sleepers)
    BY ThreadAssumption, FS_Subset, Zenon DEF Sleepers
  <2> QED BY <2>1, EmptyElements, QueueIsOrder, Zenon
<1>3. ASSUME NEW o, NEW c, SleepOn(o, c)
      PROVE  SchedNext
  BY <1>2, <1>3, Zenon DEF SleepOn, SchedNext
<1>4. ASSUME NEW o \in Object, NEW n \in Nat, WakeFirst(o, n)
      PROVE  SchedNext
  BY <1>4, WakeFirstIsWake, Zenon DEF WakeFirst, SchedNext
<1>5. ASSUME NEW s \in Semaphore, P(s) \/ V(s)
      PROVE  SchedNext
  BY <1>3, <1>4, <1>5, Zenon DEF P, V, Return, SchedNext, Object
<1>6. ASSUME NEW l \in Lock, Acquire(l) \/ Release(l)
      PROVE  SchedNext
  BY <1>3, <1>4, <1>6 DEF Acquire, Release, Return, SchedNext, Object
<1>7. ASSUME NEW c \in Condition, NEW l \in Lock, Wait(c, l)
      PROVE  SchedNext
  <2>1. First(queue[l], 1) \in OrdersOf(Sleepers)
    BY WakeFirstIsWake, Zenon DEF Object
  <2> QED BY <1>7, <2>1 DEF Wait, SchedNext
<1>8. ASSUME NEW c \in Condition, NEW l \in Lock, Signal(c, l) \/ Broadcast(c, l)
      PROVE  SchedNext
  <2>1. waiting_threads[c] \in Nat
    BY Zenon DEF SynchInv, SynchTypeOK
  <2> QED BY <1>4, <1>8, <2>1 DEF Signal, Broadcast, Notify, Object
<1>9. CASE WaitReturn
  BY <1>9, Zenon DEF WaitReturn, SchedNext
<1>10. CASE UNCHANGED vars
  BY <1>10, Zenon DEF vars
<1> QED BY <1>1, <1>5, <1>6, <1>7, <1>8, <1>9, <1>10 DEF SynchNext

(* The routines of synch.cc use the scheduler the way its specification    *)
(* allows, so all that is proved of the scheduler holds under them.        *)
THEOREM SynchImplementsSched == SynchSpec => SchedSpec
<1>1. SynchInit => SchedInit
  BY Zenon DEF SynchInit
<1>2. SynchInv /\ [SynchNext]_vars => [SchedNext]_schedVars
  BY SynchStepIsSchedStep, Zenon
<1> QED BY <1>1, <1>2, SynchInvariant, PTL DEF SynchSpec, SchedSpec
=============================================================================
