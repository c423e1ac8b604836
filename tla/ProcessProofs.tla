---------------------------- MODULE ProcessProofs ----------------------------
(***************************************************************************)
(* ProcInv is an invariant of Processes when one program does all the      *)
(* joining and every program can have a pid, whatever the sets of programs *)
(* and of exit statuses.  There is a lemma for each step: Bystanders says  *)
(* that the threads that do not run keep what they wait for, OwnStep and   *)
(* MoveKeeps treat the steps that change only what belongs to the caller.  *)
(***************************************************************************)
EXTENDS Processes, FiniteSetTheorems, WellFoundedInduction, TLAPS

(* One program calls Join: of two, one can clear its own pid while the     *)
(* other waits for it.                                                     *)
OneJoiner == \A p, q \in Joiner : p = q

(* AddProcess indexes its arrays with -1 when GetPID finds no pid. *)
EnoughPids == Cardinality(Process) <= MaxProcess

LEMMA Labels ==
    /\ \A l \in {"none", "user", "SpawnReturn", "JoinWait", "JoinWake", "exited"} : l \in Parked
    /\ Parked \cup Joining \cup Clearing \subseteq Label
    /\ \A l \in {"AddProcess", "Spawned", "Join", "GetJoins", "ReadJoins", "Broadcast",
                 "BroadcastLock"} : l \in Label
    /\ \A l \in {"JoinLock", "JoinTest", "JoinWait", "JoinWake", "DecrementJoins", "GetStatus",
                 "ReadStatus"} : l \in Joining
    /\ \A l \in {"ClearPID", "ClearLock", "ClearBit"} : l \in Clearing
  BY Zenon DEF Label, Parked, Joining, Clearing

(* The other threads, while one runs: what they wait for stays. *)
LEMMA Bystanders ==
    ASSUME FlatInv, NEW p \in Process, cpu = p, NEW q \in Process \ {p},
           \/ pc'[q] = pc[q]
           \/ pc[q] = "JoinWait" /\ pc'[q] = "JoinWake"
           \/ pc[q] = "none" /\ pc'[q] = "user" /\ pid'[q] # -1,
           arg'[q] = arg[q], joined'[q] = joined[q], q \in exiting' <=> q \in exiting,
           pid'[q] = pid[q] \/ pc[q] = "none",
           pc[q] \in {"JoinWait", "JoinWake"} =>
              /\ arg[q] \in processIDs' /\ pcbs'[arg[q]] = pcbs[arg[q]] /\ joins'[arg[q]] > 0
    PROVE  /\ pc'[q] \in Parked /\ (pc'[q] # "none" => pid'[q] # -1)
           /\ CallSound(q)' /\ JoinSound(q)'
  <1>1. pc[q] \in {"none", "user", "SpawnReturn", "JoinWait", "JoinWake", "exited"}
    BY Zenon DEF FlatInv, LocksHeld, Parked
  <1>2. pc'[q] \in {"none", "user", "SpawnReturn", "JoinWait", "JoinWake", "exited"}
    BY <1>1, Zenon
  <1>3. CallSound(q) /\ JoinSound(q) /\ (pc[q] # "none" => pid[q] # -1)
    BY Zenon DEF FlatInv, ObjectsExist
  <1>4. pc[q] = "none" => q \notin exiting
    BY <1>3, Zenon DEF CallSound, Clearing
  <1>5. q \in exiting => pid'[q] = pid[q] /\ pc[q] = "exited" /\ pc'[q] = "exited"
    BY <1>1, <1>3, <1>4, Zenon DEF CallSound, Clearing
  <1>6. pc'[q] \in {"JoinWait", "JoinWake"} => pc[q] \in {"JoinWait", "JoinWake"}
    BY <1>1, Zenon
  <1>7. CallSound(q)'
    BY <1>2, <1>3, <1>5, <1>6, Zenon DEF CallSound, Clearing, Joining
  <1>8. joined[q] # NULL => pc[q] \in {"JoinWait", "JoinWake"} /\ q \notin exiting
    BY <1>1, <1>3, Zenon DEF JoinSound, Joining, Clearing
  <1>9. pc[q] \in {"JoinWait", "JoinWake"} => joined[q] # NULL /\ joined[q] = pcbs[arg[q]]
    BY <1>3, Zenon DEF JoinSound, Clearing
  <1>10. joined[q] # NULL => pc'[q] \in {"JoinWait", "JoinWake"}
    BY <1>8, Zenon
  <1>11. JoinSound(q)'
    BY <1>2, <1>6, <1>8, <1>9, <1>10, Zenon DEF JoinSound, Joining, Clearing
  <1>12. QED
    BY <1>2, <1>3, <1>7, <1>11, Zenon DEF Parked

(* A step that works on the caller's own registers, pm_lock and the counts *)
(* of joins.                                                               *)
Locking == {"JoinLock", "ClearLock", "ClearBit", "BroadcastLock"}

LEMMA OwnStep ==
    ASSUME FlatInv, NEW p \in Process, cpu = p, cpu' = p, ProcTypeOK', ~fault',
           NEW l \in Label, l \notin {"none", "JoinTest", "AddProcess", "ClearBit", "Spawned"},
           pc[p] \notin {"none", "JoinTest", "AddProcess", "ClearBit", "JoinWait"},
           pc' = [pc EXCEPT ![p] = l],
           pid' = pid, processIDs' = processIDs, pcbs' = pcbs, conditions' = conditions,
           locks' = locks,
           pm_lock' = IF l \in Locking THEN p ELSE "free",
           \A q \in Process \ {p} :
              /\ arg'[q] = arg[q] /\ joined'[q] = joined[q]
              /\ (q \in exiting' <=> q \in exiting)
              /\ pc[q] \in {"JoinWait", "JoinWake"} => joins'[arg[q]] > 0,
           CallSound(p)', JoinSound(p)',
           l \in Clearing /\ p \notin Joiner /\ arg'[p] # -1 => joins'[arg'[p]] = 0
    PROVE  FlatInv'
  <1>0. ProcTypeOK /\ LocksHeld /\ ObjectsExist /\ ClearsAlone
    BY Zenon DEF FlatInv
  <1>1. pc'[p] = l /\ \A q \in Process \ {p} : pc'[q] = pc[q]
    BY <1>0, Zenon DEF ProcTypeOK
  <1>2. \A q \in Process \ {p} :
           pc[q] \in {"JoinWait", "JoinWake"} =>
              /\ arg[q] \in processIDs' /\ pcbs'[arg[q]] = pcbs[arg[q]] /\ joins'[arg[q]] > 0
    <2>1. TAKE q \in Process \ {p}
    <2>2. HAVE pc[q] \in {"JoinWait", "JoinWake"}
    <2>3. JoinSound(q)
      BY Zenon DEF FlatInv
    <2>4. arg[q] \in processIDs
      BY <2>2, <2>3, Zenon DEF JoinSound, Clearing
    <2>5. QED
      BY <2>2, <2>4, Zenon
  <1>3. \A q \in Process \ {p} :
           /\ pc'[q] \in Parked /\ (pc'[q] # "none" => pid'[q] # -1)
           /\ CallSound(q)' /\ JoinSound(q)'
    BY <1>1, <1>2, Bystanders, Zenon
  <1>4. LocksHeld'
    <2>1. \A i \in Pid : locks[i] \notin Process
      BY <1>0, Zenon DEF LocksHeld
    <2>2. QED
      BY <1>1, <1>3, <2>1, Zenon DEF LocksHeld, Locking
  <1>5. ObjectsExist'
    BY <1>0, <1>1, <1>3, Zenon DEF ObjectsExist
  <1>6. ClearsAlone'
    <2>1. \A q \in Process \ {p} : pc'[q] \notin Clearing /\ pc'[q] # "Spawned"
      BY <1>3, Zenon DEF Parked, Clearing
    <2>2. \A i \in Pid : \A q \in conditions[i] :
             q \in Process /\ q # p /\ pc[q] = "JoinWait" /\ arg[q] = i
      BY <1>0 DEF ClearsAlone, ProcTypeOK
    <2>3. \A i \in Pid : \A q \in conditions'[i] : pc'[q] = "JoinWait" /\ arg'[q] = i
      BY <1>1, <2>2
    <2>4. l # "AddProcess" /\ l # "Spawned"
      BY Zenon
    <2>5. pc'[cpu'] # "AddProcess" /\ \A q \in Process : pc'[q] # "Spawned"
      BY <1>1, <2>1, <2>4, Zenon
    <2>6. \A q \in Process : pc'[q] \in Clearing /\ q \notin Joiner /\ arg'[q] # -1 =>
                               joins'[arg'[q]] = 0
      BY <1>1, <2>1, Zenon
    <2>7. QED
      BY <2>3, <2>5, <2>6, Zenon DEF ClearsAlone
  <1>7. QED
    BY <1>3, <1>4, <1>5, <1>6, Zenon DEF FlatInv

(* A thread in Join keeps its pid in use. *)
LEMMA Waiting ==
    ASSUME FlatInv, NEW q \in Process, pc[q] \in {"JoinWait", "JoinWake"}
    PROVE  /\ arg[q] \in processIDs /\ arg[q] \in Pid /\ joins[arg[q]] > 0
           /\ q \in Joiner /\ joined[q] = pcbs[arg[q]]
  <1>1. CallSound(q) /\ JoinSound(q) /\ ProcTypeOK
    BY Zenon DEF FlatInv
  <1>2. q \notin exiting
    BY <1>1, Zenon DEF CallSound, Clearing
  <1>3. QED
    BY <1>1, <1>2, Zenon DEF CallSound, JoinSound, Joining, Clearing, ProcTypeOK

LEMMA Running ==
    ASSUME FlatInv, NEW p \in Process, cpu = p
    PROVE  /\ ProcTypeOK /\ CallSound(p) /\ JoinSound(p) /\ ~fault
           /\ pc[p] # "none" => pid[p] \in Pid /\ pid[p] # -1
           /\ pm_lock = IF pc[p] \in Locking THEN p ELSE "free"
  <1>1. ProcTypeOK /\ CallSound(p) /\ JoinSound(p) /\ LocksHeld /\ ObjectsExist /\ ~fault
    BY Zenon DEF FlatInv
  <1>2. pc[p] # "none" => pid[p] # -1
    BY <1>1, Zenon DEF ObjectsExist
  <1>3. pid[p] \in Pid \cup {-1}
    BY <1>1, Zenon DEF ProcTypeOK
  <1>4. pm_lock = IF pc[p] \in Locking THEN p ELSE "free"
    BY <1>1, Zenon DEF LocksHeld, Locking
  <1>5. QED
    BY <1>1, <1>2, <1>3, <1>4, Zenon


(* The steps that change nothing but the caller's pc, arg, joined, ret and *)
(* child, and pm_lock.                                                     *)
Moves(p, l, a, j, r, c) ==
    /\ cpu = p /\ cpu' = p /\ pc' = [pc EXCEPT ![p] = l]
    /\ arg' = [arg EXCEPT ![p] = a] /\ joined' = [joined EXCEPT ![p] = j]
    /\ ret' = [ret EXCEPT ![p] = r] /\ child' = [child EXCEPT ![p] = c]
    /\ pid' = pid /\ status' = status /\ exiting' = exiting /\ processIDs' = processIDs
    /\ pcbs' = pcbs /\ joins' = joins /\ conditions' = conditions /\ locks' = locks
    /\ fault' = fault /\ pm_lock' = IF l \in Locking THEN p ELSE "free"

LEMMA Moved ==
    ASSUME ProcTypeOK, NEW p \in Process, NEW l, NEW a, NEW j, NEW r, NEW c,
           Moves(p, l, a, j, r, c)
    PROVE  /\ pc'[p] = l /\ arg'[p] = a
           /\ joined'[p] = j /\ ret'[p] = r /\ child'[p] = c
           /\ pid' = pid /\ status' = status /\ exiting' = exiting /\ processIDs' = processIDs
           /\ pcbs' = pcbs /\ joins' = joins
  BY Zenon DEF Moves, ProcTypeOK

LEMMA MoveKeeps ==
    ASSUME FlatInv, NEW p \in Process, NEW l \in Label, NEW a \in Pid \cup {-1},
           NEW j \in Process \cup {NULL}, NEW r \in Nat \cup {-1}, NEW c \in Process \cup {NULL},
           Moves(p, l, a, j, r, c),
           l \notin {"none", "JoinTest", "AddProcess", "ClearBit", "Spawned"},
           pc[p] \notin {"none", "JoinTest", "AddProcess", "ClearBit", "JoinWait"},
           CallSound(p)', JoinSound(p)',
           l \in Clearing /\ p \notin Joiner /\ a # -1 => joins[a] = 0
    PROVE  FlatInv'
  <1>1. ProcTypeOK /\ ~fault
    BY Zenon DEF FlatInv
  <1>2. pm_lock' \in Process \cup {"free"} /\ ~fault'
    BY <1>1, Zenon DEF Moves
  <1>3. ProcTypeOK'
    BY <1>1, <1>2, Zenon DEF ProcTypeOK, Moves
  <1>4. \A q \in Process \ {p} :
           /\ arg'[q] = arg[q] /\ joined'[q] = joined[q] /\ (q \in exiting' <=> q \in exiting)
           /\ pc[q] \in {"JoinWait", "JoinWake"} => joins'[arg[q]] > 0
    BY <1>1, Waiting, Zenon DEF ProcTypeOK, Moves
  <1>5. l \in Clearing /\ p \notin Joiner /\ arg'[p] # -1 => joins'[arg'[p]] = 0
    BY <1>1, Moved, Zenon
  <1>6. QED
    BY <1>2, <1>3, <1>4, <1>5, OwnStep, Zenon DEF Moves


LEMMA SpawnReturnKeeps ==
    ASSUME FlatInv, NEW p \in Process, SpawnReturn(p)
    PROVE  FlatInv'
  <1>1. cpu = p /\ pc[p] = "SpawnReturn"
    BY Zenon DEF SpawnReturn, At
  <1>2. /\ ProcTypeOK /\ CallSound(p) /\ JoinSound(p) /\ pid[p] \in Pid /\ pid[p] # -1
        /\ pm_lock = "free"
    BY <1>1, Running, Zenon DEF Locking
  <1>3. Moves(p, "user", arg[p], joined[p], ret[p], NULL)
    BY <1>1, <1>2, Zenon DEF SpawnReturn, At, Goto, exits, tables, Moves, Locking, ProcTypeOK
  <1>4. /\ "user" \in Label /\ arg[p] \in Pid \cup {-1} /\ joined[p] \in Process \cup {NULL}
        /\ ret[p] \in Nat \cup {-1} /\ child[p] \in Process \cup {NULL}
        /\ NULL \in Process \cup {NULL}
    BY <1>2, Labels, Zenon DEF ProcTypeOK, Label
  <1>5. /\ pc'[p] = "user" /\ arg'[p] = arg[p]
        /\ joined'[p] = joined[p] /\ ret'[p] = ret[p] /\ child'[p] = NULL
        /\ pid' = pid /\ status' = status /\ exiting' = exiting /\ processIDs' = processIDs
        /\ pcbs' = pcbs /\ joins' = joins
    BY <1>2, <1>3, Moved, Zenon
  <1>6. CallSound(p)'
    BY <1>1, <1>2, <1>5, Zenon DEF CallSound, Clearing, Joining
  <1>7. JoinSound(p)'
    BY <1>1, <1>2, <1>5, Zenon DEF JoinSound, CallSound, Clearing, Joining
  <1>8. /\ "user" \notin {"none", "JoinTest", "AddProcess", "ClearBit", "Spawned"}
        /\ pc[p] \notin {"none", "JoinTest", "AddProcess", "ClearBit", "JoinWait"}
    BY <1>1, Zenon
  <1>9. "user" \in Clearing /\ p \notin Joiner /\ arg[p] # -1 => joins[arg[p]] = 0
    BY <1>1, <1>2, Zenon DEF Clearing
  <1>10. QED
    BY <1>3, <1>4, <1>6, <1>7, <1>8, <1>9, MoveKeeps, Zenon


LEMMA NotEnoughMemoryKeeps ==
    ASSUME FlatInv, NEW p \in Process, NotEnoughMemory(p)
    PROVE  FlatInv'
  <1>1. cpu = p /\ pc[p] = "Spawned"
    BY Zenon DEF NotEnoughMemory, At
  <1>2. /\ ProcTypeOK /\ CallSound(p) /\ JoinSound(p) /\ pid[p] \in Pid /\ pid[p] # -1
        /\ pm_lock = "free"
    BY <1>1, Running, Zenon DEF Locking
  <1>3. child[p] \in Process /\ joins[pid[child[p]]] = 0 /\ p \notin exiting
    BY <1>1, <1>2 DEF FlatInv, ClearsAlone, CallSound, Clearing, ProcTypeOK
  <1>4. Moves(p, "ClearPID", pid[child[p]], joined[p], ret[p], child[p])
    BY <1>1, <1>2, Zenon DEF NotEnoughMemory, At, Goto, exits, tables, Moves, Locking, ProcTypeOK
  <1>5. /\ "ClearPID" \in Label /\ arg[p] \in Pid \cup {-1} /\ joined[p] \in Process \cup {NULL}
        /\ ret[p] \in Nat \cup {-1} /\ child[p] \in Process \cup {NULL}
        /\ pid[child[p]] \in Pid \cup {-1}
    BY <1>2, <1>3, Labels, Zenon DEF ProcTypeOK, Label
  <1>6. /\ pc'[p] = "ClearPID" /\ arg'[p] = pid[child[p]]
        /\ joined'[p] = joined[p] /\ ret'[p] = ret[p] /\ child'[p] = child[p]
        /\ pid' = pid /\ status' = status /\ exiting' = exiting /\ processIDs' = processIDs
        /\ pcbs' = pcbs /\ joins' = joins
    BY <1>2, <1>4, Moved, Zenon
  <1>7. CallSound(p)'
    BY <1>1, <1>2, <1>3, <1>6, Zenon DEF CallSound, Clearing, Joining
  <1>8. JoinSound(p)'
    BY <1>1, <1>2, <1>3, <1>6, Zenon DEF JoinSound, CallSound, Clearing, Joining
  <1>9. /\ "ClearPID" \notin {"none", "JoinTest", "AddProcess", "ClearBit", "Spawned"}
        /\ pc[p] \notin {"none", "JoinTest", "AddProcess", "ClearBit", "JoinWait"}
    BY <1>1, Zenon
  <1>10. "ClearPID" \in Clearing /\ p \notin Joiner /\ pid[child[p]] # -1 => joins[pid[child[p]]] = 0
    BY <1>1, <1>2, <1>3, Zenon DEF Clearing
  <1>11. QED
    BY <1>4, <1>5, <1>7, <1>8, <1>9, <1>10, MoveKeeps, Zenon


LEMMA CallJoinKeeps ==
    ASSUME FlatInv, NEW p \in Process, NEW i \in Pid, CallJoin(p, i)
    PROVE  FlatInv'
  <1>1. cpu = p /\ pc[p] = "user"
    BY Zenon DEF CallJoin, At
  <1>2. /\ ProcTypeOK /\ CallSound(p) /\ JoinSound(p) /\ pid[p] \in Pid /\ pid[p] # -1
        /\ pm_lock = "free"
    BY <1>1, Running, Zenon DEF Locking
  <1>3. p \in Joiner /\ p \notin exiting
    BY <1>1, <1>2, Zenon DEF CallJoin, CallSound, Clearing
  <1>4. Moves(p, "Join", i, joined[p], ret[p], child[p])
    BY <1>1, <1>2, Zenon DEF CallJoin, At, Goto, exits, tables, Moves, Locking, ProcTypeOK
  <1>5. /\ "Join" \in Label /\ arg[p] \in Pid \cup {-1} /\ joined[p] \in Process \cup {NULL}
        /\ ret[p] \in Nat \cup {-1} /\ child[p] \in Process \cup {NULL}
        /\ i \in Pid \cup {-1}
    BY <1>2, <1>3, Labels, Zenon DEF ProcTypeOK, Label
  <1>6. /\ pc'[p] = "Join" /\ arg'[p] = i
        /\ joined'[p] = joined[p] /\ ret'[p] = ret[p] /\ child'[p] = child[p]
        /\ pid' = pid /\ status' = status /\ exiting' = exiting /\ processIDs' = processIDs
        /\ pcbs' = pcbs /\ joins' = joins
    BY <1>2, <1>4, Moved, Zenon
  <1>7. CallSound(p)'
    BY <1>1, <1>2, <1>3, <1>6, Zenon DEF CallSound, Clearing, Joining
  <1>8. JoinSound(p)'
    BY <1>1, <1>2, <1>3, <1>6, Zenon DEF JoinSound, CallSound, Clearing, Joining
  <1>9. /\ "Join" \notin {"none", "JoinTest", "AddProcess", "ClearBit", "Spawned"}
        /\ pc[p] \notin {"none", "JoinTest", "AddProcess", "ClearBit", "JoinWait"}
    BY <1>1, Zenon
  <1>10. "Join" \in Clearing /\ p \notin Joiner /\ i # -1 => joins[i] = 0
    BY <1>1, <1>2, <1>3, Zenon DEF Clearing
  <1>11. QED
    BY <1>4, <1>5, <1>7, <1>8, <1>9, <1>10, MoveKeeps, Zenon


LEMMA ReadStatusKeeps ==
    ASSUME FlatInv, NEW p \in Process, ReadStatus(p)
    PROVE  FlatInv'
  <1>1. cpu = p /\ pc[p] = "ReadStatus"
    BY Zenon DEF ReadStatus, At
  <1>2. /\ ProcTypeOK /\ CallSound(p) /\ JoinSound(p) /\ pid[p] \in Pid /\ pid[p] # -1
        /\ pm_lock = "free"
    BY <1>1, Running, Zenon DEF Locking
  <1>3. arg[p] \in Pid /\ pcbs[arg[p]] \in Process
    BY <1>1, <1>2, Zenon DEF ReadStatus, NoObject, CallSound, ProcTypeOK
  <1>4. Moves(p, "GetJoins", arg[p], joined[p], status[pcbs[arg[p]]], child[p])
    BY <1>1, <1>2, Zenon DEF ReadStatus, At, Goto, exits, tables, Moves, Locking, ProcTypeOK
  <1>5. /\ "GetJoins" \in Label /\ arg[p] \in Pid \cup {-1} /\ joined[p] \in Process \cup {NULL}
        /\ ret[p] \in Nat \cup {-1} /\ child[p] \in Process \cup {NULL}
        /\ status[pcbs[arg[p]]] \in Nat \cup {-1}
    BY <1>2, <1>3, Labels, Zenon DEF ProcTypeOK, Label
  <1>6. /\ pc'[p] = "GetJoins" /\ arg'[p] = arg[p]
        /\ joined'[p] = joined[p] /\ ret'[p] = status[pcbs[arg[p]]] /\ child'[p] = child[p]
        /\ pid' = pid /\ status' = status /\ exiting' = exiting /\ processIDs' = processIDs
        /\ pcbs' = pcbs /\ joins' = joins
    BY <1>2, <1>4, Moved, Zenon
  <1>7. CallSound(p)'
    BY <1>1, <1>2, <1>3, <1>6, Zenon DEF CallSound, Clearing, Joining
  <1>8. JoinSound(p)'
    BY <1>1, <1>2, <1>3, <1>6 DEF JoinSound, CallSound, Clearing, Joining
  <1>9. /\ "GetJoins" \notin {"none", "JoinTest", "AddProcess", "ClearBit", "Spawned"}
        /\ pc[p] \notin {"none", "JoinTest", "AddProcess", "ClearBit", "JoinWait"}
    BY <1>1, Zenon
  <1>10. "GetJoins" \in Clearing /\ p \notin Joiner /\ arg[p] # -1 => joins[arg[p]] = 0
    BY <1>1, <1>2, <1>3, Zenon DEF Clearing
  <1>11. QED
    BY <1>4, <1>5, <1>7, <1>8, <1>9, <1>10, MoveKeeps, Zenon


LEMMA JoinFoundKeeps ==
    ASSUME FlatInv, NEW p \in Process, Join(p), arg[p] \in processIDs
    PROVE  FlatInv'
  <1>1. cpu = p /\ pc[p] = "Join"
    BY Zenon DEF Join, At
  <1>2. /\ ProcTypeOK /\ CallSound(p) /\ JoinSound(p) /\ pid[p] \in Pid /\ pid[p] # -1
    BY <1>1, Running, Zenon
  <1>3. arg[p] \in Pid /\ pcbs[arg[p]] # NULL
    BY <1>1, <1>2, Zenon DEF FlatInv, ObjectsExist, ProcTypeOK
  <1>4. p \in Joiner /\ p \notin exiting
    BY <1>1, <1>2, Zenon DEF CallSound, Clearing
  <1>5. Moves(p, "JoinLock", arg[p], pcbs[arg[p]], ret[p], child[p])
    BY <1>1, <1>2, Zenon DEF Join, At, Goto, exits, tables, Moves, Locking, ProcTypeOK
  <1>6. /\ "JoinLock" \in Label /\ arg[p] \in Pid \cup {-1} /\ joined[p] \in Process \cup {NULL}
        /\ ret[p] \in Nat \cup {-1} /\ child[p] \in Process \cup {NULL}
        /\ pcbs[arg[p]] \in Process \cup {NULL}
    BY <1>2, <1>3, <1>4, Labels, Zenon DEF ProcTypeOK, Label
  <1>7. /\ pc'[p] = "JoinLock" /\ arg'[p] = arg[p]
        /\ joined'[p] = pcbs[arg[p]] /\ ret'[p] = ret[p] /\ child'[p] = child[p]
        /\ pid' = pid /\ status' = status /\ exiting' = exiting /\ processIDs' = processIDs
        /\ pcbs' = pcbs /\ joins' = joins
    BY <1>2, <1>5, Moved, Zenon
  <1>8. CallSound(p)'
    BY <1>1, <1>2, <1>3, <1>4, <1>7, Zenon DEF CallSound, Clearing, Joining
  <1>9. JoinSound(p)'
    BY <1>1, <1>2, <1>3, <1>4, <1>7, Zenon DEF JoinSound, CallSound, Clearing, Joining
  <1>10. /\ "JoinLock" \notin {"none", "JoinTest", "AddProcess", "ClearBit", "Spawned"}
        /\ pc[p] \notin {"none", "JoinTest", "AddProcess", "ClearBit", "JoinWait"}
    BY <1>1, Zenon
  <1>11. "JoinLock" \in Clearing /\ p \notin Joiner /\ arg[p] # -1 => joins[arg[p]] = 0
    BY <1>1, <1>2, <1>3, <1>4, Zenon DEF Clearing
  <1>12. QED
    BY <1>5, <1>6, <1>8, <1>9, <1>10, <1>11, MoveKeeps, Zenon


LEMMA JoinNotFoundKeeps ==
    ASSUME FlatInv, NEW p \in Process, Join(p), arg[p] \notin processIDs
    PROVE  FlatInv'
  <1>1. cpu = p /\ pc[p] = "Join"
    BY Zenon DEF Join, At
  <1>2. /\ ProcTypeOK /\ CallSound(p) /\ JoinSound(p) /\ pid[p] \in Pid /\ pid[p] # -1
        /\ pm_lock = "free"
    BY <1>1, Running, Zenon DEF Locking
  <1>3. joined[p] = NULL
    BY <1>1, <1>2, Zenon DEF JoinSound, Joining, Clearing
  <1>4. Moves(p, "DecrementJoins", arg[p], joined[p], ret[p], child[p])
    BY <1>1, <1>2, Zenon DEF Join, At, Goto, exits, tables, Moves, Locking, ProcTypeOK
  <1>5. /\ "DecrementJoins" \in Label /\ arg[p] \in Pid \cup {-1}
        /\ joined[p] \in Process \cup {NULL}
        /\ ret[p] \in Nat \cup {-1} /\ child[p] \in Process \cup {NULL}
    BY <1>2, <1>3, Labels, Zenon DEF ProcTypeOK, Label
  <1>6. /\ pc'[p] = "DecrementJoins" /\ arg'[p] = arg[p]
        /\ joined'[p] = joined[p] /\ ret'[p] = ret[p] /\ child'[p] = child[p]
        /\ pid' = pid /\ status' = status /\ exiting' = exiting /\ processIDs' = processIDs
        /\ pcbs' = pcbs /\ joins' = joins
    BY <1>2, <1>4, Moved, Zenon
  <1>7. CallSound(p)'
    BY <1>1, <1>2, <1>3, <1>6, Zenon DEF CallSound, Clearing, Joining
  <1>8. JoinSound(p)'
    BY <1>1, <1>2, <1>3, <1>6, Zenon DEF JoinSound, CallSound, Clearing, Joining
  <1>9. /\ "DecrementJoins" \notin {"none", "JoinTest", "AddProcess", "ClearBit", "Spawned"}
        /\ pc[p] \notin {"none", "JoinTest", "AddProcess", "ClearBit", "JoinWait"}
    BY <1>1, Zenon
  <1>10. "DecrementJoins" \in Clearing /\ p \notin Joiner /\ arg[p] # -1 => joins[arg[p]] = 0
    BY <1>1, <1>2, <1>3, Zenon DEF Clearing
  <1>11. QED
    BY <1>4, <1>5, <1>7, <1>8, <1>9, <1>10, MoveKeeps, Zenon


LEMMA GetStatusFoundKeeps ==
    ASSUME FlatInv, NEW p \in Process, GetStatus(p), arg[p] \in processIDs
    PROVE  FlatInv'
  <1>1. cpu = p /\ pc[p] = "GetStatus"
    BY Zenon DEF GetStatus, At
  <1>2. /\ ProcTypeOK /\ CallSound(p) /\ JoinSound(p) /\ pid[p] \in Pid /\ pid[p] # -1
        /\ pm_lock = "free"
    BY <1>1, Running, Zenon DEF Locking
  <1>3. Moves(p, "ReadStatus", arg[p], joined[p], ret[p], child[p])
    BY <1>1, <1>2, Zenon DEF GetStatus, At, Goto, exits, tables, Moves, Locking, ProcTypeOK
  <1>4. /\ "ReadStatus" \in Label /\ arg[p] \in Pid \cup {-1} /\ joined[p] \in Process \cup {NULL}
        /\ ret[p] \in Nat \cup {-1} /\ child[p] \in Process \cup {NULL}
    BY <1>2, Labels, Zenon DEF ProcTypeOK, Label
  <1>5. /\ pc'[p] = "ReadStatus" /\ arg'[p] = arg[p]
        /\ joined'[p] = joined[p] /\ ret'[p] = ret[p] /\ child'[p] = child[p]
        /\ pid' = pid /\ status' = status /\ exiting' = exiting /\ processIDs' = processIDs
        /\ pcbs' = pcbs /\ joins' = joins
    BY <1>2, <1>3, Moved, Zenon
  <1>6. CallSound(p)'
    BY <1>1, <1>2, <1>5, Zenon DEF CallSound, Clearing, Joining
  <1>7. JoinSound(p)'
    BY <1>1, <1>2, <1>5, Zenon DEF JoinSound, CallSound, Clearing, Joining
  <1>8. /\ "ReadStatus" \notin {"none", "JoinTest", "AddProcess", "ClearBit", "Spawned"}
        /\ pc[p] \notin {"none", "JoinTest", "AddProcess", "ClearBit", "JoinWait"}
    BY <1>1, Zenon
  <1>9. "ReadStatus" \in Clearing /\ p \notin Joiner /\ arg[p] # -1 => joins[arg[p]] = 0
    BY <1>1, <1>2, Zenon DEF Clearing
  <1>10. QED
    BY <1>3, <1>4, <1>6, <1>7, <1>8, <1>9, MoveKeeps, Zenon


LEMMA GetStatusNotFoundKeeps ==
    ASSUME FlatInv, NEW p \in Process, GetStatus(p), arg[p] \notin processIDs
    PROVE  FlatInv'
  <1>1. cpu = p /\ pc[p] = "GetStatus"
    BY Zenon DEF GetStatus, At
  <1>2. /\ ProcTypeOK /\ CallSound(p) /\ JoinSound(p) /\ pid[p] \in Pid /\ pid[p] # -1
        /\ pm_lock = "free"
    BY <1>1, Running, Zenon DEF Locking
  <1>3. Moves(p, "GetJoins", arg[p], joined[p], ret[p], child[p])
    BY <1>1, <1>2, Zenon DEF GetStatus, At, Goto, exits, tables, Moves, Locking, ProcTypeOK
  <1>4. /\ "GetJoins" \in Label /\ arg[p] \in Pid \cup {-1} /\ joined[p] \in Process \cup {NULL}
        /\ ret[p] \in Nat \cup {-1} /\ child[p] \in Process \cup {NULL}
    BY <1>2, Labels, Zenon DEF ProcTypeOK, Label
  <1>5. /\ pc'[p] = "GetJoins" /\ arg'[p] = arg[p]
        /\ joined'[p] = joined[p] /\ ret'[p] = ret[p] /\ child'[p] = child[p]
        /\ pid' = pid /\ status' = status /\ exiting' = exiting /\ processIDs' = processIDs
        /\ pcbs' = pcbs /\ joins' = joins
    BY <1>2, <1>3, Moved, Zenon
  <1>6. CallSound(p)'
    BY <1>1, <1>2, <1>5, Zenon DEF CallSound, Clearing, Joining
  <1>7. JoinSound(p)'
    BY <1>1, <1>2, <1>5, Zenon DEF JoinSound, CallSound, Clearing, Joining
  <1>8. /\ "GetJoins" \notin {"none", "JoinTest", "AddProcess", "ClearBit", "Spawned"}
        /\ pc[p] \notin {"none", "JoinTest", "AddProcess", "ClearBit", "JoinWait"}
    BY <1>1, Zenon
  <1>9. "GetJoins" \in Clearing /\ p \notin Joiner /\ arg[p] # -1 => joins[arg[p]] = 0
    BY <1>1, <1>2, Zenon DEF Clearing
  <1>10. QED
    BY <1>3, <1>4, <1>6, <1>7, <1>8, <1>9, MoveKeeps, Zenon


LEMMA GetJoinsFoundKeeps ==
    ASSUME FlatInv, NEW p \in Process, GetJoins(p), arg[p] \in processIDs
    PROVE  FlatInv'
  <1>1. cpu = p /\ pc[p] = "GetJoins"
    BY Zenon DEF GetJoins, At
  <1>2. /\ ProcTypeOK /\ CallSound(p) /\ JoinSound(p) /\ pid[p] \in Pid /\ pid[p] # -1
        /\ pm_lock = "free"
    BY <1>1, Running, Zenon DEF Locking
  <1>3. Moves(p, "ReadJoins", arg[p], joined[p], ret[p], child[p])
    BY <1>1, <1>2, Zenon DEF GetJoins, At, Goto, exits, tables, Moves, Locking, ProcTypeOK
  <1>4. /\ "ReadJoins" \in Label /\ arg[p] \in Pid \cup {-1} /\ joined[p] \in Process \cup {NULL}
        /\ ret[p] \in Nat \cup {-1} /\ child[p] \in Process \cup {NULL}
    BY <1>2, Labels, Zenon DEF ProcTypeOK, Label
  <1>5. /\ pc'[p] = "ReadJoins" /\ arg'[p] = arg[p]
        /\ joined'[p] = joined[p] /\ ret'[p] = ret[p] /\ child'[p] = child[p]
        /\ pid' = pid /\ status' = status /\ exiting' = exiting /\ processIDs' = processIDs
        /\ pcbs' = pcbs /\ joins' = joins
    BY <1>2, <1>3, Moved, Zenon
  <1>6. CallSound(p)'
    BY <1>1, <1>2, <1>5, Zenon DEF CallSound, Clearing, Joining
  <1>7. JoinSound(p)'
    BY <1>1, <1>2, <1>5, Zenon DEF JoinSound, CallSound, Clearing, Joining
  <1>8. /\ "ReadJoins" \notin {"none", "JoinTest", "AddProcess", "ClearBit", "Spawned"}
        /\ pc[p] \notin {"none", "JoinTest", "AddProcess", "ClearBit", "JoinWait"}
    BY <1>1, Zenon
  <1>9. "ReadJoins" \in Clearing /\ p \notin Joiner /\ arg[p] # -1 => joins[arg[p]] = 0
    BY <1>1, <1>2, Zenon DEF Clearing
  <1>10. QED
    BY <1>3, <1>4, <1>6, <1>7, <1>8, <1>9, MoveKeeps, Zenon


LEMMA ReadJoinsNoneKeeps ==
    ASSUME FlatInv, NEW p \in Process, ReadJoins(p), joins[arg[p]] = 0
    PROVE  FlatInv'
  <1>1. cpu = p /\ pc[p] = "ReadJoins"
    BY Zenon DEF ReadJoins, At
  <1>2. /\ ProcTypeOK /\ CallSound(p) /\ JoinSound(p) /\ pid[p] \in Pid /\ pid[p] # -1
        /\ pm_lock = "free"
    BY <1>1, Running, Zenon DEF Locking
  <1>3. p \notin Joiner => joins[pid[p]] = 0
    BY <1>1, <1>2, Zenon DEF CallSound, ReadJoins
  <1>4. Moves(p, "ClearPID", pid[p], joined[p], ret[p], child[p])
    BY <1>1, <1>2, Zenon DEF ReadJoins, At, Goto, exits, tables, Moves, Locking, ProcTypeOK
  <1>5. /\ "ClearPID" \in Label /\ arg[p] \in Pid \cup {-1} /\ joined[p] \in Process \cup {NULL}
        /\ ret[p] \in Nat \cup {-1} /\ child[p] \in Process \cup {NULL}
        /\ pid[p] \in Pid \cup {-1}
    BY <1>2, <1>3, Labels, Zenon DEF ProcTypeOK, Label
  <1>6. /\ pc'[p] = "ClearPID" /\ arg'[p] = pid[p]
        /\ joined'[p] = joined[p] /\ ret'[p] = ret[p] /\ child'[p] = child[p]
        /\ pid' = pid /\ status' = status /\ exiting' = exiting /\ processIDs' = processIDs
        /\ pcbs' = pcbs /\ joins' = joins
    BY <1>2, <1>4, Moved, Zenon
  <1>7. CallSound(p)'
    BY <1>1, <1>2, <1>3, <1>6, Zenon DEF CallSound, Clearing, Joining
  <1>8. JoinSound(p)'
    BY <1>1, <1>2, <1>3, <1>6, Zenon DEF JoinSound, CallSound, Clearing, Joining
  <1>9. /\ "ClearPID" \notin {"none", "JoinTest", "AddProcess", "ClearBit", "Spawned"}
        /\ pc[p] \notin {"none", "JoinTest", "AddProcess", "ClearBit", "JoinWait"}
    BY <1>1, Zenon
  <1>10. "ClearPID" \in Clearing /\ p \notin Joiner /\ pid[p] # -1 => joins[pid[p]] = 0
    BY <1>1, <1>2, <1>3, Zenon DEF Clearing
  <1>11. QED
    BY <1>4, <1>5, <1>7, <1>8, <1>9, <1>10, MoveKeeps, Zenon


LEMMA ClearPIDFoundKeeps ==
    ASSUME FlatInv, NEW p \in Process, ClearPID(p), arg[p] \in processIDs
    PROVE  FlatInv'
  <1>1. cpu = p /\ pc[p] = "ClearPID"
    BY Zenon DEF ClearPID, At
  <1>2. /\ ProcTypeOK /\ CallSound(p) /\ JoinSound(p) /\ pid[p] \in Pid /\ pid[p] # -1
    BY <1>1, Running, Zenon
  <1>3. p \notin Joiner /\ arg[p] # -1 => joins[arg[p]] = 0
    BY <1>1, <1>2, Zenon DEF FlatInv, ClearsAlone, Clearing
  <1>4. Moves(p, "ClearLock", arg[p], joined[p], ret[p], child[p])
    BY <1>1, <1>2, Zenon DEF ClearPID, At, Goto, exits, tables, Moves, Locking, ProcTypeOK
  <1>5. /\ "ClearLock" \in Label /\ arg[p] \in Pid \cup {-1} /\ joined[p] \in Process \cup {NULL}
        /\ ret[p] \in Nat \cup {-1} /\ child[p] \in Process \cup {NULL}
    BY <1>2, <1>3, Labels, Zenon DEF ProcTypeOK, Label
  <1>6. /\ pc'[p] = "ClearLock" /\ arg'[p] = arg[p]
        /\ joined'[p] = joined[p] /\ ret'[p] = ret[p] /\ child'[p] = child[p]
        /\ pid' = pid /\ status' = status /\ exiting' = exiting /\ processIDs' = processIDs
        /\ pcbs' = pcbs /\ joins' = joins
    BY <1>2, <1>4, Moved, Zenon
  <1>7. CallSound(p)'
    BY <1>1, <1>2, <1>3, <1>6, Zenon DEF CallSound, Clearing, Joining
  <1>8. JoinSound(p)'
    BY <1>1, <1>2, <1>3, <1>6, Zenon DEF JoinSound, CallSound, Clearing, Joining
  <1>9. /\ "ClearLock" \notin {"none", "JoinTest", "AddProcess", "ClearBit", "Spawned"}
        /\ pc[p] \notin {"none", "JoinTest", "AddProcess", "ClearBit", "JoinWait"}
    BY <1>1, Zenon
  <1>10. "ClearLock" \in Clearing /\ p \notin Joiner /\ arg[p] # -1 => joins[arg[p]] = 0
    BY <1>1, <1>2, <1>3, Zenon DEF Clearing
  <1>11. QED
    BY <1>4, <1>5, <1>7, <1>8, <1>9, <1>10, MoveKeeps, Zenon


LEMMA BroadcastFoundKeeps ==
    ASSUME FlatInv, NEW p \in Process, Broadcast(p), arg[p] \in processIDs
    PROVE  FlatInv'
  <1>1. cpu = p /\ pc[p] = "Broadcast"
    BY Zenon DEF Broadcast, At
  <1>2. /\ ProcTypeOK /\ CallSound(p) /\ JoinSound(p) /\ pid[p] \in Pid /\ pid[p] # -1
    BY <1>1, Running, Zenon
  <1>3. Moves(p, "BroadcastLock", arg[p], joined[p], ret[p], child[p])
    BY <1>1, <1>2, Zenon DEF Broadcast, At, Goto, exits, tables, Moves, Locking, ProcTypeOK
  <1>4. /\ "BroadcastLock" \in Label /\ arg[p] \in Pid \cup {-1}
        /\ joined[p] \in Process \cup {NULL}
        /\ ret[p] \in Nat \cup {-1} /\ child[p] \in Process \cup {NULL}
    BY <1>2, Labels, Zenon DEF ProcTypeOK, Label
  <1>5. /\ pc'[p] = "BroadcastLock" /\ arg'[p] = arg[p]
        /\ joined'[p] = joined[p] /\ ret'[p] = ret[p] /\ child'[p] = child[p]
        /\ pid' = pid /\ status' = status /\ exiting' = exiting /\ processIDs' = processIDs
        /\ pcbs' = pcbs /\ joins' = joins
    BY <1>2, <1>3, Moved, Zenon
  <1>6. CallSound(p)'
    BY <1>1, <1>2, <1>5, Zenon DEF CallSound, Clearing, Joining
  <1>7. JoinSound(p)'
    BY <1>1, <1>2, <1>5, Zenon DEF JoinSound, CallSound, Clearing, Joining
  <1>8. /\ "BroadcastLock" \notin {"none", "JoinTest", "AddProcess", "ClearBit", "Spawned"}
        /\ pc[p] \notin {"none", "JoinTest", "AddProcess", "ClearBit", "JoinWait"}
    BY <1>1, Zenon
  <1>9. "BroadcastLock" \in Clearing /\ p \notin Joiner /\ arg[p] # -1 => joins[arg[p]] = 0
    BY <1>1, <1>2 DEF Clearing
  <1>10. QED
    BY <1>3, <1>4, <1>6, <1>7, <1>8, <1>9, MoveKeeps, Zenon


LEMMA BroadcastNotFoundKeeps ==
    ASSUME FlatInv, NEW p \in Process, Broadcast(p), arg[p] \notin processIDs
    PROVE  FlatInv'
  <1>1. cpu = p /\ pc[p] = "Broadcast"
    BY Zenon DEF Broadcast, At
  <1>2. /\ ProcTypeOK /\ CallSound(p) /\ JoinSound(p) /\ pid[p] \in Pid /\ pid[p] # -1
        /\ pm_lock = "free"
    BY <1>1, Running, Zenon DEF Locking
  <1>3. joined[p] = NULL /\ p \in exiting
    BY <1>1, <1>2, Zenon DEF JoinSound, CallSound, Joining, Clearing
  <1>4. Moves(p, "GetJoins", arg[p], joined[p], ret[p], child[p])
    BY <1>1, <1>2, Zenon DEF Broadcast, At, Goto, exits, tables, Moves, Locking, ProcTypeOK
  <1>5. /\ "GetJoins" \in Label /\ arg[p] \in Pid \cup {-1} /\ joined[p] \in Process \cup {NULL}
        /\ ret[p] \in Nat \cup {-1} /\ child[p] \in Process \cup {NULL}
    BY <1>2, <1>3, Labels, Zenon DEF ProcTypeOK, Label
  <1>6. /\ pc'[p] = "GetJoins" /\ arg'[p] = arg[p]
        /\ joined'[p] = joined[p] /\ ret'[p] = ret[p] /\ child'[p] = child[p]
        /\ pid' = pid /\ status' = status /\ exiting' = exiting /\ processIDs' = processIDs
        /\ pcbs' = pcbs /\ joins' = joins
    BY <1>2, <1>4, Moved, Zenon
  <1>7. CallSound(p)'
    BY <1>1, <1>2, <1>3, <1>6, Zenon DEF CallSound, Clearing, Joining
  <1>8. JoinSound(p)'
    BY <1>1, <1>2, <1>3, <1>6, Zenon DEF JoinSound, CallSound, Clearing, Joining
  <1>9. /\ "GetJoins" \notin {"none", "JoinTest", "AddProcess", "ClearBit", "Spawned"}
        /\ pc[p] \notin {"none", "JoinTest", "AddProcess", "ClearBit", "JoinWait"}
    BY <1>1, Zenon
  <1>10. "GetJoins" \in Clearing /\ p \notin Joiner /\ arg[p] # -1 => joins[arg[p]] = 0
    BY <1>1, <1>2, <1>3, Zenon DEF Clearing
  <1>11. QED
    BY <1>4, <1>5, <1>7, <1>8, <1>9, <1>10, MoveKeeps, Zenon


LEMMA ReturnExitedKeeps ==
    ASSUME FlatInv, NEW p \in Process, cpu = p, pc[p] \in {"GetJoins", "ReadJoins", "ClearPID"}, Return(p),
           UNCHANGED <<cpu, arg, pid, exits, tables, fault>>, p \in exiting
    PROVE  FlatInv'
  <1>1. cpu = p /\ pc[p] \in {"GetJoins", "ReadJoins", "ClearPID"}
    BY Zenon
  <1>2. /\ ProcTypeOK /\ CallSound(p) /\ JoinSound(p) /\ pid[p] \in Pid /\ pid[p] # -1
        /\ pm_lock = "free"
    BY <1>1, Running, Zenon DEF Locking
  <1>3. Moves(p, "exited", arg[p], NULL, -1, NULL)
    BY <1>1, <1>2, Zenon DEF Return, Done, Goto, exits, tables, Moves, Locking, ProcTypeOK
  <1>4. /\ "exited" \in Label /\ arg[p] \in Pid \cup {-1} /\ joined[p] \in Process \cup {NULL}
        /\ ret[p] \in Nat \cup {-1} /\ child[p] \in Process \cup {NULL}
        /\ -1 \in Nat \cup {-1} /\ NULL \in Process \cup {NULL}
    BY <1>2, Labels, Zenon DEF ProcTypeOK, Label
  <1>5. /\ pc'[p] = "exited" /\ arg'[p] = arg[p]
        /\ joined'[p] = NULL /\ ret'[p] = -1 /\ child'[p] = NULL
        /\ pid' = pid /\ status' = status /\ exiting' = exiting /\ processIDs' = processIDs
        /\ pcbs' = pcbs /\ joins' = joins
    BY <1>2, <1>3, Moved, Zenon
  <1>6. CallSound(p)'
    BY <1>1, <1>2, <1>5, Zenon DEF CallSound, Clearing, Joining
  <1>7. JoinSound(p)'
    BY <1>1, <1>2, <1>5, Zenon DEF JoinSound, CallSound, Clearing, Joining
  <1>8. /\ "exited" \notin {"none", "JoinTest", "AddProcess", "ClearBit", "Spawned"}
        /\ pc[p] \notin {"none", "JoinTest", "AddProcess", "ClearBit", "JoinWait"}
    BY <1>1, Zenon
  <1>9. "exited" \in Clearing /\ p \notin Joiner /\ arg[p] # -1 => joins[arg[p]] = 0
    BY <1>1, <1>2, Zenon DEF Clearing
  <1>10. QED
    BY <1>3, <1>4, <1>6, <1>7, <1>8, <1>9, MoveKeeps, Zenon


LEMMA ReturnUserKeeps ==
    ASSUME FlatInv, NEW p \in Process, cpu = p, pc[p] \in {"GetJoins", "ReadJoins", "ClearPID"}, Return(p),
           UNCHANGED <<cpu, arg, pid, exits, tables, fault>>, p \notin exiting
    PROVE  FlatInv'
  <1>1. cpu = p /\ pc[p] \in {"GetJoins", "ReadJoins", "ClearPID"}
    BY Zenon
  <1>2. /\ ProcTypeOK /\ CallSound(p) /\ JoinSound(p) /\ pid[p] \in Pid /\ pid[p] # -1
        /\ pm_lock = "free"
    BY <1>1, Running, Zenon DEF Locking
  <1>3. Moves(p, "user", arg[p], NULL, -1, NULL)
    BY <1>1, <1>2, Zenon DEF Return, Done, Goto, exits, tables, Moves, Locking, ProcTypeOK
  <1>4. /\ "user" \in Label /\ arg[p] \in Pid \cup {-1} /\ joined[p] \in Process \cup {NULL}
        /\ ret[p] \in Nat \cup {-1} /\ child[p] \in Process \cup {NULL}
        /\ -1 \in Nat \cup {-1} /\ NULL \in Process \cup {NULL}
    BY <1>2, Labels, Zenon DEF ProcTypeOK, Label
  <1>5. /\ pc'[p] = "user" /\ arg'[p] = arg[p]
        /\ joined'[p] = NULL /\ ret'[p] = -1 /\ child'[p] = NULL
        /\ pid' = pid /\ status' = status /\ exiting' = exiting /\ processIDs' = processIDs
        /\ pcbs' = pcbs /\ joins' = joins
    BY <1>2, <1>3, Moved, Zenon
  <1>6. CallSound(p)'
    BY <1>1, <1>2, <1>5, Zenon DEF CallSound, Clearing, Joining
  <1>7. JoinSound(p)'
    BY <1>1, <1>2, <1>5, Zenon DEF JoinSound, CallSound, Clearing, Joining
  <1>8. /\ "user" \notin {"none", "JoinTest", "AddProcess", "ClearBit", "Spawned"}
        /\ pc[p] \notin {"none", "JoinTest", "AddProcess", "ClearBit", "JoinWait"}
    BY <1>1, Zenon
  <1>9. "user" \in Clearing /\ p \notin Joiner /\ arg[p] # -1 => joins[arg[p]] = 0
    BY <1>1, <1>2, Zenon DEF Clearing
  <1>10. QED
    BY <1>3, <1>4, <1>6, <1>7, <1>8, <1>9, MoveKeeps, Zenon

LEMMA CallExitKeeps ==
    ASSUME FlatInv, NEW p \in Process, NEW s \in ExitArg, CallExit(p, s)
    PROVE  FlatInv'
  <1>1. /\ cpu = p /\ cpu' = p /\ pc[p] = "user" /\ pc' = [pc EXCEPT ![p] = "Broadcast"]
        /\ arg' = [arg EXCEPT ![p] = pid[p]] /\ status' = [status EXCEPT ![p] = Clamp(s)]
        /\ exiting' = exiting \cup {p} /\ joined' = joined /\ ret' = ret /\ child' = child
        /\ pid' = pid /\ processIDs' = processIDs /\ pcbs' = pcbs /\ joins' = joins
        /\ conditions' = conditions /\ locks' = locks /\ fault' = fault /\ pm_lock' = pm_lock
    BY Zenon DEF CallExit, At, Goto, tables
  <1>2. /\ ProcTypeOK /\ CallSound(p) /\ JoinSound(p) /\ ~fault
        /\ pid[p] \in Pid /\ pid[p] # -1 /\ pm_lock = "free"
    BY <1>1, Running, Zenon DEF Locking
  <1>3. pm_lock' = IF "Broadcast" \in Locking THEN p ELSE "free"
    BY <1>1, <1>2, Zenon DEF Locking
  <1>4. Clamp(s) \in Nat \cup {-1} /\ "Broadcast" \in Label /\ pid[p] \in Pid \cup {-1}
    BY <1>2, ProcessAssumption, Labels DEF Clamp
  <1>5. ProcTypeOK'
    BY <1>1, <1>2, <1>4, Zenon DEF ProcTypeOK
  <1>6. joined[p] = NULL /\ p \in exiting'
    BY <1>1, <1>2, Zenon DEF JoinSound, Joining, Clearing
  <1>7. \A q \in Process \ {p} :
           /\ arg'[q] = arg[q] /\ joined'[q] = joined[q] /\ (q \in exiting' <=> q \in exiting)
           /\ pc[q] \in {"JoinWait", "JoinWake"} => joins'[arg[q]] > 0
    BY <1>1, <1>2, Waiting, Zenon DEF ProcTypeOK
  <1>8. pc'[p] = "Broadcast" /\ arg'[p] = pid'[p] /\ joined'[p] = NULL
    BY <1>1, <1>2, <1>6, Zenon DEF ProcTypeOK
  <1>9. CallSound(p)' /\ JoinSound(p)'
    BY <1>6, <1>8, Zenon DEF CallSound, JoinSound, Clearing, Joining
  <1>10. /\ "Broadcast" \notin {"none", "JoinTest", "AddProcess", "ClearBit", "Spawned"}
         /\ pc[p] \notin {"none", "JoinTest", "AddProcess", "ClearBit", "JoinWait"}
         /\ "Broadcast" \notin Clearing
    BY <1>1, Zenon DEF Clearing
  <1>11. QED
    BY <1>1, <1>2, <1>3, <1>4, <1>5, <1>7, <1>9, <1>10, OwnStep, Zenon

(* With one program that joins, nobody else waits while it runs, and       *)
(* nobody waits for a pid that is cleared.                                 *)
LEMMA NobodyWaits ==
    ASSUME FlatInv, OneJoiner, NEW p \in Process, p \in Joiner, NEW q \in Process \ {p}
    PROVE  pc[q] \notin {"JoinWait", "JoinWake"}
  BY Waiting, Zenon DEF OneJoiner

LEMMA ClearedApart ==
    ASSUME FlatInv, OneJoiner, NEW p \in Process, pc[p] \in {"ClearLock", "ClearBit"},
           NEW q \in Process \ {p}, pc[q] \in {"JoinWait", "JoinWake"}
    PROVE  arg[q] # arg[p] /\ arg[q] \in Pid /\ arg[p] \in Pid
  <1>1. arg[p] \in processIDs /\ arg[p] \in Pid
    BY Zenon DEF FlatInv, CallSound, ProcTypeOK
  <1>2. arg[p] # -1
    BY <1>1, ProcessAssumption DEF Pid
  <1>3. p \notin Joiner
    BY NobodyWaits, Zenon
  <1>4. joins[arg[p]] = 0
    BY <1>1, <1>2, <1>3, Zenon DEF FlatInv, ClearsAlone, Clearing
  <1>5. QED
    BY <1>1, <1>4, Waiting

LEMMA DecrementJoinsKeeps ==
    ASSUME FlatInv, OneJoiner, NEW p \in Process, DecrementJoins(p)
    PROVE  FlatInv'
  <1>1. /\ cpu = p /\ cpu' = p /\ pc[p] = "DecrementJoins" /\ pc' = [pc EXCEPT ![p] = "GetStatus"]
        /\ arg' = arg /\ joined' = joined /\ ret' = ret /\ child' = child /\ status' = status
        /\ exiting' = exiting /\ pid' = pid /\ processIDs' = processIDs /\ pcbs' = pcbs
        /\ conditions' = conditions /\ locks' = locks /\ fault' = fault /\ pm_lock' = pm_lock
    BY Zenon DEF DecrementJoins, At, Goto, exits
  <1>2. /\ ProcTypeOK /\ CallSound(p) /\ JoinSound(p) /\ ~fault /\ pm_lock = "free"
    BY <1>1, Running, Zenon DEF Locking
  <1>3. pm_lock' = IF "GetStatus" \in Locking THEN p ELSE "free"
    BY <1>1, <1>2, Zenon DEF Locking
  <1>4. joins' \in [Pid -> Nat]
    <2>1. arg[p] \in processIDs => arg[p] \in Pid
      BY <1>2, Zenon DEF ProcTypeOK
    <2>2. joins \in [Pid -> Nat]
      BY <1>2, Zenon DEF ProcTypeOK
    <2>3. QED
      BY <2>1, <2>2 DEF DecrementJoins
  <1>5. "GetStatus" \in Label
    BY Labels, Zenon DEF Label
  <1>6. ProcTypeOK'
    BY <1>1, <1>2, <1>4, <1>5, Zenon DEF ProcTypeOK
  <1>7. p \in Joiner
    BY <1>1, <1>2, Zenon DEF CallSound, Joining, Clearing
  <1>8. \A q \in Process \ {p} :
           /\ arg'[q] = arg[q] /\ joined'[q] = joined[q] /\ (q \in exiting' <=> q \in exiting)
           /\ pc[q] \in {"JoinWait", "JoinWake"} => joins'[arg[q]] > 0
    BY <1>1, <1>7, NobodyWaits, Zenon
  <1>9. pc'[p] = "GetStatus"
    BY <1>1, <1>2, Zenon DEF ProcTypeOK
  <1>10. CallSound(p)'
    BY <1>1, <1>2, <1>7, <1>9, Zenon DEF CallSound, Clearing, Joining
  <1>11. JoinSound(p)'
    BY <1>1, <1>2, <1>9, Zenon DEF JoinSound, Clearing, Joining
  <1>12. /\ "GetStatus" \notin {"none", "JoinTest", "AddProcess", "ClearBit", "Spawned"}
         /\ pc[p] \notin {"none", "JoinTest", "AddProcess", "ClearBit", "JoinWait"}
         /\ "GetStatus" \notin Clearing
    BY <1>1, Zenon DEF Clearing
  <1>13. QED
    BY <1>1, <1>2, <1>3, <1>5, <1>6, <1>8, <1>10, <1>11, <1>12, OwnStep, Zenon

LEMMA NobodyClears ==
    ASSUME cpu' \in Process,
           \A q \in Process : pc'[q] \notin Clearing /\ pc'[q] # "Spawned" /\ pc'[q] # "AddProcess",
           \A i \in Pid : \A q \in conditions'[i] : pc'[q] = "JoinWait" /\ arg'[q] = i
    PROVE  ClearsAlone'
  BY Zenon DEF ClearsAlone

(* Join takes locks[pid]: the first time, or woken. *)
LEMMA TakesLock ==
    ASSUME FlatInv, NEW p \in Process, JoinLock(p) \/ JoinWake(p)
    PROVE  FlatInv'
  <1>1. /\ cpu = p /\ cpu' = p /\ pc[p] \in {"JoinLock", "JoinWake"}
        /\ pc' = [pc EXCEPT ![p] = "JoinTest"] /\ locks' = [locks EXCEPT ![arg[p]] = p]
        /\ pm_lock' \in {pm_lock, "free"} /\ (pc[p] = "JoinLock" => pm_lock' = "free")
        /\ arg' = arg /\ joined' = joined /\ ret' = ret /\ child' = child /\ status' = status
        /\ exiting' = exiting /\ pid' = pid /\ processIDs' = processIDs /\ pcbs' = pcbs
        /\ conditions' = conditions /\ fault' = fault
    BY Zenon DEF JoinLock, JoinWake, At, Goto, exits
  <1>2. ProcTypeOK /\ CallSound(p) /\ JoinSound(p) /\ ~fault
    BY <1>1, Running, Zenon
  <1>3. pm_lock' = "free"
    BY <1>1, Running, Zenon DEF Locking
  <1>4. joined[p] # NULL /\ arg[p] \in processIDs /\ arg[p] \in Pid /\ joined[p] = pcbs[arg[p]]
    BY <1>1, <1>2, Zenon DEF JoinSound, Clearing, ProcTypeOK
  <1>5. /\ joins' \in [Pid -> Nat] /\ \A i \in Pid : joins'[i] >= joins[i]
        /\ joins'[arg[p]] > 0
    <2>1. joins \in [Pid -> Nat]
      BY <1>2, Zenon DEF ProcTypeOK
    <2>2. CASE JoinLock(p)
      <3>1. joins' = [joins EXCEPT ![arg[p]] = joins[arg[p]] + 1]
        BY <2>2, Zenon DEF JoinLock
      <3>2. QED
        BY <1>4, <2>1, <3>1
    <2>3. CASE JoinWake(p)
      <3>1. pc[p] = "JoinWake" /\ joins' = joins
        BY <2>3, Zenon DEF JoinWake, At
      <3>2. joins[arg[p]] > 0
        BY <3>1, Waiting, Zenon
      <3>3. QED
        BY <2>1, <3>1, <3>2
    <2>4. QED
      BY <2>2, <2>3, Zenon
  <1>6. "JoinTest" \in Label /\ "JoinTest" \in Joining
    BY Labels, Zenon
  <1>7. ProcTypeOK'
    BY <1>1, <1>2, <1>3, <1>4, <1>5, <1>6, Zenon DEF ProcTypeOK
  <1>8. pc'[p] = "JoinTest" /\ \A q \in Process \ {p} : pc'[q] = pc[q]
    BY <1>1, <1>2, Zenon DEF ProcTypeOK
  <1>9. \A q \in Process \ {p} :
           pc[q] \in {"JoinWait", "JoinWake"} =>
              /\ arg[q] \in processIDs' /\ pcbs'[arg[q]] = pcbs[arg[q]] /\ joins'[arg[q]] > 0
    <2>1. \A q \in Process \ {p} :
             pc[q] \in {"JoinWait", "JoinWake"} =>
                arg[q] \in processIDs /\ arg[q] \in Pid /\ joins[arg[q]] > 0
      BY Waiting, Zenon
    <2>2. QED
      BY <1>1, <1>2, <1>5, <2>1 DEF ProcTypeOK
  <1>10. \A q \in Process \ {p} :
           /\ pc'[q] \in Parked /\ (pc'[q] # "none" => pid'[q] # -1)
           /\ CallSound(q)' /\ JoinSound(q)'
    BY <1>1, <1>8, <1>9, Bystanders, Zenon
  <1>11. p \in Joiner /\ p \notin exiting
    BY <1>1, <1>2, Zenon DEF CallSound, Joining, Clearing
  <1>12. CallSound(p)' /\ JoinSound(p)'
    BY <1>1, <1>4, <1>5, <1>8, <1>11, Zenon DEF CallSound, JoinSound, Clearing, Joining
  <1>13. LocksHeld'
    <2>1. \A i \in Pid : locks[i] \notin Process
      BY <1>1, Zenon DEF FlatInv, LocksHeld
    <2>2. locks'[arg[p]] = p /\ \A i \in Pid : i # arg[p] => locks'[i] = locks[i]
      BY <1>1, <1>2, <1>4, Zenon DEF ProcTypeOK
    <2>3. \A i \in Pid : locks'[i] \in Process <=>
                            pc'[p] = "JoinTest" /\ arg'[p] = i /\ locks'[i] = p
      BY <1>1, <1>8, <2>1, <2>2, Zenon
    <2>4. pm_lock' = IF pc'[p] \in {"JoinLock", "ClearLock", "ClearBit", "BroadcastLock"}
                       THEN p ELSE "free"
      BY <1>3, <1>8, Zenon
    <2>5. QED
      BY <1>1, <1>10, <2>2, <2>3, <2>4, Zenon DEF LocksHeld
  <1>14. ObjectsExist'
    <2>1. \A i \in processIDs : pcbs[i] # NULL /\ locks[i] # "none" /\ i \in Pid
      BY <1>1, <1>2 DEF FlatInv, ObjectsExist, ProcTypeOK
    <2>2. \A i \in processIDs : locks'[i] # "none"
      BY <1>1, <1>2, <2>1, ProcessAssumption, Zenon DEF ProcTypeOK
    <2>3. \A i \in processIDs : \E q \in Process : pid[q] = i
      BY Zenon DEF FlatInv, ObjectsExist
    <2>4. pc[p] # "none"
      BY <1>1, Zenon
    <2>5. pid[p] # -1
      BY <2>4, Zenon DEF FlatInv, ObjectsExist
    <2>6. QED
      BY <1>1, <1>10, <2>1, <2>2, <2>3, <2>5, Zenon DEF ObjectsExist
  <1>15. ClearsAlone'
    <2>1. \A q \in Process : pc'[q] \notin Clearing /\ pc'[q] # "Spawned" /\ pc'[q] # "AddProcess"
      BY <1>8, <1>10, Zenon DEF Parked, Clearing
    <2>2. \A i \in Pid : \A q \in conditions[i] :
             q \in Process /\ q # p /\ pc[q] = "JoinWait" /\ arg[q] = i
      BY <1>1, <1>2 DEF FlatInv, ClearsAlone, ProcTypeOK
    <2>3. \A i \in Pid : \A q \in conditions'[i] : pc'[q] = "JoinWait" /\ arg'[q] = i
      <3>1. conditions' = conditions /\ arg' = arg
        BY <1>1, Zenon
      <3>2. QED
        BY <1>8, <2>2, <3>1
    <2>4. QED
      BY <1>1, <2>1, <2>3, NobodyClears, Zenon
  <1>16. QED
    BY <1>1, <1>2, <1>7, <1>10, <1>12, <1>13, <1>14, <1>15, Zenon DEF FlatInv

LEMMA Sleeping ==
    ASSUME FlatInv, NEW i \in Pid, NEW q \in conditions[i]
    PROVE  q \in Process /\ pc[q] = "JoinWait" /\ arg[q] = i
  BY Zenon DEF FlatInv, ClearsAlone, ProcTypeOK

LEMMA JoinTestKeeps ==
    ASSUME FlatInv, NEW p \in Process, JoinTest(p)
    PROVE  FlatInv'
  <1>1. /\ cpu = p /\ cpu' = p /\ pc[p] = "JoinTest"
        /\ pc'= [pc EXCEPT ![p] = IF status[pcbs[arg[p]]] > -1 THEN "DecrementJoins" ELSE "JoinWait"]
        /\ locks' = IF locks[arg[p]] = p THEN [locks EXCEPT ![arg[p]] = "free"] ELSE locks
        /\ \/ conditions' = conditions
           \/ /\ conditions' = [conditions EXCEPT ![arg[p]] = @ \cup {p}]
              /\ ~(status[pcbs[arg[p]]] > -1)
        /\ arg' = arg /\ joined' = joined /\ ret' = ret /\ child' = child /\ status' = status
        /\ exiting' = exiting /\ pid' = pid /\ processIDs' = processIDs /\ pcbs' = pcbs
        /\ joins' = joins /\ pm_lock' = pm_lock /\ fault' = fault
    BY Zenon DEF JoinTest, At, Goto, exits
  <1>2. ProcTypeOK /\ CallSound(p) /\ JoinSound(p) /\ ~fault /\ pid[p] # -1 /\ pm_lock = "free"
    BY <1>1, Running, Zenon DEF Locking
  <1>3. /\ joined[p] # NULL /\ arg[p] \in processIDs /\ arg[p] \in Pid /\ joined[p] = pcbs[arg[p]]
        /\ joins[arg[p]] > 0
    BY <1>1, <1>2, Zenon DEF JoinSound, Clearing, ProcTypeOK
  <1>4. locks' = [locks EXCEPT ![arg[p]] = "free"]
    BY <1>1, Zenon DEF FlatInv, LocksHeld
  <1>5. PICK l \in {"DecrementJoins", "JoinWait"} :
           /\ pc' = [pc EXCEPT ![p] = l] /\ (l = "DecrementJoins" => status[joined[p]] > -1)
           /\ conditions' # conditions => l = "JoinWait"
    BY <1>1, <1>3, Zenon
  <1>6. l \in Label /\ conditions' \in [Pid -> SUBSET Process]
    <2>1. "DecrementJoins" \in Label /\ "JoinWait" \in Label
      BY Labels, Zenon DEF Label
    <2>2. conditions \in [Pid -> SUBSET Process]
      BY <1>2, Zenon DEF ProcTypeOK
    <2>3. QED
      BY <1>1, <1>3, <2>1, <2>2
  <1>7. ProcTypeOK'
    <2>1. /\ arg' = arg /\ joined' = joined /\ ret' = ret /\ child' = child /\ status' = status
          /\ exiting' = exiting /\ pid' = pid /\ processIDs' = processIDs /\ pcbs' = pcbs
          /\ joins' = joins /\ pm_lock' = pm_lock /\ cpu' = cpu
      BY <1>1, Zenon
    <2>2. QED
      BY <1>2, <1>3, <1>4, <1>5, <1>6, <2>1, Zenon DEF ProcTypeOK
  <1>8. pc'[p] = l /\ \A q \in Process \ {p} : pc'[q] = pc[q]
    BY <1>2, <1>5, Zenon DEF ProcTypeOK
  <1>9. \A q \in Process \ {p} :
           /\ pc'[q] \in Parked /\ (pc'[q] # "none" => pid'[q] # -1)
           /\ CallSound(q)' /\ JoinSound(q)'
    BY <1>1, <1>8, Waiting, Bystanders, Zenon
  <1>10. p \in Joiner /\ p \notin exiting
    BY <1>1, <1>2, Zenon DEF CallSound, Joining, Clearing
  <1>11. CallSound(p)' /\ JoinSound(p)'
    BY <1>1, <1>3, <1>5, <1>8, <1>10, Zenon DEF CallSound, JoinSound, Clearing, Joining
  <1>12. locks'[arg[p]] = "free" /\ \A i \in Pid : i # arg[p] => locks'[i] = locks[i]
    BY <1>2, <1>3, <1>4, Zenon DEF ProcTypeOK
  <1>13. LocksHeld'
    <2>1. \A i \in Pid : locks[i] \in Process => i = arg[p]
      BY <1>1, Zenon DEF FlatInv, LocksHeld
    <2>2. \A i \in Pid : locks'[i] \notin Process
      BY <1>12, <2>1, ProcessAssumption, Zenon
    <2>3. pc'[p] # "JoinTest" /\ pc'[p] \notin {"JoinLock", "ClearLock", "ClearBit", "BroadcastLock"}
      BY <1>8, Zenon
    <2>4. QED
      BY <1>1, <1>2, <1>9, <2>2, <2>3, Zenon DEF LocksHeld
  <1>14. ObjectsExist'
    <2>1. \A i \in processIDs : pcbs[i] # NULL /\ locks[i] # "none" /\ i \in Pid
      BY <1>1, <1>2 DEF FlatInv, ObjectsExist, ProcTypeOK
    <2>2. \A i \in processIDs : locks'[i] # "none"
      BY <1>12, <2>1, Zenon
    <2>3. \A i \in processIDs : \E q \in Process : pid[q] = i
      BY Zenon DEF FlatInv, ObjectsExist
    <2>4. QED
      BY <1>1, <1>2, <1>9, <2>1, <2>2, <2>3, Zenon DEF ObjectsExist
  <1>15. ClearsAlone'
    <2>1. \A q \in Process : pc'[q] \notin Clearing /\ pc'[q] # "Spawned" /\ pc'[q] # "AddProcess"
      BY <1>8, <1>9, Zenon DEF Parked, Clearing
    <2>2. \A i \in Pid : \A q \in conditions[i] : q \in Process \ {p} /\ pc[q] = "JoinWait" /\ arg[q] = i
      BY <1>1, Sleeping, Zenon
    <2>3. \A i \in Pid : \A q \in conditions'[i] :
             q \in conditions[i] \/ (q = p /\ i = arg[p] /\ l = "JoinWait")
      BY <1>1, <1>2, <1>3, <1>5 DEF ProcTypeOK
    <2>4. \A i \in Pid : \A q \in conditions'[i] : pc'[q] = "JoinWait" /\ arg'[q] = i
      BY <1>1, <1>8, <2>2, <2>3
    <2>5. QED
      BY <1>1, <2>1, <2>4, NobodyClears, Zenon
  <1>16. QED
    BY <1>1, <1>2, <1>7, <1>9, <1>11, <1>13, <1>14, <1>15, Zenon DEF FlatInv

LEMMA ClearLockKeeps ==
    ASSUME FlatInv, OneJoiner, NEW p \in Process, ClearLock(p)
    PROVE  FlatInv'
  <1>1. /\ cpu = p /\ cpu' = p /\ pc[p] = "ClearLock" /\ pc'= [pc EXCEPT ![p] = "ClearBit"]
        /\ pcbs' = [pcbs EXCEPT ![arg[p]] = NULL]
        /\ conditions' = [conditions EXCEPT ![arg[p]] = {}]
        /\ arg' = arg /\ joined' = joined /\ ret' = ret /\ child' = child /\ status' = status
        /\ exiting' = exiting /\ pid' = pid /\ processIDs' = processIDs /\ locks' = locks
        /\ joins' = joins /\ pm_lock' = pm_lock /\ fault' = fault
    BY Zenon DEF ClearLock, At, Goto, exits
  <1>2. ProcTypeOK /\ CallSound(p) /\ JoinSound(p) /\ ~fault /\ pid[p] # -1 /\ pm_lock = p
    BY <1>1, Running, Zenon DEF Locking
  <1>3. arg[p] \in processIDs /\ arg[p] \in Pid
    BY <1>1, <1>2, Zenon DEF CallSound, ProcTypeOK
  <1>4. "ClearBit" \in Label
    BY Labels, Zenon DEF Label
  <1>5. ProcTypeOK'
    BY <1>1, <1>2, <1>3, <1>4, Zenon DEF ProcTypeOK
  <1>6. pc'[p] = "ClearBit" /\ \A q \in Process \ {p} : pc'[q] = pc[q]
    BY <1>1, <1>2, Zenon DEF ProcTypeOK
  <1>7. \A i \in Pid : i # arg[p] => pcbs'[i] = pcbs[i] /\ conditions'[i] = conditions[i]
    BY <1>1, <1>2, Zenon DEF ProcTypeOK
  <1>8. \A q \in Process \ {p} :
           pc[q] \in {"JoinWait", "JoinWake"} =>
              /\ arg[q] \in processIDs' /\ pcbs'[arg[q]] = pcbs[arg[q]] /\ joins'[arg[q]] > 0
    <2>1. \A q \in Process \ {p} :
             pc[q] \in {"JoinWait", "JoinWake"} => arg[q] # arg[p] /\ arg[q] \in Pid
      BY <1>1, ClearedApart, Zenon
    <2>2. QED
      BY <1>1, <1>7, <2>1, Waiting, Zenon
  <1>9. \A q \in Process \ {p} :
           /\ pc'[q] \in Parked /\ (pc'[q] # "none" => pid'[q] # -1)
           /\ CallSound(q)' /\ JoinSound(q)'
    BY <1>1, <1>6, <1>8, Bystanders, Zenon
  <1>10. CallSound(p)' /\ JoinSound(p)'
    BY <1>1, <1>2, <1>3, <1>6, Zenon DEF CallSound, JoinSound, Clearing, Joining
  <1>11. LocksHeld'
    <2>1. \A i \in Pid : locks[i] \notin Process
      BY <1>1, Zenon DEF FlatInv, LocksHeld
    <2>2. pc'[p] # "JoinTest" /\ pc'[p] \in {"JoinLock", "ClearLock", "ClearBit", "BroadcastLock"}
      BY <1>6, Zenon
    <2>3. QED
      BY <1>1, <1>2, <1>9, <2>1, <2>2, Zenon DEF LocksHeld
  <1>12. ObjectsExist'
    <2>1. \A i \in processIDs : pcbs[i] # NULL /\ locks[i] # "none" /\ i \in Pid
      BY <1>1, <1>2 DEF FlatInv, ObjectsExist, ProcTypeOK
    <2>2. \A i \in processIDs : \E q \in Process : pid[q] = i
      BY Zenon DEF FlatInv, ObjectsExist
    <2>3. \A i \in processIDs : i = arg[p] \/ (pcbs'[i] # NULL /\ locks'[i] # "none")
      BY <1>1, <1>7, <2>1, Zenon
    <2>4. QED
      BY <1>1, <1>2, <1>6, <1>9, <2>2, <2>3, Zenon DEF ObjectsExist
  <1>13. ClearsAlone'
    <2>1. \A q \in Process \ {p} : pc'[q] \notin Clearing /\ pc'[q] # "Spawned" /\ pc'[q] # "AddProcess"
      BY <1>9, Zenon DEF Parked, Clearing
    <2>2. pc'[p] # "Spawned" /\ pc'[p] # "AddProcess"
      BY <1>6, Zenon
    <2>3. p \notin Joiner /\ arg[p] # -1 => joins[arg[p]] = 0
      BY <1>1, Zenon DEF FlatInv, ClearsAlone, Clearing
    <2>4. \A i \in Pid : \A q \in conditions'[i] :
             q \in Process \ {p} /\ pc[q] = "JoinWait" /\ arg[q] = i
      <3>1. \A i \in Pid : conditions'[i] \subseteq conditions[i]
        BY <1>1, <1>2, Zenon DEF ProcTypeOK
      <3>2. QED
        BY <1>1, <3>1, Sleeping, Zenon
    <2>5. \A i \in Pid : \A q \in conditions'[i] : pc'[q] = "JoinWait" /\ arg'[q] = i
      BY <1>1, <1>6, <2>4
    <2>6. pc'[cpu'] # "AddProcess" /\ \A q \in Process : pc'[q] # "Spawned"
      BY <1>1, <2>1, <2>2, Zenon
    <2>7. \A q \in Process : pc'[q] \in Clearing /\ q \notin Joiner /\ arg'[q] # -1 =>
                               joins'[arg'[q]] = 0
      BY <1>1, <2>1, <2>3, Zenon
    <2>8. QED
      BY <2>5, <2>6, <2>7, Zenon DEF ClearsAlone
  <1>14. QED
    BY <1>1, <1>2, <1>5, <1>9, <1>10, <1>11, <1>12, <1>13, Zenon DEF FlatInv

LEMMA ClearBitKeeps ==
    ASSUME FlatInv, OneJoiner, NEW p \in Process, ClearBit(p)
    PROVE  FlatInv'
  <1>1. /\ cpu = p /\ cpu' = p /\ pc[p] = "ClearBit"
        /\ pc' = [q \in Process |-> IF q = p THEN Done(p)
                                    ELSE IF pc[q] = "JoinWake" /\ arg[q] = arg[p]
                                    THEN "Dangling" ELSE pc[q]]
        /\ locks' = [locks EXCEPT ![arg[p]] = "none"] /\ processIDs' = processIDs \ {arg[p]}
        /\ pm_lock' = "free" /\ joined' = [joined EXCEPT ![p] = NULL]
        /\ ret' = [ret EXCEPT ![p] = -1] /\ child' = [child EXCEPT ![p] = NULL]
        /\ arg' = arg /\ status' = status /\ exiting' = exiting /\ pid' = pid
        /\ pcbs' = pcbs /\ joins' = joins /\ conditions' = conditions /\ fault' = fault
    BY Zenon DEF ClearBit, At, exits
  <1>2. ProcTypeOK /\ CallSound(p) /\ JoinSound(p) /\ ~fault /\ pid[p] # -1
    BY <1>1, Running, Zenon
  <1>3. arg[p] \in processIDs /\ arg[p] \in Pid
    BY <1>1, <1>2, Zenon DEF CallSound, ProcTypeOK
  <1>4. \A q \in Process \ {p} :
           pc[q] \in {"JoinWait", "JoinWake"} => arg[q] # arg[p] /\ arg[q] \in Pid
    BY <1>1, ClearedApart, Zenon
  <1>5. PICK l \in {"exited", "user"} :
           /\ pc' = [pc EXCEPT ![p] = l] /\ (p \in exiting <=> l = "exited")
    <2>1. PICK l \in {"exited", "user"} : l = Done(p) /\ (p \in exiting <=> l = "exited")
      BY Zenon DEF Done
    <2>2. \A q \in Process \ {p} : pc[q] = "JoinWake" => arg[q] # arg[p]
      BY <1>4, Zenon
    <2>3. pc \in [Process -> Label]
      BY <1>2, Zenon DEF ProcTypeOK
    <2>4. pc' = [pc EXCEPT ![p] = l]
      BY <1>1, <2>1, <2>2, <2>3, Zenon
    <2>5. QED
      BY <2>1, <2>4, Zenon
  <1>6. l \in Label
    BY <1>5, Labels, Zenon DEF Label, Parked
  <1>7. ProcTypeOK'
    <2>1. /\ arg' = arg /\ status' = status /\ exiting' = exiting /\ pid' = pid
          /\ pcbs' = pcbs /\ joins' = joins /\ conditions' = conditions /\ cpu' = cpu
          /\ joined' = [joined EXCEPT ![p] = NULL] /\ ret' = [ret EXCEPT ![p] = -1]
          /\ child' = [child EXCEPT ![p] = NULL] /\ locks' = [locks EXCEPT ![arg[p]] = "none"]
          /\ processIDs' = processIDs \ {arg[p]} /\ pm_lock' = "free"
      BY <1>1, Zenon
    <2>2. QED
      BY <1>2, <1>3, <1>5, <1>6, <2>1, Zenon DEF ProcTypeOK
  <1>8. pc'[p] = l /\ \A q \in Process \ {p} : pc'[q] = pc[q]
    BY <1>2, <1>5, Zenon DEF ProcTypeOK
  <1>9. joined'[p] = NULL /\ \A q \in Process \ {p} : joined'[q] = joined[q]
    BY <1>1, <1>2, Zenon DEF ProcTypeOK
  <1>10. \A q \in Process \ {p} :
           pc[q] \in {"JoinWait", "JoinWake"} =>
              /\ arg[q] \in processIDs' /\ pcbs'[arg[q]] = pcbs[arg[q]] /\ joins'[arg[q]] > 0
    <2>1. \A q \in Process \ {p} :
             pc[q] \in {"JoinWait", "JoinWake"} => arg[q] \in processIDs /\ joins[arg[q]] > 0
      BY Waiting, Zenon
    <2>2. processIDs' = processIDs \ {arg[p]} /\ pcbs' = pcbs /\ joins' = joins
      BY <1>1, Zenon
    <2>3. QED
      BY <1>4, <2>1, <2>2, Zenon
  <1>11. arg' = arg /\ exiting' = exiting /\ pid' = pid
    BY <1>1, Zenon
  <1>12. \A q \in Process \ {p} :
           /\ pc'[q] \in Parked /\ (pc'[q] # "none" => pid'[q] # -1)
           /\ CallSound(q)' /\ JoinSound(q)'
    BY <1>1, <1>8, <1>9, <1>10, <1>11, Bystanders, Zenon
  <1>13. CallSound(p)' /\ JoinSound(p)'
    BY <1>2, <1>5, <1>8, <1>9, <1>11 DEF CallSound, JoinSound, Clearing, Joining
  <1>14. locks'[arg[p]] = "none" /\ \A i \in Pid : i # arg[p] => locks'[i] = locks[i]
    BY <1>1, <1>2, <1>3, Zenon DEF ProcTypeOK
  <1>15. LocksHeld'
    <2>1. \A i \in Pid : locks[i] \notin Process
      BY <1>1, Zenon DEF FlatInv, LocksHeld
    <2>2. \A i \in Pid : locks'[i] \notin Process
      BY <1>14, <2>1, ProcessAssumption, Zenon
    <2>3. pc'[p] # "JoinTest" /\ pc'[p] \notin {"JoinLock", "ClearLock", "ClearBit", "BroadcastLock"}
      BY <1>8, Zenon
    <2>4. cpu' = p /\ pm_lock' = "free"
      BY <1>1, Zenon
    <2>5. QED
      BY <1>12, <2>2, <2>3, <2>4, Zenon DEF LocksHeld
  <1>16. ObjectsExist'
    <2>1. \A i \in processIDs \ {arg[p]} : pcbs[i] # NULL /\ locks[i] # "none" /\ i \in Pid
      BY <1>1, <1>2 DEF FlatInv, ObjectsExist, ProcTypeOK
    <2>2. \A i \in processIDs : \E q \in Process : pid[q] = i
      BY Zenon DEF FlatInv, ObjectsExist
    <2>3. processIDs' = processIDs \ {arg[p]} /\ pcbs' = pcbs
      BY <1>1, Zenon
    <2>4. \A i \in processIDs' : pcbs'[i] # NULL /\ locks'[i] # "none"
      BY <1>14, <2>1, <2>3, Zenon
    <2>5. \A i \in processIDs' : \E q \in Process : pid'[q] = i
      BY <1>11, <2>2, <2>3, Zenon
    <2>6. QED
      BY <1>2, <1>11, <1>12, <2>4, <2>5, Zenon DEF ObjectsExist
  <1>17. ClearsAlone'
    <2>1. \A q \in Process : pc'[q] \notin Clearing /\ pc'[q] # "Spawned" /\ pc'[q] # "AddProcess"
      BY <1>8, <1>12, Zenon DEF Parked, Clearing
    <2>2. \A i \in Pid : \A q \in conditions[i] : q \in Process \ {p} /\ pc[q] = "JoinWait" /\ arg[q] = i
      BY <1>1, Sleeping, Zenon
    <2>3. conditions' = conditions /\ cpu' = p
      BY <1>1, Zenon
    <2>4. \A i \in Pid : \A q \in conditions'[i] : pc'[q] = "JoinWait" /\ arg'[q] = i
      BY <1>8, <1>11, <2>2, <2>3, Zenon
    <2>5. QED
      BY <2>1, <2>3, <2>4, NobodyClears, Zenon
  <1>18. ~fault' /\ cpu' = p
    BY <1>1, <1>2, Zenon
  <1>19. QED
    BY <1>7, <1>12, <1>13, <1>15, <1>16, <1>17, <1>18, Zenon DEF FlatInv

LEMMA BroadcastLockKeeps ==
    ASSUME FlatInv, NEW p \in Process, BroadcastLock(p)
    PROVE  FlatInv'
  <1>1. /\ cpu = p /\ cpu' = p /\ pc[p] = "BroadcastLock"
        /\ conditions' = [conditions EXCEPT ![arg[p]] = {}] /\ pm_lock' = "free"
        /\ arg' = arg /\ joined' = joined /\ ret' = ret /\ child' = child /\ status' = status
        /\ exiting' = exiting /\ pid' = pid /\ processIDs' = processIDs /\ locks' = locks
        /\ joins' = joins /\ pcbs' = pcbs /\ fault' = fault
    BY Zenon DEF BroadcastLock, At, exits
  <1>2. ProcTypeOK /\ CallSound(p) /\ JoinSound(p) /\ ~fault /\ pid[p] # -1
    BY <1>1, Running, Zenon
  <1>3. arg[p] \in processIDs /\ arg[p] \in Pid
    BY <1>1, <1>2, Zenon DEF CallSound, ProcTypeOK
  <1>4. \A i \in Pid : \A q \in conditions[i] : q \in Process \ {p} /\ pc[q] = "JoinWait" /\ arg[q] = i
    BY <1>1, Sleeping, Zenon
  <1>5. /\ pc'[p] = "GetJoins"
        /\ \A q \in Process \ {p} : pc'[q] = IF q \in conditions[arg[p]] THEN "JoinWake" ELSE pc[q]
        /\ pc' \in [Process -> Label]
    <2>1. "GetJoins" \in Label /\ "JoinWake" \in Label
      BY Labels, Zenon DEF Label
    <2>2. pc \in [Process -> Label]
      BY <1>2, Zenon DEF ProcTypeOK
    <2>3. QED
      BY <2>1, <2>2, Zenon DEF BroadcastLock
  <1>6. ProcTypeOK'
    BY <1>1, <1>2, <1>3, <1>5, Zenon DEF ProcTypeOK
  <1>7. \A q \in Process \ {p} : pc'[q] = pc[q] \/ (pc[q] = "JoinWait" /\ pc'[q] = "JoinWake")
    BY <1>3, <1>4, <1>5, Zenon
  <1>8. \A q \in Process \ {p} :
           /\ pc'[q] \in Parked /\ (pc'[q] # "none" => pid'[q] # -1)
           /\ CallSound(q)' /\ JoinSound(q)'
    BY <1>1, <1>7, Waiting, Bystanders, Zenon
  <1>9. p \in exiting /\ joined[p] = NULL
    BY <1>1, <1>2, Zenon DEF CallSound, JoinSound
  <1>10. CallSound(p)' /\ JoinSound(p)'
    BY <1>1, <1>2, <1>5, <1>9, Zenon DEF CallSound, JoinSound, Clearing, Joining
  <1>11. LocksHeld'
    <2>1. \A i \in Pid : locks[i] \notin Process
      BY <1>1, Zenon DEF FlatInv, LocksHeld
    <2>2. pc'[p] # "JoinTest" /\ pc'[p] \notin {"JoinLock", "ClearLock", "ClearBit", "BroadcastLock"}
      BY <1>5, Zenon
    <2>3. QED
      BY <1>1, <1>8, <2>1, <2>2, Zenon DEF LocksHeld
  <1>12. ObjectsExist'
    <2>1. \A i \in processIDs : pcbs[i] # NULL /\ locks[i] # "none"
      BY <1>1, Zenon DEF FlatInv, ObjectsExist
    <2>2. \A i \in processIDs : \E q \in Process : pid[q] = i
      BY Zenon DEF FlatInv, ObjectsExist
    <2>3. QED
      BY <1>1, <1>2, <1>8, <2>1, <2>2, Zenon DEF ObjectsExist
  <1>13. ClearsAlone'
    <2>1. \A q \in Process : pc'[q] \notin Clearing /\ pc'[q] # "Spawned" /\ pc'[q] # "AddProcess"
      BY <1>5, <1>8, Zenon DEF Parked, Clearing
    <2>2. \A i \in Pid : \A q \in conditions'[i] : q \in conditions[i] /\ i # arg[p]
      BY <1>1, <1>2, <1>3, Zenon DEF ProcTypeOK
    <2>3. \A i \in Pid : \A q \in conditions'[i] : q \notin conditions[arg[p]]
      BY <1>3, <1>4, <2>2
    <2>4. \A i \in Pid : \A q \in conditions'[i] : pc'[q] = "JoinWait" /\ arg'[q] = i
      <3>1. TAKE i \in Pid
      <3>2. TAKE q \in conditions'[i]
      <3>3. q \in Process \ {p} /\ pc[q] = "JoinWait" /\ arg[q] = i /\ q \notin conditions[arg[p]]
        BY <1>4, <2>2, <2>3, Zenon
      <3>4. pc'[q] = pc[q] /\ arg'[q] = arg[q]
        BY <1>1, <1>5, <3>3, Zenon
      <3>5. QED
        BY <3>3, <3>4, Zenon
    <2>5. QED
      BY <1>1, <2>1, <2>4, NobodyClears, Zenon
  <1>14. QED
    BY <1>1, <1>2, <1>6, <1>8, <1>10, <1>11, <1>12, <1>13, Zenon DEF FlatInv

(* GetPID finds a pid for a program that has none yet. *)
LEMMA SmallestPid ==
    ASSUME NEW S, S \subseteq Nat, S # {}
    PROVE  \E m \in S : \A k \in S : m <= k
  <1> DEFINE R == OpToRel(<, Nat)
  <1>1. IsWellFoundedOn(R, Nat)
    BY NatLessThanWellFounded, Zenon
  <1>2. \A k, m \in Nat : k < m => <<k, m>> \in R
    BY Zenon DEF OpToRel
  <1> HIDE DEF R
  <1>3. PICK m \in S : \A k \in S : ~ (<<k, m>> \in R)
    BY <1>1, WFMin, Zenon
  <1>4. ASSUME NEW k \in S PROVE m <= k
    <2>1. ~ (k < m)
      BY <1>2, <1>3, Zenon
    <2>2. QED
      BY <2>1
  <1>5. QED
    BY <1>4, Zenon

LEMMA GetPIDFinds ==
    ASSUME FlatInv, EnoughPids, NEW q \in Process, pid[q] = -1
    PROVE  GetPID \in Pid /\ GetPID \notin processIDs /\ GetPID # -1
  <1>1. Unused # {}
    <2>1. SUFFICES ASSUME Unused = {} PROVE FALSE
      BY Zenon
    <2>2. \A i \in Pid : i \in processIDs /\ i # -1
      BY <2>1, ProcessAssumption DEF Unused, Pid
    <2>3. \A i \in Pid : \E p \in Process \ {q} : pid[p] = i
      BY <2>2, Zenon DEF FlatInv, ObjectsExist
    <2> DEFINE T == Process \ {q}
               f == [i \in Pid |-> CHOOSE p \in T : pid[p] = i]
    <2>4. f \in [Pid -> T] /\ \A i \in Pid : pid[f[i]] = i
      BY <2>3, Zenon
    <2> HIDE DEF f
    <2>5. IsFiniteSet(T) /\ Cardinality(T) = Cardinality(Process) - 1
      BY FS_RemoveElement, ProcessAssumption, Zenon
    <2>6. IsFiniteSet(Pid) /\ Cardinality(Pid) = MaxProcess
      <3>1. 0 \in Int /\ MaxProcess - 1 \in Int /\ ~(0 > MaxProcess - 1)
        BY ProcessAssumption
      <3>2. IsFiniteSet(0..(MaxProcess - 1)) /\ Cardinality(0..(MaxProcess - 1)) = MaxProcess - 1 - 0 + 1
        BY <3>1, FS_Interval, Zenon
      <3>3. QED
        BY <3>2, ProcessAssumption DEF Pid
    <2>7. Cardinality(Process) \in Nat
      BY FS_CardinalityType, ProcessAssumption, Zenon
    <2> HIDE DEF T
    <2>8. Cardinality(T) < Cardinality(Pid)
      BY <2>5, <2>6, <2>7, ProcessAssumption DEF EnoughPids
    <2>9. \E x, y \in Pid : x # y /\ f[x] = f[y]
      <3>1. f \in [Pid -> T] /\ IsFiniteSet(Pid) /\ IsFiniteSet(T)
        BY <2>4, <2>5, <2>6, Zenon
      <3>2. QED
        BY <2>8, <3>1, FS_PigeonHole
    <2>10. QED
      BY <2>4, <2>9, Zenon
  <1>2. Unused \subseteq Nat
    BY ProcessAssumption DEF Unused, Pid
  <1>3. GetPID \in Unused
    <2>1. \E m \in Unused : \A k \in Unused : m <= k
      BY <1>1, <1>2, SmallestPid, Zenon
    <2>2. QED
      BY <1>1, <2>1, Zenon DEF GetPID
  <1>4. QED
    BY <1>2, <1>3 DEF Unused

LEMMA SpawnKeeps ==
    ASSUME FlatInv, EnoughPids, NEW p \in Process, NEW c \in Process, Spawn(p, c)
    PROVE  FlatInv'
  <1>1. /\ cpu = p /\ cpu' = p /\ pc[p] = "user" /\ pc' = [pc EXCEPT ![p] = "AddProcess"]
        /\ pc[c] = "none" /\ pid[c] = -1
        /\ pid' = [pid EXCEPT ![c] = GetPID] /\ processIDs' = processIDs \cup ({GetPID} \ {-1})
        /\ child' = [child EXCEPT ![p] = c]
        /\ arg' = arg /\ joined' = joined /\ ret' = ret /\ status' = status
        /\ exiting' = exiting /\ locks' = locks /\ pm_lock' = pm_lock
        /\ joins' = joins /\ pcbs' = pcbs /\ conditions' = conditions /\ fault' = fault
    BY Zenon DEF Spawn, At, Goto, exits
  <1>2. PICK i \in Pid : i = GetPID /\ i \notin processIDs /\ i # -1
    BY <1>1, GetPIDFinds, Zenon
  <1>3. pid' = [pid EXCEPT ![c] = i] /\ processIDs' = processIDs \cup {i}
    BY <1>1, <1>2, Zenon
  <1>4. ProcTypeOK /\ CallSound(p) /\ JoinSound(p) /\ ~fault /\ pid[p] # -1 /\ pm_lock = "free" /\ c # p
    BY <1>1, Running, Zenon DEF Locking
  <1>5. "AddProcess" \in Label
    BY Labels, Zenon
  <1>6. ProcTypeOK'
    <2>1. /\ cpu' = cpu /\ pc' = [pc EXCEPT ![p] = "AddProcess"] /\ child' = [child EXCEPT ![p] = c]
          /\ arg' = arg /\ joined' = joined /\ ret' = ret /\ status' = status
          /\ exiting' = exiting /\ locks' = locks /\ pm_lock' = pm_lock
          /\ joins' = joins /\ pcbs' = pcbs /\ conditions' = conditions
      BY <1>1, Zenon
    <2>2. QED
      BY <1>3, <1>4, <1>5, <2>1, Zenon DEF ProcTypeOK
  <1>7. /\ pc'[p] = "AddProcess" /\ \A q \in Process \ {p} : pc'[q] = pc[q]
        /\ pid'[c] = i /\ \A q \in Process \ {c} : pid'[q] = pid[q]
        /\ child'[p] = c
    BY <1>1, <1>3, <1>4, Zenon DEF ProcTypeOK
  <1>8. \A q \in Process \ {p} :
           /\ pc'[q] \in Parked /\ (pc'[q] # "none" => pid'[q] # -1)
           /\ CallSound(q)' /\ JoinSound(q)'
    <2>1. \A q \in Process \ {p} : pid'[q] = pid[q] \/ pc[q] = "none"
      BY <1>1, <1>7, Zenon
    <2>2. \A q \in Process \ {p} :
             pc[q] \in {"JoinWait", "JoinWake"} =>
                /\ arg[q] \in processIDs' /\ pcbs'[arg[q]] = pcbs[arg[q]] /\ joins'[arg[q]] > 0
      BY <1>1, <1>3, Waiting, Zenon
    <2>3. QED
      BY <1>1, <1>7, <2>1, <2>2, Bystanders, Zenon
  <1>9. joined[p] = NULL /\ p \notin exiting
    BY <1>1, <1>4, Zenon DEF CallSound, JoinSound, Joining, Clearing
  <1>10. CallSound(p)' /\ JoinSound(p)'
    <2>1. child'[p] # NULL /\ pid'[child'[p]] # -1 /\ pid'[child'[p]] \in processIDs' /\ pc'[child'[p]] = "none"
      BY <1>1, <1>2, <1>3, <1>4, <1>7, ProcessAssumption, Zenon
    <2>2. QED
      BY <1>1, <1>7, <1>9, <2>1, Zenon DEF CallSound, JoinSound, Clearing, Joining
  <1>11. LocksHeld'
    <2>1. \A j \in Pid : locks[j] \notin Process
      BY <1>1, Zenon DEF FlatInv, LocksHeld
    <2>2. pc'[p] # "JoinTest" /\ pc'[p] \notin {"JoinLock", "ClearLock", "ClearBit", "BroadcastLock"}
      BY <1>7, Zenon
    <2>3. QED
      BY <1>1, <1>4, <1>8, <2>1, <2>2, Zenon DEF LocksHeld
  <1>12. ObjectsExist'
    <2>1. \A j \in processIDs : pcbs'[j] # NULL /\ locks'[j] # "none"
      BY <1>1, Zenon DEF FlatInv, ObjectsExist
    <2>2. \A j \in processIDs : \E q \in Process : pid'[q] = j
      <3>1. TAKE j \in processIDs
      <3>2. PICK q \in Process : pid[q] = j
        BY Zenon DEF FlatInv, ObjectsExist
      <3>3. j # -1
        BY <1>4, ProcessAssumption DEF ProcTypeOK, Pid
      <3>4. QED
        BY <1>1, <1>7, <3>2, <3>3, Zenon
    <2>3. pid'[p] # -1 /\ cpu' = p
      BY <1>1, <1>4, <1>7, Zenon
    <2>4. \A j \in processIDs' : \/ pcbs'[j] # NULL /\ locks'[j] # "none"
                                 \/ pc'[p] = "AddProcess" /\ j = pid'[child'[p]]
      BY <1>3, <1>7, <2>1, Zenon
    <2>5. \A j \in processIDs' : \E q \in Process : pid'[q] = j
      BY <1>3, <1>7, <2>2, Zenon
    <2>6. QED
      BY <1>8, <2>3, <2>4, <2>5, Zenon DEF ObjectsExist
  <1>13. ClearsAlone'
    <2>1. \A q \in Process : pc'[q] \notin Clearing /\ pc'[q] # "Spawned"
      BY <1>7, <1>8, Zenon DEF Parked, Clearing
    <2>2. \A j \in Pid : \A q \in conditions[j] : q \in Process \ {p} /\ pc[q] = "JoinWait" /\ arg[q] = j
      BY <1>1, Sleeping, Zenon
    <2>3. \A j \in Pid : \A q \in conditions'[j] : pc'[q] = "JoinWait" /\ arg'[q] = j
      BY <1>1, <1>7, <2>2
    <2>4. \A q \in Process : pc'[q] \in {"JoinWait", "JoinWake"} => arg'[q] # pid'[child'[cpu']]
      <3>1. \A q \in Process : pc'[q] \in {"JoinWait", "JoinWake"} =>
                                  q # p /\ pc[q] \in {"JoinWait", "JoinWake"}
        BY <1>7, Zenon
      <3>2. \A q \in Process : pc'[q] \in {"JoinWait", "JoinWake"} => arg[q] \in processIDs
        BY <3>1, Waiting, Zenon
      <3>3. pid'[child'[cpu']] = i /\ arg' = arg
        BY <1>1, <1>7, Zenon
      <3>4. QED
        BY <1>2, <3>2, <3>3, Zenon
    <2>5. QED
      BY <2>1, <2>3, <2>4, Zenon DEF ClearsAlone
  <1>14. QED
    BY <1>1, <1>4, <1>6, <1>8, <1>10, <1>11, <1>12, <1>13, Zenon DEF FlatInv

LEMMA AddProcessKeeps ==
    ASSUME FlatInv, NEW p \in Process, AddProcess(p)
    PROVE  FlatInv'
  <1>1. cpu = p /\ pc[p] = "AddProcess"
    BY Zenon DEF AddProcess, At
  <1>2. ProcTypeOK /\ CallSound(p) /\ JoinSound(p) /\ ~fault /\ pid[p] # -1 /\ pm_lock = "free"
    BY <1>1, Running, Zenon DEF Locking
  <1>3. PICK c \in Process, i \in Pid :
           c = child[p] /\ i = pid[c] /\ i \in processIDs /\ pc[c] = "none" /\ i # -1
    BY <1>1, <1>2, Zenon DEF CallSound, ProcTypeOK
  <1>4. /\ cpu' = p /\ pc' = [pc EXCEPT ![p] = "Spawned"]
        /\ pcbs' = [pcbs EXCEPT ![i] = c] /\ conditions' = [conditions EXCEPT ![i] = {}]
        /\ locks' = [locks EXCEPT ![i] = "free"] /\ joins' = [joins EXCEPT ![i] = 0]
        /\ arg' = arg /\ child' = child /\ joined' = joined /\ ret' = ret /\ status' = status
        /\ exiting' = exiting /\ pid' = pid /\ processIDs' = processIDs /\ pm_lock' = pm_lock
        /\ fault' = fault
    BY <1>1, <1>3, Zenon DEF AddProcess, Goto, exits
  <1>5. "Spawned" \in Label /\ 0 \in Nat
    BY Labels, Zenon
  <1>6. ProcTypeOK'
    BY <1>1, <1>2, <1>4, <1>5, Zenon DEF ProcTypeOK
  <1>7. /\ pc'[p] = "Spawned" /\ \A q \in Process \ {p} : pc'[q] = pc[q]
        /\ pcbs'[i] = c /\ locks'[i] = "free" /\ joins'[i] = 0 /\ conditions'[i] = {}
        /\ \A j \in Pid \ {i} : /\ pcbs'[j] = pcbs[j] /\ locks'[j] = locks[j]
                                /\ joins'[j] = joins[j] /\ conditions'[j] = conditions[j]
    BY <1>2, <1>4, Zenon DEF ProcTypeOK
  <1>8. \A q \in Process : pc[q] \in {"JoinWait", "JoinWake"} => arg[q] # i
    BY <1>1, <1>3, Zenon DEF FlatInv, ClearsAlone
  <1>9. \A q \in Process \ {p} :
           /\ pc'[q] \in Parked /\ (pc'[q] # "none" => pid'[q] # -1)
           /\ CallSound(q)' /\ JoinSound(q)'
    <2>1. \A q \in Process \ {p} :
             pc[q] \in {"JoinWait", "JoinWake"} =>
                arg[q] \in processIDs /\ arg[q] \in Pid /\ joins[arg[q]] > 0
      BY Waiting, Zenon
    <2>2. \A q \in Process \ {p} :
             pc[q] \in {"JoinWait", "JoinWake"} =>
                /\ arg[q] \in processIDs' /\ pcbs'[arg[q]] = pcbs[arg[q]] /\ joins'[arg[q]] > 0
      BY <1>4, <1>7, <1>8, <2>1, Zenon
    <2>3. QED
      BY <1>1, <1>4, <1>7, <2>2, Bystanders, Zenon
  <1>10. CallSound(p)' /\ JoinSound(p)'
    <2>1. joined[p] = NULL /\ p \notin exiting
      BY <1>1, <1>2, Zenon DEF CallSound, JoinSound, Joining, Clearing
    <2>2. c # p /\ c # NULL
      BY <1>1, <1>3, ProcessAssumption, Zenon
    <2>3. child'[p] # NULL /\ pid'[child'[p]] # -1 /\ pid'[child'[p]] \in processIDs'
      BY <1>3, <1>4, <2>2, Zenon
    <2>4. pc'[child'[p]] = "none"
      BY <1>3, <1>4, <1>7, <2>2
    <2>5. QED
      BY <1>4, <1>7, <2>1, <2>3, <2>4 DEF CallSound, JoinSound, Clearing, Joining
  <1>11. LocksHeld'
    <2>1. \A j \in Pid : locks[j] \notin Process
      BY <1>1, Zenon DEF FlatInv, LocksHeld
    <2>2. \A j \in Pid : locks'[j] \notin Process
      BY <1>7, <2>1, ProcessAssumption, Zenon
    <2>3. pc'[p] # "JoinTest" /\ pc'[p] \notin {"JoinLock", "ClearLock", "ClearBit", "BroadcastLock"}
      BY <1>7, Zenon
    <2>4. QED
      BY <1>2, <1>4, <1>9, <2>2, <2>3, Zenon DEF LocksHeld
  <1>12. ObjectsExist'
    <2>1. \A j \in processIDs \ {i} : pcbs[j] # NULL /\ locks[j] # "none" /\ j \in Pid
      BY <1>1, <1>2, <1>3 DEF FlatInv, ObjectsExist, ProcTypeOK
    <2>2. c # NULL
      BY ProcessAssumption, Zenon
    <2>3. \A j \in processIDs : pcbs'[j] # NULL /\ locks'[j] # "none"
      BY <1>7, <2>1, <2>2, Zenon
    <2>4. \A j \in processIDs : \E q \in Process : pid[q] = j
      BY Zenon DEF FlatInv, ObjectsExist
    <2>5. QED
      BY <1>2, <1>4, <1>9, <2>3, <2>4, Zenon DEF ObjectsExist
  <1>13. ClearsAlone'
    <2>1. \A q \in Process \ {p} : pc'[q] \notin Clearing /\ pc'[q] # "Spawned" /\ pc'[q] # "AddProcess"
      BY <1>9, Zenon DEF Parked, Clearing
    <2>2. pc'[p] \notin Clearing /\ pc'[cpu'] # "AddProcess"
      BY <1>4, <1>7, Zenon DEF Clearing
    <2>3. joins'[pid'[child'[p]]] = 0
      BY <1>3, <1>4, <1>7, Zenon
    <2>4. \A j \in Pid : \A q \in conditions[j] : q \in Process \ {p} /\ pc[q] = "JoinWait" /\ arg[q] = j
      BY <1>1, Sleeping, Zenon
    <2>5. \A j \in Pid : conditions'[j] \subseteq conditions[j]
      BY <1>7, Zenon
    <2>6. \A j \in Pid : \A q \in conditions'[j] : pc'[q] = "JoinWait" /\ arg'[q] = j
      BY <1>4, <1>7, <2>4, <2>5
    <2>7. \A q \in Process : pc'[q] \notin Clearing
      BY <2>1, <2>2, Zenon
    <2>8. \A q \in Process : pc'[q] = "Spawned" => joins'[pid'[child'[q]]] = 0
      BY <2>1, <2>3, Zenon
    <2>9. QED
      BY <2>2, <2>6, <2>7, <2>8, Zenon DEF ClearsAlone
  <1>14. QED
    BY <1>2, <1>4, <1>6, <1>9, <1>10, <1>11, <1>12, <1>13, Zenon DEF FlatInv

LEMMA SpawnedKeeps ==
    ASSUME FlatInv, NEW p \in Process, Spawned(p)
    PROVE  FlatInv'
  <1>1. cpu = p /\ pc[p] = "Spawned"
    BY Zenon DEF Spawned, At
  <1>2. ProcTypeOK /\ CallSound(p) /\ JoinSound(p) /\ ~fault /\ pid[p] # -1 /\ pm_lock = "free"
    BY <1>1, Running, Zenon DEF Locking
  <1>3. PICK c \in Process : c = child[p] /\ pid[c] # -1 /\ pc[c] = "none"
    BY <1>1, <1>2, Zenon DEF CallSound, ProcTypeOK
  <1>4. /\ cpu' = p /\ pc' = [pc EXCEPT ![p] = "SpawnReturn", ![c] = "user"]
        /\ arg' = arg /\ child' = child /\ joined' = joined /\ ret' = ret /\ status' = status
        /\ exiting' = exiting /\ pid' = pid /\ processIDs' = processIDs /\ pm_lock' = pm_lock
        /\ pcbs' = pcbs /\ conditions' = conditions /\ locks' = locks /\ joins' = joins
        /\ fault' = fault
    BY <1>1, <1>3, Zenon DEF Spawned, exits, tables
  <1>5. c # p
    BY <1>1, <1>3, Zenon
  <1>6. /\ pc'[p] = "SpawnReturn" /\ pc'[c] = "user"
        /\ \A q \in Process \ {p, c} : pc'[q] = pc[q]
        /\ pc' \in [Process -> Label]
    <2>1. "SpawnReturn" \in Label /\ "user" \in Label /\ pc \in [Process -> Label]
      BY <1>2, Labels, Zenon DEF ProcTypeOK
    <2>2. QED
      BY <1>4, <1>5, <2>1, Zenon
  <1>7. ProcTypeOK'
    BY <1>1, <1>2, <1>4, <1>6, Zenon DEF ProcTypeOK
  <1>8. \A q \in Process \ {p} :
           /\ pc'[q] \in Parked /\ (pc'[q] # "none" => pid'[q] # -1)
           /\ CallSound(q)' /\ JoinSound(q)'
    <2>1. \A q \in Process \ {p} :
             \/ pc'[q] = pc[q]
             \/ pc[q] = "none" /\ pc'[q] = "user" /\ pid'[q] # -1
      BY <1>3, <1>4, <1>6, Zenon
    <2>2. QED
      BY <1>1, <1>4, <2>1, Waiting, Bystanders, Zenon
  <1>9. CallSound(p)' /\ JoinSound(p)'
    <2>1. joined[p] = NULL /\ p \notin exiting
      BY <1>1, <1>2, Zenon DEF CallSound, JoinSound, Joining, Clearing
    <2>2. QED
      BY <1>4, <1>6, <2>1, Zenon DEF CallSound, JoinSound, Clearing, Joining
  <1>10. LocksHeld'
    <2>1. \A j \in Pid : locks[j] \notin Process
      BY <1>1, Zenon DEF FlatInv, LocksHeld
    <2>2. pc'[p] # "JoinTest" /\ pc'[p] \notin {"JoinLock", "ClearLock", "ClearBit", "BroadcastLock"}
      BY <1>6, Zenon
    <2>3. QED
      BY <1>2, <1>4, <1>8, <2>1, <2>2, Zenon DEF LocksHeld
  <1>11. ObjectsExist'
    <2>1. \A j \in processIDs : pcbs[j] # NULL /\ locks[j] # "none"
      BY <1>1 DEF FlatInv, ObjectsExist
    <2>2. \A j \in processIDs : \E q \in Process : pid[q] = j
      BY Zenon DEF FlatInv, ObjectsExist
    <2>3. QED
      BY <1>2, <1>4, <1>8, <2>1, <2>2, Zenon DEF ObjectsExist
  <1>12. ClearsAlone'
    <2>1. \A q \in Process : pc'[q] \notin Clearing /\ pc'[q] # "Spawned" /\ pc'[q] # "AddProcess"
      BY <1>6, <1>8, Zenon DEF Parked, Clearing
    <2>2. \A j \in Pid : \A q \in conditions[j] :
             q \in Process \ {p, c} /\ pc[q] = "JoinWait" /\ arg[q] = j
      BY <1>1, <1>3, Sleeping
    <2>3. \A j \in Pid : \A q \in conditions'[j] : pc'[q] = "JoinWait" /\ arg'[q] = j
      BY <1>4, <1>6, <2>2
    <2>4. QED
      BY <1>4, <2>1, <2>3, NobodyClears, Zenon
  <1>13. QED
    BY <1>2, <1>4, <1>7, <1>8, <1>9, <1>10, <1>11, <1>12, Zenon DEF FlatInv

(* Without time slices a thread loses the CPU only where it is Parked: no  *)
(* lock it could want is held by another.                                  *)
LEMMA LosesCPU ==
    ASSUME FlatInv, ~Runnable(cpu) \/ pc[cpu] \in {"user", "SpawnReturn"}
    PROVE  pc[cpu] \in Parked
  <1>1. ProcTypeOK /\ cpu \in Process /\ CallSound(cpu) /\ JoinSound(cpu)
    BY Zenon DEF FlatInv, ProcTypeOK
  <1>2. pc[cpu] \in NeedsPmLock => pm_lock = "free"
    BY Running, <1>1, Zenon DEF NeedsPmLock, Locking
  <1>3. pc[cpu] \in NeedsLock => locks[arg[cpu]] \notin Process
    <2>1. ASSUME pc[cpu] \in NeedsLock PROVE arg[cpu] \in Pid /\ pc[cpu] # "JoinTest"
      BY <1>1, <2>1, Zenon DEF NeedsLock, CallSound, JoinSound, Clearing, ProcTypeOK
    <2>2. QED
      BY <2>1, Zenon DEF FlatInv, LocksHeld
  <1>4. pc[cpu] \in {"none", "JoinWait", "exited", "user", "SpawnReturn"}
    BY <1>2, <1>3, Zenon DEF Runnable
  <1>5. QED
    BY <1>4, Zenon DEF Parked

LEMMA SwitchKeeps ==
    ASSUME FlatInv, ~randomYield, NEW p \in Process, Switch(p)
    PROVE  FlatInv'
  <1>1. /\ p # cpu /\ cpu' = p /\ pc' = pc /\ arg' = arg /\ child' = child /\ joined' = joined
        /\ ret' = ret /\ status' = status /\ exiting' = exiting /\ pid' = pid
        /\ processIDs' = processIDs /\ pm_lock' = pm_lock /\ pcbs' = pcbs
        /\ conditions' = conditions /\ locks' = locks /\ joins' = joins /\ fault' = fault
        /\ ~Runnable(cpu) \/ pc[cpu] \in {"user", "SpawnReturn"}
    BY Zenon DEF Switch, exits, tables
  <1>2. pc[cpu] \in Parked /\ pc[p] \in Parked
    BY <1>1, LosesCPU, Zenon DEF FlatInv, LocksHeld
  <1>3. ProcTypeOK /\ LocksHeld /\ ObjectsExist /\ ClearsAlone /\ ~fault
    BY Zenon DEF FlatInv
  <1>4. ProcTypeOK'
    BY <1>1, <1>3, Zenon DEF ProcTypeOK
  <1>5. \A q \in Process : CallSound(q)' /\ JoinSound(q)'
    <2>1. TAKE q \in Process
    <2>2. CallSound(q) /\ JoinSound(q)
      BY Zenon DEF FlatInv
    <2>3. CallSound(q)'
      BY <1>1, <2>2, Zenon DEF CallSound
    <2>4. JoinSound(q)'
      BY <1>1, <2>2, Zenon DEF JoinSound
    <2>5. QED
      BY <2>3, <2>4
  <1>6. LocksHeld'
    <2>1. /\ pc[cpu] \notin {"JoinTest", "JoinLock", "ClearLock", "ClearBit", "BroadcastLock"}
          /\ pc[p] \notin {"JoinTest", "JoinLock", "ClearLock", "ClearBit", "BroadcastLock"}
      BY <1>2, Zenon DEF Parked
    <2>2. pm_lock = "free" /\ \A i \in Pid : locks[i] \notin Process
      BY <1>3, <2>1, Zenon DEF LocksHeld
    <2>3. \A q \in Process : pc[q] \in Parked
      BY <1>2, <1>3, Zenon DEF LocksHeld
    <2>4. pc'[cpu'] # "JoinTest" /\ pc'[cpu'] \notin {"JoinLock", "ClearLock", "ClearBit", "BroadcastLock"}
      BY <1>1, <2>1, Zenon
    <2>5. QED
      BY <1>1, <2>2, <2>3, <2>4, Zenon DEF LocksHeld
  <1>7. ObjectsExist'
    <2>1. pc[cpu] # "AddProcess" /\ pc[cpu] # "ClearBit"
      BY <1>2, Zenon DEF Parked
    <2>2. QED
      BY <1>1, <1>3, <2>1, Zenon DEF ObjectsExist
  <1>8. ClearsAlone'
    <2>1. pc[p] # "AddProcess"
      BY <1>2, Zenon DEF Parked
    <2>2. QED
      BY <1>1, <1>3, <2>1, Zenon DEF ClearsAlone
  <1>9. QED
    BY <1>1, <1>3, <1>4, <1>5, <1>6, <1>7, <1>8, Zenon DEF FlatInv

(* The objects a routine uses are there. *)
LEMMA NoDereference ==
    ASSUME FlatInv, NEW p \in Process
    PROVE  ~Dereference(p)
  <1>1. SUFFICES ASSUME cpu = p, NoObject(p) PROVE FALSE
    BY Zenon DEF Dereference, At
  <1>2. ProcTypeOK /\ CallSound(p) /\ JoinSound(p)
    BY <1>1, Running, Zenon
  <1>3. pc[p] # "Dangling"
    BY <1>2, Zenon DEF ProcTypeOK, Label, Parked, Joining, Clearing
  <1>4. ASSUME pc[p] \in NeedsLock \cup {"JoinTest", "ReadStatus"}
        PROVE  locks[arg[p]] # "none" /\ pcbs[arg[p]] # NULL
    <2>1. arg[p] \in processIDs /\ pc[p] \notin {"AddProcess", "ClearBit"}
      BY <1>2, <1>4, Zenon DEF NeedsLock, CallSound, JoinSound, Clearing
    <2>2. QED
      BY <1>1, <2>1, Zenon DEF FlatInv, ObjectsExist
  <1>5. QED
    BY <1>1, <1>3, <1>4, Zenon DEF NoObject

LEMMA InitFlat ==
    ASSUME ProcInit PROVE FlatInv
  <1>1. ProcTypeOK
    <2>1. "user" \in Label /\ "none" \in Label /\ 0 \in Pid /\ Root \in Process /\ 0 \in Nat
      BY Labels, ProcessAssumption DEF Pid
    <2>2. QED
      BY <2>1, Zenon DEF ProcTypeOK, ProcInit
  <1>2. \A q \in Process : pc[q] \in {"user", "none"} /\ joined[q] = NULL /\ q \notin exiting
    BY Zenon DEF ProcInit
  <1>3. LocksHeld
    BY <1>2, ProcessAssumption, Zenon DEF LocksHeld, ProcInit, Parked
  <1>4. ObjectsExist
    BY ProcessAssumption DEF ObjectsExist, ProcInit, Pid
  <1>5. \A q \in Process : CallSound(q) /\ JoinSound(q)
    BY <1>2, Zenon DEF CallSound, JoinSound, Joining, Clearing
  <1>6. ClearsAlone
    BY <1>2, <1>1, Zenon DEF ClearsAlone, Clearing, ProcInit, ProcTypeOK
  <1>7. ~fault
    BY Zenon DEF ProcInit
  <1>8. QED
    BY <1>1, <1>3, <1>4, <1>5, <1>6, <1>7, Zenon DEF FlatInv

LEMMA ReturnKeeps ==
    ASSUME FlatInv, NEW p \in Process, cpu = p, pc[p] \in {"GetJoins", "ReadJoins", "ClearPID"},
           Return(p), UNCHANGED <<cpu, arg, pid, exits, tables, fault>>
    PROVE  FlatInv'
  BY ReturnExitedKeeps, ReturnUserKeeps, Zenon

LEMMA KernelStepKeeps ==
    ASSUME FlatInv, OneJoiner, NEW p \in Process, KernelStep(p)
    PROVE  FlatInv'
  <1>1. CASE Join(p)
    BY <1>1, JoinFoundKeeps, JoinNotFoundKeeps, Zenon
  <1>2. CASE GetStatus(p)
    BY <1>2, GetStatusFoundKeeps, GetStatusNotFoundKeeps, Zenon
  <1>3. CASE Broadcast(p)
    BY <1>3, BroadcastFoundKeeps, BroadcastNotFoundKeeps, Zenon
  <1>4. CASE GetJoins(p)
    <2>1. CASE arg[p] \in processIDs
      BY <1>4, <2>1, GetJoinsFoundKeeps, Zenon
    <2>2. CASE arg[p] \notin processIDs
      <3>1. /\ cpu = p /\ pc[p] \in {"GetJoins", "ReadJoins", "ClearPID"} /\ Return(p)
            /\ UNCHANGED <<cpu, arg, pid, exits, tables, fault>>
        BY <1>4, <2>2, Zenon DEF GetJoins, At
      <3>2. QED
        BY <3>1, ReturnKeeps, Zenon
    <2>3. QED
      BY <2>1, <2>2, Zenon
  <1>5. CASE ReadJoins(p)
    <2>1. CASE joins[arg[p]] = 0
      BY <1>5, <2>1, ReadJoinsNoneKeeps, Zenon
    <2>2. CASE joins[arg[p]] # 0
      <3>1. /\ cpu = p /\ pc[p] \in {"GetJoins", "ReadJoins", "ClearPID"} /\ Return(p)
            /\ UNCHANGED <<cpu, arg, pid, exits, tables, fault>>
        BY <1>5, <2>2, Zenon DEF ReadJoins, At
      <3>2. QED
        BY <3>1, ReturnKeeps, Zenon
    <2>3. QED
      BY <2>1, <2>2, Zenon
  <1>6. CASE ClearPID(p)
    <2>1. CASE arg[p] \in processIDs
      BY <1>6, <2>1, ClearPIDFoundKeeps, Zenon
    <2>2. CASE arg[p] \notin processIDs
      <3>1. /\ cpu = p /\ pc[p] \in {"GetJoins", "ReadJoins", "ClearPID"} /\ Return(p)
            /\ UNCHANGED <<cpu, arg, pid, exits, tables, fault>>
        BY <1>6, <2>2, Zenon DEF ClearPID, At, tables
      <3>2. QED
        BY <3>1, ReturnKeeps, Zenon
    <2>3. QED
      BY <2>1, <2>2, Zenon
  <1>7. QED
    BY <1>1, <1>2, <1>3, <1>4, <1>5, <1>6, AddProcessKeeps, SpawnedKeeps, SpawnReturnKeeps,
       NotEnoughMemoryKeeps, TakesLock, JoinTestKeeps, DecrementJoinsKeeps, ReadStatusKeeps,
       ClearLockKeeps, ClearBitKeeps, BroadcastLockKeeps, NoDereference, Zenon DEF KernelStep

-----------------------------------------------------------------------------
(* The inductive invariant holds in every state that Exec, Fork, Join and  *)
(* Exit reach, for any programs, pids and statuses.                        *)
THEOREM ProcInvAlways ==
    ASSUME OneJoiner, EnoughPids PROVE ProcSpec => []ProcInv
  <1>1. ProcInit => ProcInv
    BY InitFlat, Zenon DEF ProcInv
  <1>2. ProcInv /\ [ProcNext]_vars => ProcInv'
    <2>1. SUFFICES ASSUME ProcInv, [ProcNext]_vars, ~randomYield' PROVE FlatInv'
      BY Zenon DEF ProcInv
    <2>2. CASE ProcNext
      <3>1. ~randomYield /\ FlatInv
        BY <2>1, <2>2 DEF ProcNext, ProcInv
      <3>2. QED
        BY <2>2, <3>1, SwitchKeeps, KernelStepKeeps, SpawnKeeps, CallJoinKeeps, CallExitKeeps, Zenon
        DEF ProcNext
    <2>3. CASE UNCHANGED vars
      <3>1. /\ ~randomYield /\ cpu' = cpu /\ pc' = pc /\ arg' = arg /\ child' = child
            /\ joined' = joined /\ ret' = ret /\ status' = status /\ exiting' = exiting
            /\ pid' = pid /\ processIDs' = processIDs /\ pm_lock' = pm_lock /\ pcbs' = pcbs
            /\ conditions' = conditions /\ locks' = locks /\ joins' = joins /\ fault' = fault
        BY <2>1, <2>3, Zenon DEF vars, exits, tables
      <3>2. FlatInv
        BY <2>1, <3>1, Zenon DEF ProcInv
      <3>3. ProcTypeOK' /\ ~fault'
        BY <3>1, <3>2, Zenon DEF FlatInv, ProcTypeOK
      <3>4. LocksHeld'
        BY <3>1, <3>2, Zenon DEF FlatInv, LocksHeld
      <3>5. ObjectsExist' /\ ClearsAlone'
        BY <3>1, <3>2, Zenon DEF FlatInv, ObjectsExist, ClearsAlone
      <3>6. \A q \in Process : CallSound(q)'
        BY <3>1, <3>2, Zenon DEF FlatInv, CallSound
      <3>7. \A q \in Process : JoinSound(q)'
        BY <3>1, <3>2, Zenon DEF FlatInv, JoinSound
      <3>8. QED
        BY <3>3, <3>4, <3>5, <3>6, <3>7, Zenon DEF FlatInv
    <2>4. QED
      BY <2>1, <2>2, <2>3, Zenon
  <1>3. QED
    BY <1>1, <1>2, PTL DEF ProcSpec

(* NoFault: without time slices the kernel never calls through a PCB or a  *)
(* Lock that is not there, and never runs out of pids.                     *)
THEOREM NeverFaults ==
    ASSUME OneJoiner, EnoughPids PROVE ProcSpec => []NoFault
  <1>1. ProcInv => NoFault
    BY Zenon DEF ProcInv, FlatInv, NoFault
  <1>2. QED
    BY <1>1, ProcInvAlways, PTL

(* FlatJoinGetsStatus: without time slices Join returns the status of the  *)
(* program it found under its pid.                                         *)
THEOREM JoinGetsItsStatus ==
    ASSUME OneJoiner, EnoughPids PROVE ProcSpec => []FlatJoinGetsStatus
  <1>1. ProcInv => FlatJoinGetsStatus
    BY Zenon DEF ProcInv, FlatInv, JoinSound, FlatJoinGetsStatus, JoinGetsStatus
  <1>2. QED
    BY <1>1, ProcInvAlways, PTL

(* FlatJoinNotEarly: without time slices Join returns only once that       *)
(* program has called Exit.                                                *)
THEOREM JoinIsNotEarly ==
    ASSUME OneJoiner, EnoughPids PROVE ProcSpec => []FlatJoinNotEarly
  <1>1. ProcInv => FlatJoinNotEarly
    BY Zenon DEF ProcInv, FlatInv, JoinSound, FlatJoinNotEarly, JoinNotEarly
  <1>2. QED
    BY <1>1, ProcInvAlways, PTL
=============================================================================
