-------------------------- MODULE FateControlProofs --------------------------
(***************************************************************************)
(* The safety of the supervisor, for any number of handlers and processes. *)
(*                                                                         *)
(* The argument: the lock's queue has its holder in front, the waiters     *)
(* behind it, each once (LockOK), so one task at a time is between         *)
(* acquiring and releasing it; while a task is on its way to spawn the     *)
(* child it found dead stays dead (NoChildRuns), because whatever sets or  *)
(* revives a child needs the lock; so a spawn overwrites no handle of a    *)
(* live process.                                                           *)
(***************************************************************************)
EXTENDS FateControl, TLAPS

InLock == Holding \cup Queued

\* q is the queue of an asyncio.Lock of tasks that are where p says.
LockOK(q, p) ==
    /\ q \in Seq(Tasks)
    /\ \A i \in 1..Len(q) : p[q[i]] \in IF i = 1 THEN InLock ELSE Queued
    /\ \A i, j \in 1..Len(q) : q[i] = q[j] => i = j
    /\ \A t \in Tasks : p[t] \in Holding => q # <<>> /\ Head(q) = t
    /\ \A t \in Tasks : p[t] \in Queued => \E i \in 1..Len(q) : q[i] = t

\* Whoever has found no running child, and has the lock, goes on finding none.
NoChildRuns == \A t \in Tasks :
    pc[t] \in {"startStatus", "startScan", "spawn", "stopStatus"} => child \notin alive

\* Without a controller there are no handlers.
OffTogether == pc[Monitor] = "off" => \A t \in Tasks : pc[t] = "off"

\* A plain stop is under way until it is answered.
StopUnderWay == \A t \in Tasks :
    op[t] = "stop" => pc[t] \in {"stopQueued", "stopStatus", "stopWait"}

IInv == /\ TypeOK /\ LockOK(queue, pc) /\ NoLostChild
        /\ NoChildRuns /\ OffTogether /\ StopUnderWay

USE ControlAssumption DEF Tasks

------------------------------------------------------------------------------
(* The lock. p with t at "idle" is p without t. *)

Without(p, t) == [p EXCEPT ![t] = "idle"]
PcType == [Tasks -> Holding \cup Queued \cup Restarting \cup Resting \cup Watching
                    \cup {"off"}]

\* A task that is neither under the lock nor in its queue takes no part in it.
LEMMA LockOutside ==
    ASSUME NEW q, NEW p \in PcType, LockOK(q, p), NEW t \in Tasks, p[t] \notin InLock
    PROVE  LockOK(q, Without(p, t))
  BY DEF LockOK, Without, PcType, InLock, Holding, Queued

\* The head of the queue leaves it.
LEMMA LockLeave ==
    ASSUME NEW q, NEW p \in PcType, LockOK(q, p), NEW t \in Tasks,
           p[t] \in InLock, q # <<>>, Head(q) = t
    PROVE  LockOK(Tail(q), Without(p, t))
<1> DEFINE r == Tail(q)
           o == Without(p, t)
<1>1. /\ q \in Seq(Tasks) /\ Len(q) > 0 /\ q[1] = t
      BY DEF LockOK
<1>2. /\ r \in Seq(Tasks) /\ Len(r) = Len(q) - 1
      /\ \A i \in 1..Len(r) : r[i] = q[i + 1]
      BY <1>1
<1>3. \A i \in 2..Len(q) : q[i] \in Tasks /\ q[i] # t /\ p[q[i]] \in Queued
      BY <1>1 DEF LockOK
<1>4. \A i \in 1..Len(r) : o[r[i]] \in Queued
      BY <1>2, <1>3 DEF Without, PcType
<1>5. \A i, j \in 1..Len(r) : r[i] = r[j] => i = j
      BY <1>1, <1>2 DEF LockOK
<1>6. \A u \in Tasks : o[u] \notin Holding
      BY <1>1 DEF LockOK, Without, PcType, Holding, Queued
<1>7. ASSUME NEW u \in Tasks, o[u] \in Queued PROVE \E i \in 1..Len(r) : r[i] = u
  <2>1. u # t /\ p[u] \in Queued
        BY <1>7 DEF Without, PcType, Queued
  <2>2. PICK i \in 1..Len(q) : q[i] = u
        BY <2>1 DEF LockOK
  <2>3. i - 1 \in 1..Len(r) /\ r[i - 1] = u
        BY <1>1, <1>2, <2>1, <2>2
  <2> QED BY <2>3
<1> QED BY <1>2, <1>4, <1>5, <1>6, <1>7 DEF LockOK, InLock

\* A task that takes no part in it ends, wherever.
LEMMA LockEnd ==
    ASSUME NEW q, NEW p \in PcType, NEW t \in Tasks, LockOK(q, Without(p, t)),
           NEW l, l \notin InLock
    PROVE  LockOK(q, [p EXCEPT ![t] = l])
  BY DEF LockOK, Without, PcType, InLock, Holding, Queued

\* It takes a free lock.
LEMMA LockEnter ==
    ASSUME NEW p \in PcType, NEW t \in Tasks, LockOK(<<>>, Without(p, t)),
           NEW l \in Holding
    PROVE  LockOK(<<t>>, [p EXCEPT ![t] = l])
  BY DEF LockOK, Without, PcType, InLock, Holding, Queued

\* It queues.
LEMMA LockWait ==
    ASSUME NEW q, NEW p \in PcType, NEW t \in Tasks, LockOK(q, Without(p, t)),
           q # <<>>, NEW l \in Queued
    PROVE  LockOK(Append(q, t), [p EXCEPT ![t] = l])
<1> DEFINE r == Append(q, t)
           o == [p EXCEPT ![t] = l]
           w == Without(p, t)
<1>1. /\ q \in Seq(Tasks) /\ Len(q) > 0 /\ Head(q) = q[1]
      BY DEF LockOK
<1>2. /\ r \in Seq(Tasks) /\ Len(r) = Len(q) + 1 /\ r[Len(r)] = t
      /\ Head(r) = Head(q) /\ r # <<>>
      /\ \A i \in 1..Len(q) : r[i] = q[i]
      BY <1>1
<1>3. \A u \in Tasks : u # t => o[u] = w[u]
      BY DEF Without, PcType
<1>4. o[t] = l /\ w[t] = "idle" /\ "idle" \notin InLock
      BY DEF Without, PcType, InLock, Holding, Queued
<1>5. \A i \in 1..Len(q) : q[i] \in Tasks /\ q[i] # t
      BY <1>1, <1>4 DEF LockOK, InLock
<1>6. \A i \in 1..Len(r) : o[r[i]] \in IF i = 1 THEN InLock ELSE Queued
  <2> TAKE i \in 1..Len(r)
  <2>1. CASE i = Len(r) BY <2>1, <1>1, <1>2, <1>4
  <2>2. CASE i \in 1..Len(q) BY <2>2, <1>2, <1>3, <1>5 DEF LockOK
  <2> QED BY <1>1, <1>2, <2>1, <2>2
<1>7. \A i, j \in 1..Len(r) : r[i] = r[j] => i = j
      BY <1>1, <1>2, <1>5 DEF LockOK
<1>8. \A u \in Tasks : o[u] \in Holding => r # <<>> /\ Head(r) = u
      BY <1>2, <1>3, <1>4 DEF LockOK, Holding, Queued
<1>9. \A u \in Tasks : o[u] \in Queued => \E i \in 1..Len(r) : r[i] = u
      BY <1>1, <1>2, <1>3 DEF LockOK
<1> QED BY <1>2, <1>6, <1>7, <1>8, <1>9 DEF LockOK

\* The head of the queue goes on under the lock.
LEMMA LockStay ==
    ASSUME NEW q, NEW p \in PcType, LockOK(q, p), NEW t \in Tasks,
           p[t] \in InLock, q # <<>>, Head(q) = t, NEW l \in Holding
    PROVE  LockOK(q, [p EXCEPT ![t] = l])
<1>1. /\ q \in Seq(Tasks) /\ Len(q) > 0 /\ q[1] = t
      BY DEF LockOK
<1>2. \A i \in 2..Len(q) : q[i] \in Tasks /\ q[i] # t /\ p[q[i]] \in Queued
      BY <1>1 DEF LockOK
<1>3. \A u \in Tasks : u # t => p[u] \notin Holding
      BY <1>1 DEF LockOK
<1> QED BY <1>1, <1>2, <1>3 DEF LockOK, PcType, InLock, Holding, Queued
------------------------------------------------------------------------------
(* What the parts of an action do. *)

Clear == {"startStatus", "startScan", "spawn", "stopStatus"}
OpType == [Tasks -> {"none", "stop", "restart", "takeover"}]
FoundType == [Tasks -> Procs \cup {None, External}]

\* The others stay where they are.
OthersStay(t) == \A u \in Tasks \ {t} : pc'[u] = pc[u] /\ op'[u] = op[u]

LEMMA EndOK ==
    ASSUME TypeOK, NEW t \in Tasks, NEW q, NEW result \in Resting,
           LockOK(q, Without(pc, t)), End(t, result, q)
    PROVE  /\ LockOK(queue', pc')
           /\ pc' \in PcType /\ op' \in OpType /\ found' \in FoundType
           /\ OthersStay(t)
           /\ pc'[t] \in {"sleep", result} /\ op'[t] = "none"
<1>1. pc \in PcType
      BY DEF TypeOK, PcType
<1>2. PICK l \in {"sleep", result} : pc' = [pc EXCEPT ![t] = l]
      BY DEF End, Goto
<1>3. l \notin InLock /\ l \in Resting \cup Watching
      BY <1>2 DEF InLock, Holding, Queued, Resting, Watching
<1>4. LockOK(queue', pc')
      BY <1>1, <1>2, <1>3, LockEnd DEF End
<1>5. pc' \in PcType
      BY <1>1, <1>2, <1>3 DEF PcType
<1> QED BY <1>1, <1>2, <1>4, <1>5
        DEF End, TypeOK, OpType, FoundType, OthersStay, PcType

LEMMA CallStartOK ==
    ASSUME TypeOK, NEW t \in Tasks, NEW q, NEW wanted \in BOOLEAN, NEW running,
           LockOK(q, Without(pc, t)), CallStart(t, q, wanted, running)
    PROVE  /\ LockOK(queue', pc')
           /\ desired' \in BOOLEAN
           /\ pc' \in PcType /\ op' \in OpType /\ found' \in FoundType
           /\ OthersStay(t)
           /\ pc'[t] \in {"sleep", "idle", "startStatus", "startQueued"}
           /\ pc'[t] = "startStatus" => ~running
           /\ op'[t] \in {op[t], "none"}
<1>0. pc \in PcType
      BY DEF TypeOK, PcType
<1>1. CASE q # <<>>
  <2>1. pc' = [pc EXCEPT ![t] = "startQueued"] /\ queue' = Append(q, t)
        BY <1>1 DEF CallStart, GoOn, Goto
  <2>2. LockOK(queue', pc')
        BY <1>0, <1>1, <2>1, LockWait DEF Queued
  <2> QED BY <1>0, <1>1, <2>1, <2>2
          DEF CallStart, GoOn, TypeOK, OpType, FoundType, PcType, OthersStay, Queued
<1>2. CASE q = <<>> /\ running
  <2>1. End(t, "idle", <<>>) /\ desired' = TRUE
        BY <1>2 DEF CallStart, StartLocked
  <2> QED BY <1>2, <2>1, EndOK DEF Resting
<1>3. CASE q = <<>> /\ ~running
  <2>1. pc' = [pc EXCEPT ![t] = "startStatus"] /\ queue' = <<t>>
        BY <1>3 DEF CallStart, StartLocked, Goto
  <2>2. LockOK(queue', pc')
        BY <1>0, <1>3, <2>1, LockEnter DEF Holding
  <2> QED BY <1>0, <1>3, <2>1, <2>2
          DEF CallStart, StartLocked, TypeOK, OpType, FoundType, PcType, OthersStay, Holding
<1> QED BY <1>1, <1>2, <1>3

LEMMA CallStopOK ==
    ASSUME TypeOK, NEW t \in Tasks, LockOK(queue, Without(pc, t)), CallStop(t)
    PROVE  /\ LockOK(queue', pc')
           /\ desired' \in BOOLEAN /\ pc' \in PcType
           /\ \A u \in Tasks \ {t} : pc'[u] = pc[u]
           /\ pc'[t] \in {"stopQueued", "stopWait", "stopStatus"}
           /\ pc'[t] = "stopStatus" => child \notin alive
<1>0. pc \in PcType
      BY DEF TypeOK, PcType
<1>1. CASE queue # <<>>
  <2>1. pc' = [pc EXCEPT ![t] = "stopQueued"] /\ queue' = Append(queue, t)
        BY <1>1 DEF CallStop, Goto
  <2>2. LockOK(queue', pc')
        BY <1>0, <1>1, <2>1, LockWait DEF Queued
  <2> QED BY <1>0, <1>1, <2>1, <2>2 DEF CallStop, TypeOK, PcType, Queued
<1>2. CASE queue = <<>>
  <2>1. PICK l \in {"stopWait", "stopStatus"} :
            pc' = [pc EXCEPT ![t] = l] /\ (l = "stopStatus" => child \notin alive)
        BY <1>2 DEF CallStop, StopLocked, Goto, OwnsRunning
  <2>2. queue' = <<t>> /\ desired' = FALSE
        BY <1>2 DEF CallStop, StopLocked
  <2>3. LockOK(queue', pc')
        BY <1>0, <1>2, <2>1, <2>2, LockEnter DEF Holding
  <2> QED BY <1>0, <2>1, <2>2, <2>3 DEF PcType, Holding
<1> QED BY <1>1, <1>2

\* A step of one task that starts no process, and lets go of the child only when
\* that leaves no process of the controller.
LEMMA TaskStep ==
    ASSUME IInv, NEW t \in Tasks, pc[t] # "off",
           LockOK(queue', pc'), desired' \in BOOLEAN,
           pc' \in PcType, op' \in OpType, found' \in FoundType,
           OthersStay(t),
           \/ UNCHANGED <<child, alive, ours>>
           \/ child' = None /\ alive' \subseteq alive /\ ours' = {}
           \/ child' = child /\ alive' \subseteq alive /\ ours' \subseteq ours \cap alive',
           pc'[t] # "off",
           pc'[t] \in Clear => child' \notin alive',
           op'[t] = "stop" => pc'[t] \in {"stopQueued", "stopStatus", "stopWait"}
    PROVE  IInv'
<1>1. TypeOK'
      BY DEF IInv, TypeOK, LockOK, PcType, OpType, FoundType
<1>2. NoLostChild'
      BY DEF IInv, NoLostChild
<1>3. NoChildRuns'
      BY DEF IInv, NoChildRuns, Clear, OthersStay, TypeOK
<1>4. OffTogether'
      BY DEF IInv, OffTogether, OthersStay
<1>5. StopUnderWay'
      BY DEF IInv, StopUnderWay, OthersStay
<1> QED BY <1>1, <1>2, <1>3, <1>4, <1>5 DEF IInv
------------------------------------------------------------------------------
(* The invariant. *)

LEMMA InitIInv == Init => IInv
<1> SUFFICES ASSUME Init PROVE IInv
    OBVIOUS
<1>1. TypeOK
      BY DEF Init, TypeOK, FreshPc, FreshOp, FreshFound, Resting, Watching
<1>2. LockOK(queue, pc)
  <2>1. queue \in Seq(Tasks) /\ Len(queue) = 0
        BY DEF Init
  <2>2. \A t \in Tasks : pc[t] \notin Holding /\ pc[t] \notin Queued
        BY DEF Init, FreshPc, Holding, Queued
  <2> QED BY <2>1, <2>2 DEF LockOK
<1>3. NoLostChild /\ NoChildRuns /\ OffTogether /\ StopUnderWay
      BY DEF Init, NoLostChild, NoChildRuns, OffTogether, StopUnderWay,
             FreshPc, FreshOp
<1> QED BY <1>1, <1>2, <1>3 DEF IInv

\* Under the lock a task is the head of the queue, and can leave it.
LEMMA HolderLeaves ==
    ASSUME IInv, NEW t \in Tasks, pc[t] \in Holding
    PROVE  queue # <<>> /\ Head(queue) = t /\ LockOK(Tail(queue), Without(pc, t))
<1>1. queue # <<>> /\ Head(queue) = t
      BY DEF IInv, LockOK
<1> QED BY <1>1, LockLeave DEF IInv, TypeOK, PcType, InLock

LEMMA WaiterLeaves ==
    ASSUME IInv, NEW t \in Tasks, pc[t] \in Queued, Head(queue) = t
    PROVE  queue # <<>> /\ LockOK(Tail(queue), Without(pc, t))
<1>1. queue # <<>>
      BY DEF IInv, LockOK
<1> QED BY <1>1, LockLeave DEF IInv, TypeOK, PcType, InLock

LEMMA OutsiderIsOut ==
    ASSUME IInv, NEW t \in Tasks, pc[t] \notin InLock
    PROVE  LockOK(queue, Without(pc, t))
  BY LockOutside DEF IInv, TypeOK, PcType

\* No live child is lost where none runs.
LEMMA NoneOurs == IInv /\ child \notin alive => ours = {}
  BY DEF IInv, NoLostChild, TypeOK

LEMMA StartStep ==
    ASSUME IInv, NEW t \in Tasks,
           \/ StartGranted(t) \/ StartStatus(t) \/ StartScan(t)
           \/ LeaveExternal(t) \/ SpawnFails(t)
    PROVE  IInv'
<1>0. TypeOK /\ pc \in PcType /\ op \in OpType /\ found \in FoundType
      BY DEF IInv, TypeOK, PcType, OpType, FoundType
<1>1. CASE StartGranted(t)
  <2>0. pc[t] = "startQueued" /\ Head(queue) = t /\ StartLocked(t, queue, OwnsRunning)
        BY <1>1 DEF StartGranted
  <2>1. queue # <<>> /\ LockOK(Tail(queue), Without(pc, t))
        BY <2>0, WaiterLeaves DEF Queued
  <2>2. CASE OwnsRunning
    <3>1. End(t, "idle", Tail(queue)) /\ desired' = TRUE
          BY <2>0, <2>2 DEF StartLocked
    <3>2. /\ LockOK(queue', pc') /\ pc' \in PcType /\ op' \in OpType
          /\ found' \in FoundType /\ OthersStay(t)
          /\ pc'[t] \in {"sleep", "idle"} /\ op'[t] = "none"
          BY <1>0, <2>1, <3>1, EndOK DEF Resting
    <3> QED BY <1>1, <2>0, <3>1, <3>2, TaskStep DEF StartGranted, Clear
  <2>3. CASE ~OwnsRunning
    <3>1. /\ pc' = [pc EXCEPT ![t] = "startStatus"] /\ queue' = queue /\ op' = op
          /\ found' \in FoundType /\ desired' = TRUE
          BY <1>0, <2>0, <2>3 DEF StartLocked, Goto, FoundType
    <3>2. LockOK(queue', pc')
          BY <1>0, <2>0, <2>1, <3>1, LockStay DEF IInv, InLock, Queued, Holding
    <3>3. pc' \in PcType /\ pc'[t] = "startStatus" /\ OthersStay(t)
          BY <1>0, <3>1 DEF PcType, Holding, OthersStay
    <3>4. op[t] # "stop"
          BY <2>0 DEF IInv, StopUnderWay
    <3> QED BY <1>0, <1>1, <2>0, <2>3, <3>1, <3>2, <3>3, <3>4, TaskStep
            DEF StartGranted, OwnsRunning
  <2> QED BY <2>2, <2>3
<1>2. CASE StartStatus(t) \/ StartScan(t)
  <2>1. PICK l \in {"startScan", "spawn"} :
            pc' = [pc EXCEPT ![t] = l] /\ pc[t] \in {"startStatus", "startScan"}
        BY <1>2 DEF StartStatus, StartScan, Goto
  <2>2. found' \in FoundType
        BY <1>0, <1>2 DEF StartStatus, StartScan, FoundType
  <2>3. queue' = queue /\ op' = op /\ desired' = desired
        /\ UNCHANGED <<child, alive, ours>>
        BY <1>2 DEF StartStatus, StartScan
  <2>4. LockOK(queue', pc')
        BY <1>0, <2>1, <2>3, HolderLeaves, LockStay DEF IInv, Holding, InLock
  <2>5. pc' \in PcType /\ pc'[t] = l /\ OthersStay(t)
        BY <1>0, <2>1, <2>3 DEF PcType, Holding, OthersStay
  <2>6. child \notin alive /\ op[t] # "stop"
        BY <2>1 DEF IInv, NoChildRuns, StopUnderWay
  <2> QED BY <1>0, <2>1, <2>2, <2>3, <2>4, <2>5, <2>6, TaskStep DEF TypeOK
<1>3. CASE LeaveExternal(t) \/ SpawnFails(t)
  <2>1. pc[t] = "spawn" /\ LockOK(Tail(queue), Without(pc, t))
        BY <1>3, HolderLeaves DEF LeaveExternal, SpawnFails, Holding
  <2>2. \E r \in Resting : End(t, r, Tail(queue))
        BY <1>3 DEF LeaveExternal, SpawnFails, Resting
  <2>3. /\ LockOK(queue', pc') /\ pc' \in PcType /\ op' \in OpType
        /\ found' \in FoundType /\ OthersStay(t)
        /\ pc'[t] \in {"sleep"} \cup Resting /\ op'[t] = "none"
        BY <1>0, <2>1, <2>2, EndOK
  <2>4. desired' = desired /\ UNCHANGED <<child, alive, ours>>
        BY <1>3 DEF LeaveExternal, SpawnFails
  <2> QED BY <1>0, <2>1, <2>3, <2>4, TaskStep DEF Clear, Resting, TypeOK
<1> QED BY <1>1, <1>2, <1>3

\* A spawn finds no live child, so it overwrites no handle that matters.
LEMMA SpawnStep ==
    ASSUME IInv, NEW t \in Tasks, NEW p \in Procs, Spawn(t, p)
    PROVE  IInv'
<1>0. TypeOK /\ pc \in PcType
      BY DEF IInv, TypeOK, PcType
<1>1. pc[t] = "spawn" /\ End(t, "idle", Tail(queue)) /\ desired' = desired
      BY DEF Spawn
<1>2. LockOK(Tail(queue), Without(pc, t))
      BY <1>1, HolderLeaves DEF Holding
<1>3. /\ LockOK(queue', pc') /\ pc' \in PcType /\ op' \in OpType
      /\ found' \in FoundType /\ OthersStay(t)
      /\ pc'[t] \in {"sleep", "idle"} /\ op'[t] = "none"
      BY <1>0, <1>1, <1>2, EndOK DEF Resting
<1>4. ours = {}
      BY <1>1, NoneOurs DEF IInv, NoChildRuns
<1>5. child' = p /\ alive' = alive \cup {p} /\ ours' = {p}
      BY <1>4 DEF Spawn
<1>6. TypeOK'
      BY <1>0, <1>1, <1>3, <1>4, <1>5 DEF TypeOK, LockOK, PcType, OpType, FoundType
<1>7. NoLostChild'
      BY <1>5 DEF NoLostChild
<1>8. NoChildRuns'
  <2>1. \A u \in Tasks : pc'[u] \notin Clear
        BY <1>1, <1>3 DEF IInv, LockOK, OthersStay, Clear, Holding
  <2> QED BY <2>1 DEF NoChildRuns, Clear
<1>9. OffTogether' /\ StopUnderWay'
      BY <1>1, <1>3 DEF IInv, OffTogether, StopUnderWay, OthersStay
<1> QED BY <1>3, <1>6, <1>7, <1>8, <1>9 DEF IInv

LEMMA StoppedOK ==
    ASSUME IInv, NEW t \in Tasks, pc[t] \in {"stopStatus", "stopWait"}, Stopped(t)
    PROVE  /\ LockOK(queue', pc') /\ desired' \in BOOLEAN
           /\ pc' \in PcType /\ op' \in OpType /\ found' \in FoundType
           /\ OthersStay(t)
           /\ pc'[t] \in {"sleep", "idle", "startStatus", "startQueued"}
           /\ op'[t] # "stop"
<1>1. TypeOK /\ LockOK(Tail(queue), Without(pc, t))
      BY HolderLeaves DEF IInv, Holding
<1>2. CASE op[t] = "stop" /\ End(t, "idle", Tail(queue)) /\ UNCHANGED desired
      BY <1>1, <1>2, EndOK DEF TypeOK, Resting
<1>3. CASE op[t] = "restart" /\ CallStart(t, Tail(queue), TRUE, FALSE)
  <2>1. /\ LockOK(queue', pc') /\ desired' \in BOOLEAN
        /\ pc' \in PcType /\ op' \in OpType /\ found' \in FoundType
        /\ OthersStay(t)
        /\ pc'[t] \in {"sleep", "idle", "startStatus", "startQueued"}
        /\ op'[t] \in {op[t], "none"}
        BY <1>1, <1>3, CallStartOK
  <2> QED BY <1>3, <2>1
<1> QED BY <1>2, <1>3 DEF Stopped

LEMMA StopStep ==
    ASSUME IInv, NEW t \in Tasks,
           StopGranted(t) \/ StopStatus(t) \/ StopReaped(t) \/ StopRaises(t)
    PROVE  IInv'
<1>0. TypeOK /\ pc \in PcType /\ op \in OpType /\ found \in FoundType
      BY DEF IInv, TypeOK, PcType, OpType, FoundType
<1>1. CASE StopGranted(t)
  <2>0. pc[t] = "stopQueued" /\ Head(queue) = t /\ StopLocked(t, queue)
        BY <1>1 DEF StopGranted
  <2>1. PICK l \in {"stopWait", "stopStatus"} :
            pc' = [pc EXCEPT ![t] = l] /\ (l = "stopStatus" => child \notin alive)
        BY <2>0 DEF StopLocked, Goto, OwnsRunning
  <2>2. queue' = queue /\ desired' = FALSE /\ UNCHANGED <<child, op, found, alive, ours>>
        BY <1>1, <2>0 DEF StopGranted, StopLocked
  <2>3. LockOK(queue', pc')
        BY <1>0, <2>0, <2>1, <2>2, WaiterLeaves, LockStay
           DEF IInv, Holding, Queued, InLock
  <2>4. pc' \in PcType /\ pc'[t] = l /\ OthersStay(t)
        BY <1>0, <2>1, <2>2 DEF PcType, Holding, OthersStay
  <2> QED BY <1>0, <2>0, <2>1, <2>2, <2>3, <2>4, TaskStep DEF Clear
<1>2. CASE StopStatus(t)
  <2>1. pc[t] = "stopStatus" /\ child \notin alive /\ UNCHANGED <<child, alive, ours>>
        BY <1>2 DEF StopStatus, IInv, NoChildRuns
  <2>2. CASE End(t, "failed", Tail(queue)) /\ UNCHANGED desired
    <3>1. LockOK(Tail(queue), Without(pc, t))
          BY <2>1, HolderLeaves DEF Holding
    <3>2. /\ LockOK(queue', pc') /\ pc' \in PcType /\ op' \in OpType
          /\ found' \in FoundType /\ OthersStay(t)
          /\ pc'[t] \in {"sleep", "failed"} /\ op'[t] = "none"
          BY <1>0, <2>2, <3>1, EndOK DEF Resting
    <3> QED BY <1>0, <2>1, <2>2, <3>2, TaskStep DEF TypeOK
  <2>3. CASE Stopped(t)
    <3>1. /\ LockOK(queue', pc') /\ desired' \in BOOLEAN
          /\ pc' \in PcType /\ op' \in OpType /\ found' \in FoundType
          /\ OthersStay(t)
          /\ pc'[t] \in {"sleep", "idle", "startStatus", "startQueued"}
          /\ op'[t] # "stop"
          BY <2>1, <2>3, StoppedOK
    <3> QED BY <2>1, <3>1, TaskStep
  <2> QED BY <1>2, <2>2, <2>3 DEF StopStatus
<1>3. CASE StopReaped(t)
  <2>1. pc[t] = "stopWait" /\ Stopped(t) /\ child' = None
        BY <1>3 DEF StopReaped
  <2>2. alive' \subseteq alive /\ ours' = {}
        BY <1>3 DEF StopReaped, Kill, IInv, NoLostChild
  <2>3. child' \notin alive'
        BY <1>0, <2>1, <2>2 DEF TypeOK
  <2>4. /\ LockOK(queue', pc') /\ desired' \in BOOLEAN
        /\ pc' \in PcType /\ op' \in OpType /\ found' \in FoundType
        /\ OthersStay(t)
        /\ pc'[t] \in {"sleep", "idle", "startStatus", "startQueued"}
        /\ op'[t] # "stop"
        BY <2>1, StoppedOK
  <2> QED BY <2>1, <2>2, <2>3, <2>4, TaskStep
<1>4. CASE StopRaises(t)
  <2>1. pc[t] = "stopWait" /\ End(t, "failed", Tail(queue))
        /\ UNCHANGED <<desired, child, alive, ours>>
        BY <1>4 DEF StopRaises
  <2>2. LockOK(Tail(queue), Without(pc, t))
        BY <2>1, HolderLeaves DEF Holding
  <2>3. /\ LockOK(queue', pc') /\ pc' \in PcType /\ op' \in OpType
        /\ found' \in FoundType /\ OthersStay(t)
        /\ pc'[t] \in {"sleep", "failed"} /\ op'[t] = "none"
        BY <1>0, <2>1, <2>2, EndOK DEF Resting
  <2> QED BY <1>0, <2>1, <2>3, TaskStep DEF TypeOK, Clear
<1> QED BY <1>1, <1>2, <1>3, <1>4

LEMMA RestartStep ==
    ASSUME IInv, NEW t \in Tasks,
           \/ RestartScan(t) \/ RestartStops(t) \/ RestartTakesOver(t)
           \/ TakenOver(t) \/ TakeoverRefused(t) \/ TakeoverRaises(t)
    PROVE  IInv'
<1>0. TypeOK /\ pc \in PcType /\ op \in OpType /\ found \in FoundType
      BY DEF IInv, TypeOK, PcType, OpType, FoundType
<1>1. pc[t] \in Restarting
      BY DEF RestartScan, RestartStops, RestartTakesOver, TakenOver, TakeoverRefused,
             TakeoverRaises, Restarting
<1>2. op[t] # "stop" /\ LockOK(queue, Without(pc, t))
      BY <1>1, OutsiderIsOut
         DEF IInv, StopUnderWay, InLock, Holding, Queued, Restarting
<1>3. CASE RestartScan(t) \/ RestartTakesOver(t)
  <2>1. PICK l \in {"restartScanned", "restartKill"} : pc' = [pc EXCEPT ![t] = l]
        BY <1>3 DEF RestartScan, RestartTakesOver, Goto
  <2>2. queue' = queue /\ desired' \in BOOLEAN /\ UNCHANGED <<child, alive, ours>>
        BY <1>0, <1>3 DEF RestartScan, RestartTakesOver, TypeOK
  <2>3. found' \in FoundType
        BY <1>0, <1>3 DEF RestartScan, RestartTakesOver, FoundType, TypeOK, Scan,
                          OwnsRunning
  <2>4. op' \in OpType /\ op'[t] # "stop" /\ OthersStay(t)
        BY <1>0, <1>2, <1>3, <2>1
           DEF RestartScan, RestartTakesOver, OpType, PcType, OthersStay
  <2>5. LockOK(queue', pc')
        BY <1>0, <1>2, <2>1, <2>2, LockEnd DEF InLock, Holding, Queued
  <2>6. pc' \in PcType /\ pc'[t] = l
        BY <1>0, <2>1 DEF PcType, Restarting
  <2> QED BY <1>1, <2>2, <2>3, <2>4, <2>5, <2>6, TaskStep DEF Clear, Restarting
<1>4. CASE RestartStops(t)
  <2>1. CallStop(t) /\ UNCHANGED <<child, op, found, alive, ours>>
        BY <1>4 DEF RestartStops
  <2>2. /\ LockOK(queue', pc') /\ desired' \in BOOLEAN /\ pc' \in PcType
        /\ \A u \in Tasks \ {t} : pc'[u] = pc[u]
        /\ pc'[t] \in {"stopQueued", "stopWait", "stopStatus"}
        /\ pc'[t] = "stopStatus" => child \notin alive
        BY <1>0, <1>2, <2>1, CallStopOK
  <2> QED BY <1>0, <1>1, <2>1, <2>2, TaskStep DEF Clear, OthersStay, Restarting
<1>5. CASE TakenOver(t)
  <2>1. CallStart(t, queue, TRUE, child \in alive \ {found[t]}) /\ child' = child
        /\ alive' = alive \ {found[t]} /\ ours' \subseteq ours \cap alive'
        BY <1>0, <1>5 DEF TakenOver, Kill, TypeOK
  <2>2. /\ LockOK(queue', pc') /\ desired' \in BOOLEAN
        /\ pc' \in PcType /\ op' \in OpType /\ found' \in FoundType
        /\ OthersStay(t)
        /\ pc'[t] \in {"sleep", "idle", "startStatus", "startQueued"}
        /\ pc'[t] = "startStatus" => ~(child \in alive \ {found[t]})
        /\ op'[t] \in {op[t], "none"}
        BY <1>0, <1>2, <2>1, CallStartOK
  <2> QED BY <1>1, <1>2, <2>1, <2>2, TaskStep DEF Clear, Restarting
<1>6. CASE TakeoverRefused(t) \/ TakeoverRaises(t)
  <2>1. End(t, "failed", queue) /\ desired' \in BOOLEAN /\ UNCHANGED <<child, alive, ours>>
        BY <1>0, <1>6 DEF TakeoverRefused, TakeoverRaises, TypeOK
  <2>2. /\ LockOK(queue', pc') /\ pc' \in PcType /\ op' \in OpType
        /\ found' \in FoundType /\ OthersStay(t)
        /\ pc'[t] \in {"sleep", "failed"} /\ op'[t] = "none"
        BY <1>0, <1>2, <2>1, EndOK DEF Resting
  <2> QED BY <1>1, <2>1, <2>2, TaskStep DEF Clear, Restarting
<1> QED BY <1>3, <1>4, <1>5, <1>6

LEMMA RequestStep ==
    ASSUME IInv, NEW t \in Clients,
           RequestStart(t) \/ RequestStop(t) \/ RequestRestart(t)
    PROVE  IInv'
<1>0. TypeOK /\ pc \in PcType /\ op \in OpType /\ found \in FoundType
      /\ t \in Tasks
      BY DEF IInv, TypeOK, PcType, OpType, FoundType
<1>1. pc[t] \in Resting
      BY DEF RequestStart, RequestStop, RequestRestart
<1>2. op[t] # "stop" /\ LockOK(queue, Without(pc, t))
      BY <1>0, <1>1, OutsiderIsOut
         DEF IInv, StopUnderWay, InLock, Holding, Queued, Resting
<1>3. CASE RequestStart(t)
  <2>1. CallStart(t, queue, desired, OwnsRunning) /\ UNCHANGED <<child, alive, ours>>
        /\ desired \in BOOLEAN
        BY <1>0, <1>3 DEF RequestStart, TypeOK
  <2>2. /\ LockOK(queue', pc') /\ desired' \in BOOLEAN
        /\ pc' \in PcType /\ op' \in OpType /\ found' \in FoundType
        /\ OthersStay(t)
        /\ pc'[t] \in {"sleep", "idle", "startStatus", "startQueued"}
        /\ pc'[t] = "startStatus" => ~OwnsRunning
        /\ op'[t] \in {op[t], "none"}
        BY <1>0, <1>2, <2>1, CallStartOK
  <2> QED BY <1>0, <1>1, <1>2, <2>1, <2>2, TaskStep DEF Clear, OwnsRunning, Resting
<1>4. CASE (RequestStop(t) \/ RequestRestart(t)) /\ CallStop(t)
  <2>1. /\ UNCHANGED <<child, found, alive, ours>> /\ op' \in OpType
        /\ \A u \in Tasks \ {t} : op'[u] = op[u]
        BY <1>0, <1>4 DEF RequestStop, RequestRestart, OpType
  <2>2. /\ LockOK(queue', pc') /\ desired' \in BOOLEAN /\ pc' \in PcType
        /\ \A u \in Tasks \ {t} : pc'[u] = pc[u]
        /\ pc'[t] \in {"stopQueued", "stopWait", "stopStatus"}
        /\ pc'[t] = "stopStatus" => child \notin alive
        BY <1>0, <1>2, <1>4, CallStopOK
  <2> QED BY <1>0, <1>1, <2>1, <2>2, TaskStep DEF Clear, OthersStay, Resting
<1>5. CASE RequestRestart(t) /\ ~CallStop(t)
  <2>1. /\ pc' = [pc EXCEPT ![t] = "restartScan"] /\ op' = [op EXCEPT ![t] = "restart"]
        /\ UNCHANGED <<desired, queue, found, child, alive, ours>>
        BY <1>5 DEF RequestRestart, Goto
  <2>2. LockOK(queue', pc')
        BY <1>0, <1>2, <2>1, LockEnd DEF InLock, Holding, Queued
  <2>3. /\ pc' \in PcType /\ pc'[t] = "restartScan" /\ op' \in OpType
        /\ op'[t] = "restart" /\ OthersStay(t)
        BY <1>0, <2>1 DEF PcType, OpType, OthersStay, Restarting
  <2> QED BY <1>0, <1>1, <2>1, <2>2, <2>3, TaskStep DEF Clear, Resting, TypeOK
<1>6. RequestStop(t) => CallStop(t)
      BY DEF RequestStop
<1> QED BY <1>3, <1>4, <1>5, <1>6

LEMMA WatchStep ==
    ASSUME IInv, Watch
    PROVE  IInv'
<1> DEFINE m == Monitor
<1>0. TypeOK /\ pc \in PcType /\ op \in OpType /\ found \in FoundType
      /\ m \in Tasks
      BY DEF IInv, TypeOK, PcType, OpType, FoundType
<1>1. pc[m] \in Watching
      BY DEF Watch, Tick, MonitorStatus, Retry, Watching
<1>2. op[m] # "stop" /\ LockOK(queue, Without(pc, m))
      BY <1>0, <1>1, OutsiderIsOut
         DEF IInv, StopUnderWay, InLock, Holding, Queued, Watching
<1>3. ASSUME NEW l \in Watching, Goto(m, l),
             queue' = queue, op' = op, found' = found, desired' = desired,
             alive' = alive, ours' = ours,
             (child' = child) \/ (child' = None /\ child \notin alive)
      PROVE  IInv'
  <2>1. pc' = [pc EXCEPT ![m] = l]
        BY <1>3 DEF Goto
  <2>2. LockOK(queue', pc')
        BY <1>0, <1>2, <1>3, <2>1, LockEnd DEF InLock, Holding, Queued, Watching
  <2>3. pc' \in PcType /\ pc'[m] = l /\ OthersStay(m)
        BY <1>0, <1>3, <2>1 DEF PcType, OthersStay
  <2>4. child' = child \/ (child' = None /\ ours' = {})
        BY <1>3, NoneOurs
  <2>5. pc[m] # "off" /\ pc'[m] # "off" /\ pc'[m] \notin Clear
        BY <1>1, <2>3 DEF Watching, Clear
  <2>6. desired' \in BOOLEAN /\ op' \in OpType /\ found' \in FoundType /\ op'[m] # "stop"
        BY <1>0, <1>2, <1>3 DEF TypeOK
  <2> QED BY <1>0, <1>3, <2>2, <2>3, <2>4, <2>5, <2>6, TaskStep
<1>4. CASE CallStart(m, queue, TRUE, OwnsRunning) /\ UNCHANGED <<child, alive, ours>>
  <2>1. /\ LockOK(queue', pc') /\ desired' \in BOOLEAN
        /\ pc' \in PcType /\ op' \in OpType /\ found' \in FoundType
        /\ OthersStay(m)
        /\ pc'[m] \in {"sleep", "idle", "startStatus", "startQueued"}
        /\ pc'[m] = "startStatus" => ~OwnsRunning
        /\ op'[m] \in {op[m], "none"}
        BY <1>0, <1>2, <1>4, CallStartOK
  <2> QED BY <1>0, <1>1, <1>2, <1>4, <2>1, TaskStep DEF Clear, OwnsRunning, Watching
<1>5. CASE Tick
  <2>1. PICK l \in Watching : Goto(m, l)
        BY <1>5 DEF Tick, Watching
  <2> QED BY <1>3, <1>5, <2>1 DEF Tick, OwnsRunning
<1>6. CASE MonitorStatus
  <2>1. PICK l \in Watching : Goto(m, l)
        BY <1>6 DEF MonitorStatus, Watching
  <2>2. /\ queue' = queue /\ op' = op /\ found' = found /\ desired' = desired
        /\ alive' = alive /\ ours' = ours /\ child' = child
        BY <1>6 DEF MonitorStatus
  <2> QED BY <1>3, <2>1, <2>2 DEF Goto
<1>7. CASE Retry
  <2>1. CASE ~desired /\ GoOn(m, "sleep") /\ UNCHANGED <<desired, queue>>
    <3>1. Goto(m, "sleep") /\ "sleep" \in Watching
          BY <2>1 DEF GoOn, Watching
    <3>2. /\ queue' = queue /\ op' = op /\ found' = found /\ desired' = desired
          /\ alive' = alive /\ ours' = ours /\ child' = child
          BY <1>7, <2>1 DEF Retry, GoOn
    <3> QED BY <1>3, <3>1, <3>2 DEF Goto
  <2> QED BY <1>4, <1>7, <2>1 DEF Retry
<1> QED BY <1>5, <1>6, <1>7 DEF Watch

LEMMA LockFree ==
    ASSUME NEW p, \A t \in Tasks : p[t] \notin InLock
    PROVE  LockOK(<<>>, p)
<1>1. <<>> \in Seq(Tasks) /\ Len(<<>>) = 0
      OBVIOUS
<1> QED BY <1>1 DEF LockOK, InLock

LEMMA ControllerStep ==
    ASSUME IInv, CleanUp \/ ControllerCrash \/ Boot
    PROVE  IInv'
<1>0. TypeOK /\ NoLostChild
      BY DEF IInv
<1>1. CASE CleanUp \/ ControllerCrash
  <2>1. /\ pc' = [t \in Tasks |-> "off"] /\ op' = FreshOp /\ found' = FreshFound
        /\ queue' = <<>> /\ child' = None /\ desired' \in BOOLEAN
        BY <1>0, <1>1 DEF CleanUp, ControllerCrash, TypeOK
  <2>2. alive' \subseteq alive /\ ours' = {}
        BY <1>0, <1>1 DEF CleanUp, ControllerCrash, Kill, NoLostChild
  <2>3. \A t \in Tasks : pc'[t] = "off" /\ op'[t] = "none"
        BY <2>1 DEF FreshOp
  <2>4. LockOK(queue', pc')
        BY <2>1, <2>3, LockFree DEF InLock, Holding, Queued
  <2>5. TypeOK'
        BY <1>0, <2>1, <2>2, <2>4 DEF TypeOK, FreshOp, FreshFound, LockOK
  <2>6. NoLostChild' /\ NoChildRuns' /\ OffTogether' /\ StopUnderWay'
        BY <2>2, <2>3 DEF NoLostChild, NoChildRuns, OffTogether, StopUnderWay
  <2> QED BY <2>4, <2>5, <2>6 DEF IInv
<1>2. CASE Boot
  <2>1. \A t \in Tasks : pc[t] = "off" /\ op[t] # "stop"
        BY <1>2 DEF Boot, Off, IInv, OffTogether, StopUnderWay
  <2>2. queue = <<>>
    <3>1. queue \in Seq(Tasks) /\ \A i \in 1..Len(queue) : pc[queue[i]] \in InLock
          BY DEF IInv, LockOK, InLock
    <3>2. \A i \in 1..Len(queue) : queue[i] \in Tasks
          BY <3>1
    <3>3. Len(queue) = 0
      <4>1. Len(queue) \in Nat /\ 1 \notin 1..Len(queue)
            BY <2>1, <3>1, <3>2 DEF InLock, Holding, Queued
      <4> QED BY <4>1
    <3> QED BY <3>1, <3>3
  <2>3. /\ pc' = FreshPc /\ desired' \in BOOLEAN /\ ours' = {}
        /\ UNCHANGED <<child, queue, op, found, alive>>
        BY <1>2 DEF Boot
  <2>4. \A t \in Tasks : pc'[t] \in {"sleep", "idle"} /\ op'[t] # "stop"
        BY <2>1, <2>3 DEF FreshPc
  <2>5. LockOK(queue', pc')
        BY <2>2, <2>3, <2>4, LockFree DEF InLock, Holding, Queued
  <2>6. TypeOK'
        BY <1>0, <2>3 DEF TypeOK, FreshPc, Resting, Watching
  <2>7. NoLostChild' /\ NoChildRuns' /\ OffTogether' /\ StopUnderWay'
        BY <2>3, <2>4 DEF NoLostChild, NoChildRuns, OffTogether, StopUnderWay
  <2> QED BY <2>5, <2>6, <2>7 DEF IInv
<1> QED BY <1>1, <1>2

LEMMA WorldStep ==
    ASSUME IInv, World
    PROVE  IInv'
<1>1. UNCHANGED control /\ LockOK(queue', pc') /\ OffTogether' /\ StopUnderWay'
      BY DEF World, Launch, Die, control, IInv, OffTogether, StopUnderWay
<1>2. PICK p \in Procs : Launch(p) \/ Die(p)
      BY DEF World
<1>3. CASE Launch(p)
  <2>1. alive' = alive \cup {p} /\ p # child /\ ours' = ours
        BY <1>3 DEF Launch, Unused
  <2> QED BY <1>1, <2>1 DEF IInv, TypeOK, NoLostChild, NoChildRuns, control
<1>4. CASE Die(p)
  <2>1. alive' = alive \ {p} /\ ours' = ours \ {p}
        BY <1>4 DEF Die, Kill
  <2> QED BY <1>1, <2>1 DEF IInv, TypeOK, NoLostChild, NoChildRuns, control
<1> QED BY <1>2, <1>3, <1>4

LEMMA NextIInv == IInv /\ [Next]_vars => IInv'
<1> SUFFICES ASSUME IInv, [Next]_vars PROVE IInv'
    OBVIOUS
<1>1. CASE Request
      BY <1>1, RequestStep DEF Request
<1>2. ASSUME NEW t \in Tasks, Step(t) PROVE IInv'
      BY <1>2, StartStep, SpawnStep, StopStep, RestartStep DEF Step
<1>3. CASE Watch
      BY <1>3, WatchStep
<1>4. CASE CleanUp \/ ControllerCrash \/ Boot
      BY <1>4, ControllerStep
<1>5. CASE World
      BY <1>5, WorldStep
<1>6. CASE UNCHANGED vars
      BY <1>6 DEF vars, control, IInv, TypeOK, NoLostChild, NoChildRuns,
                  OffTogether, StopUnderWay
<1> QED BY <1>1, <1>2, <1>3, <1>4, <1>5, <1>6 DEF Next

LEMMA Invariance == Spec => []IInv
  BY InitIInv, NextIInv, PTL DEF Spec
------------------------------------------------------------------------------
(* What is promised. *)

\* Every field of the controller keeps its type: in particular what it counts as
\* its own process is a live one.
THEOREM TypeCorrect == Spec => []TypeOK
<1>1. IInv => TypeOK
      BY DEF IInv
<1> QED BY <1>1, Invariance, PTL

\* FateController never loses the handle of a live process that start_bot() has
\* spawned, whatever handlers, monitor, deaths and launches do between its awaits.
THEOREM NoChildIsLost == Spec => []NoLostChild
<1>1. IInv => NoLostChild
      BY DEF IInv
<1> QED BY <1>1, Invariance, PTL

\* Every way out of start_bot() and stop_bot(), the exceptions included, releases
\* self.lock: nobody queues behind a task that is gone.
THEOREM LockIsReleased == Spec => []LockHeld
<1>1. IInv => LockHeld
      BY DEF IInv, LockOK, LockHeld, InLock
<1> QED BY <1>1, Invariance, PTL

\* An action moves no task but its own.
Moves(t) == \E l : pc' = [pc EXCEPT ![t] = l]

LEMMA PartsMove ==
    ASSUME NEW t, NEW q, NEW r, NEW wanted, NEW running,
           \/ End(t, r, q) \/ CallStart(t, q, wanted, running) \/ StartLocked(t, q, running)
           \/ CallStop(t) \/ StopLocked(t, q) \/ Stopped(t)
    PROVE  Moves(t)
<1>1. ASSUME NEW l, Goto(t, l) PROVE Moves(t)
      BY <1>1 DEF Goto, Moves
<1>2. ASSUME NEW s, NEW u, End(t, s, u) PROVE Moves(t)
      BY <1>1, <1>2 DEF End
<1>3. ASSUME NEW u, NEW b, StartLocked(t, u, b) PROVE Moves(t)
      BY <1>1, <1>2, <1>3 DEF StartLocked
<1>4. ASSUME NEW u, NEW w, NEW b, CallStart(t, u, w, b) PROVE Moves(t)
      BY <1>1, <1>3, <1>4 DEF CallStart, GoOn
<1>5. ASSUME NEW u, StopLocked(t, u) PROVE Moves(t)
      BY <1>1, <1>5 DEF StopLocked
<1>6. CASE CallStop(t)
      BY <1>1, <1>5, <1>6 DEF CallStop
<1>7. CASE Stopped(t)
      BY <1>2, <1>4, <1>7 DEF Stopped
<1> QED BY <1>2, <1>3, <1>4, <1>5, <1>6, <1>7

LEMMA StepMoves == ASSUME NEW t \in Tasks, Step(t) PROVE Moves(t)
<1>1. CASE StartGranted(t)
      BY <1>1, PartsMove DEF StartGranted
<1>2. CASE StartStatus(t) \/ StartScan(t)
      BY <1>2 DEF StartStatus, StartScan, Goto, Moves
<1>3. CASE LeaveExternal(t) \/ SpawnFails(t)
      BY <1>3, PartsMove DEF LeaveExternal, SpawnFails
<1>4. CASE \E p \in Procs : Spawn(t, p)
      BY <1>4, PartsMove DEF Spawn
<1>5. CASE StopGranted(t)
      BY <1>5, PartsMove DEF StopGranted
<1>6. CASE StopStatus(t) \/ StopReaped(t) \/ StopRaises(t)
      BY <1>6, PartsMove DEF StopStatus, StopReaped, StopRaises
<1>7. CASE RestartScan(t) \/ RestartTakesOver(t)
      BY <1>7 DEF RestartScan, RestartTakesOver, Goto, Moves
<1>8. CASE RestartStops(t) \/ TakenOver(t)
      BY <1>8, PartsMove DEF RestartStops, TakenOver
<1>9. CASE TakeoverRefused(t) \/ TakeoverRaises(t)
      BY <1>9, PartsMove DEF TakeoverRefused, TakeoverRaises
<1> QED BY <1>1, <1>2, <1>3, <1>4, <1>5, <1>6, <1>7, <1>8, <1>9 DEF Step

LEMMA WatchMoves == Watch => Moves(Monitor)
<1>1. Tick \/ MonitorStatus => Moves(Monitor)
      BY DEF Tick, MonitorStatus, Goto, Moves
<1>2. Retry => Moves(Monitor)
      BY PartsMove DEF Retry, GoOn, Goto, Moves
<1> QED BY <1>1, <1>2 DEF Watch

LEMMA RequestMoves ==
    ASSUME NEW t \in Clients, RequestStart(t) \/ RequestStop(t) \/ RequestRestart(t)
    PROVE  Moves(t)
<1>1. CASE RequestStart(t)
      BY <1>1, PartsMove DEF RequestStart
<1>2. CASE RequestStop(t)
      BY <1>2, PartsMove DEF RequestStop
<1>3. CASE RequestRestart(t)
      BY <1>3, PartsMove DEF RequestRestart, Goto, Moves
<1> QED BY <1>1, <1>2, <1>3

\* Where stop_bot() answers with success no process of the controller is left, even
\* if others held the lock in between.
THEOREM StopIsClean == Spec => StopLeavesNoChild
<1> DEFINE Clean == \A t \in Clients : op[t] = "stop" /\ pc'[t] = "idle" => ours' = {}
<1>1. ASSUME IInv, [Next]_vars, NEW t \in Clients, op[t] = "stop", pc'[t] = "idle"
      PROVE  ours' = {}
  <2>0. /\ t \in Tasks /\ t # Monitor /\ pc \in PcType
        /\ pc[t] \in {"stopQueued", "stopStatus", "stopWait"}
        BY <1>1 DEF IInv, TypeOK, PcType, StopUnderWay
  <2>1. ASSUME NEW u \in Tasks, Moves(u) PROVE u = t
        BY <1>1, <2>0, <2>1 DEF Moves, PcType
  <2>2. ~Watch /\ ~Request
    <3>1. ~Watch
          BY <2>0, <2>1, WatchMoves
    <3>2. ASSUME NEW u \in Clients, RequestStart(u) \/ RequestStop(u) \/ RequestRestart(u)
          PROVE  FALSE
      <4>1. u = t
            BY <2>1, <3>2, RequestMoves
      <4> QED BY <2>0, <3>2, <4>1
              DEF RequestStart, RequestStop, RequestRestart, Resting
    <3> QED BY <3>1, <3>2 DEF Request
  <2>3. ~(CleanUp \/ ControllerCrash \/ Boot \/ World \/ UNCHANGED vars)
    <3>1. ~CleanUp
          BY <2>0 DEF CleanUp, Resting
    <3>2. ~ControllerCrash
          BY <1>1, <2>0 DEF ControllerCrash
    <3>3. ~Boot
          BY <1>1, <2>0 DEF Boot, Off, IInv, OffTogether
    <3>4. pc' # pc
          BY <1>1, <2>0
    <3> QED BY <3>1, <3>2, <3>3, <3>4 DEF World, Launch, Die, vars, control
  <2>4. CASE \E u \in Tasks : Step(u)
    <3>1. Step(t)
          BY <2>1, <2>4, StepMoves
    <3>2. StopGranted(t) \/ StopStatus(t) \/ StopReaped(t) \/ StopRaises(t)
          BY <2>0, <3>1 DEF Step, StartGranted, StartStatus, StartScan, LeaveExternal,
             Spawn, SpawnFails, RestartScan, RestartStops, RestartTakesOver, TakenOver,
             TakeoverRefused, TakeoverRaises
    <3>3. ~StopGranted(t)
          BY <1>1, <2>0 DEF StopGranted, StopLocked, Goto, PcType
    <3>4. ~StopRaises(t)
          BY <1>1, <2>0 DEF StopRaises, End, Goto, PcType
    <3>5. StopStatus(t) => ours' = {}
          BY <1>1, NoneOurs DEF StopStatus, IInv, NoChildRuns
    <3>6. StopReaped(t) => ours' = {}
          BY <1>1 DEF StopReaped, Kill, IInv, NoLostChild
    <3> QED BY <3>2, <3>3, <3>4, <3>5, <3>6
  <2> QED BY <1>1, <2>2, <2>3, <2>4 DEF Next
<1>2. IInv /\ [Next]_vars => [Clean]_vars
      BY <1>1
<1> QED BY <1>2, Invariance, PTL DEF Spec, StopLeavesNoChild
===============================================================================
