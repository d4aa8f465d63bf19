------------------------- MODULE ConfigurationProofs -------------------------
(***************************************************************************)
(* What the configuration of a server rests on: the write-behind cache     *)
(* that keeps it (ConfigCache), for any number of documents, tasks and any *)
(* size of a batch, and the lockdowns that AntiRaid keeps in it            *)
(* (AntiRaid), for any members, settings, lockdowns and faults.            *)
(*                                                                         *)
(* The cache: one task at a time is between the grant of the lock and the  *)
(* end of its flush or removal (QueueOK), and it changes the acknowledged  *)
(* copies together with the collection, or says that it does not know what *)
(* became of them (unsure).                                                *)
(*                                                                         *)
(* The lockdowns: nothing but _contain_joiners() adds to the list, so as   *)
(* long as no release meets it, the list is what releases, restarts and    *)
(* replaced objects go by (ListedOK). A timer is dropped only by a release *)
(* that ends the lockdown or breaks off, or one beside a task about to     *)
(* start a timer (ArmedOK).                                                *)
(***************************************************************************)
EXTENDS ConfigCache, AntiRaid, TLAPS

------------------------------------------------------------------------------
(* The cache. *)


Queued == {"flushQueued", "writing", "removeQueued", "removing"}
Working == {"writing", "removing"}

\* The queue of the lock holds exactly the tasks that wait for it or have it, once
\* each, and who is at work is in front.
QueueOK ==
    /\ \A t \in Tasks : pc[t] \in Queued <=> \E i \in DOMAIN queue : queue[i] = t
    /\ \A i, j \in DOMAIN queue : queue[i] = queue[j] => i = j
    /\ \A t \in Tasks : pc[t] \in Working => Head(queue) = t

\* A removal knows what it removes.
TargetOK == \A t \in Tasks : pc[t] \in {"removeQueued", "removing"} => target[t].key \in Keys

IInv == TypeOK /\ QueueOK /\ TargetOK /\ AcknowledgedIsStored

USE CacheAssumption

LEMMA InitIInv == Init => IInv
<1> SUFFICES ASSUME Init PROVE IInv OBVIOUS
<1>1. queue = <<>> /\ DOMAIN queue = {} BY DEF Init
<1>2. NoBatch \in [Keys -> Documents] BY DEF NoBatch, Documents
<1>3. TypeOK
  <2>1. {cache, dbState, db, batch} \subseteq [Keys -> Documents] BY <1>2 DEF Init
  <2>2. queue \in Seq(Tasks) BY <1>1
  <2>3. /\ pc \in [Tasks -> {"idle", "sleeping", "flushQueued", "writing",
                             "removeQueued", "removing"}]
        /\ target \in [Tasks -> [key : Keys, field : {None} \cup Fields] \cup {NoTarget}]
        /\ todo \subseteq Keys /\ unsure \subseteq Keys /\ stalled \in BOOLEAN
      BY DEF Init
  <2> QED BY <2>1, <2>2, <2>3 DEF TypeOK
<1>4. QueueOK BY <1>1 DEF Init, QueueOK, Queued, Working
<1>5. AcknowledgedIsStored BY DEF Init, AcknowledgedIsStored
<1>6. TargetOK BY DEF Init, TargetOK
<1> QED BY <1>3, <1>4, <1>5, <1>6 DEF IInv

------------------------------------------------------------------------------
(* The queue. *)

\* Who waits or works is in the queue, so the queue is not empty.
LEMMA NotEmpty ==
    ASSUME TypeOK, QueueOK, NEW t \in Tasks, pc[t] \in Queued
    PROVE  /\ Len(queue) \in Nat \ {0} /\ queue # <<>>
           /\ DOMAIN queue = 1..Len(queue) /\ queue[1] = Head(queue)
<1>1. queue \in Seq(Tasks) BY DEF TypeOK
<1>2. \E i \in DOMAIN queue : queue[i] = t BY DEF QueueOK
<1> QED BY <1>1, <1>2

\* A task asks for the lock.
LEMMA Push ==
    ASSUME TypeOK, QueueOK, NEW t \in Tasks, pc[t] \notin Queued,
           NEW label \in Queued \ Working, Goto(t, label), queue' = Append(queue, t)
    PROVE  QueueOK'
<1>1. /\ pc \in [Tasks -> {"idle", "sleeping", "flushQueued", "writing",
                           "removeQueued", "removing"}]
      /\ queue \in Seq(Tasks)
    BY DEF TypeOK
<1>2. pc'[t] = label /\ \A u \in Tasks : u # t => pc'[u] = pc[u] BY <1>1 DEF Goto
<1>3. /\ Len(queue) \in Nat /\ DOMAIN queue = 1..Len(queue)
      /\ DOMAIN queue' = 1..(Len(queue) + 1)
      /\ \A i \in 1..Len(queue) : queue'[i] = queue[i]
      /\ queue'[Len(queue) + 1] = t
    BY <1>1
<1>4. \A i \in DOMAIN queue' : i \in DOMAIN queue \/ i = Len(queue) + 1 BY <1>3
<1>5. \A i \in DOMAIN queue : queue[i] # t BY DEF QueueOK
<1>6. ASSUME NEW u \in Tasks
      PROVE pc'[u] \in Queued <=> \E i \in DOMAIN queue' : queue'[i] = u
    BY <1>2, <1>3, <1>4 DEF QueueOK
<1>7. ASSUME NEW u \in Tasks, pc'[u] \in Working PROVE Head(queue') = u
  <2>1. u # t /\ pc[u] \in Working BY <1>2, <1>7
  <2>2. Head(queue) = u BY <2>1 DEF QueueOK
  <2>3. Len(queue) \in Nat \ {0} /\ queue[1] = u BY <2>1, <2>2, NotEmpty DEF Working, Queued
  <2>4. queue'[1] = u BY <1>3, <2>3
  <2> QED BY <1>1, <1>3, <2>3, <2>4
<1>8. \A i, j \in DOMAIN queue' : queue'[i] = queue'[j] => i = j
    BY <1>3, <1>4, <1>5 DEF QueueOK
<1> QED BY <1>6, <1>7, <1>8 DEF QueueOK

\* The one in front goes on with its work.
LEMMA Grant ==
    ASSUME TypeOK, QueueOK, NEW t \in Tasks, pc[t] \in Queued, Head(queue) = t,
           NEW label \in Working, Goto(t, label), queue' = queue
    PROVE  QueueOK'
<1>1. pc'[t] = label /\ \A u \in Tasks : u # t => pc'[u] = pc[u] BY DEF Goto, TypeOK
<1> QED BY <1>1 DEF QueueOK, Queued, Working

\* The one in front gives the lock back.
LEMMA Pop ==
    ASSUME TypeOK, QueueOK, NEW t \in Tasks, pc[t] \in Queued, Head(queue) = t,
           NEW label \in {"idle", "sleeping"}, Goto(t, label), queue' = Tail(queue)
    PROVE  QueueOK'
<1>1. queue \in Seq(Tasks) BY DEF TypeOK
<1>2. pc'[t] = label /\ \A u \in Tasks : u # t => pc'[u] = pc[u] BY DEF Goto, TypeOK
<1>3. /\ Len(queue) \in Nat \ {0} /\ DOMAIN queue = 1..Len(queue) /\ queue[1] = t
    BY NotEmpty
<1>4. /\ DOMAIN queue' = 1..(Len(queue) - 1)
      /\ \A i \in DOMAIN queue' : queue'[i] = queue[i + 1] /\ i + 1 \in DOMAIN queue
    BY <1>1, <1>3
<1>5. \A i \in DOMAIN queue : i = 1 \/ (i - 1 \in DOMAIN queue' /\ queue'[i - 1] = queue[i])
    BY <1>1, <1>3, <1>4
<1>6. ASSUME NEW u \in Tasks
      PROVE pc'[u] \in Queued <=> \E i \in DOMAIN queue' : queue'[i] = u
  <2>1. CASE u = t
    <3>1. \A i \in DOMAIN queue' : queue'[i] # t
      <4> SUFFICES ASSUME NEW i \in DOMAIN queue', queue[i + 1] = t PROVE FALSE BY <1>4
      <4>1. i + 1 = 1 BY <1>3, <1>4 DEF QueueOK
      <4> QED BY <1>4, <4>1
    <3> QED BY <1>2, <2>1, <3>1 DEF Queued
  <2>2. CASE u # t
    <3>1. pc'[u] \in Queued <=> \E i \in DOMAIN queue : queue[i] = u
        BY <1>2, <2>2 DEF QueueOK
    <3>2. ASSUME NEW i \in DOMAIN queue, queue[i] = u
          PROVE \E j \in DOMAIN queue' : queue'[j] = u
        BY <1>3, <1>5, <2>2, <3>2
    <3>3. ASSUME NEW j \in DOMAIN queue', queue'[j] = u
          PROVE \E i \in DOMAIN queue : queue[i] = u
        BY <1>4, <3>3
    <3> QED BY <3>1, <3>2, <3>3
  <2> QED BY <2>1, <2>2
<1>7. ASSUME NEW u \in Tasks PROVE pc'[u] \notin Working
    BY <1>2 DEF QueueOK, Working
<1>8. \A i, j \in DOMAIN queue' : queue'[i] = queue'[j] => i = j
    BY <1>3, <1>4 DEF QueueOK
<1> QED BY <1>6, <1>7, <1>8 DEF QueueOK

------------------------------------------------------------------------------
(* The two ways a step of a flush ends. *)

LEMMA SendsBatch ==
    ASSUME TypeOK, NEW t \in Tasks, NEW rest \in SUBSET Keys, SendBatch(t, rest)
    PROVE  /\ todo' \subseteq Keys /\ batch' \in [Keys -> Documents]
           /\ Goto(t, "writing")
<1>1. PICK sent \in SUBSET {k \in rest : Dirty(k)} :
          /\ todo' \subseteq rest
          /\ batch' = [k \in Keys |-> IF k \in sent THEN cache[k] ELSE None]
          /\ Goto(t, "writing")
    BY DEF SendBatch
<1> QED BY <1>1 DEF TypeOK, Documents

LEMMA EndsFlush ==
    ASSUME TypeOK, QueueOK, NEW t \in Tasks, NEW raised \in BOOLEAN, FlushOver(t, raised),
           pc[t] \in Queued, Head(queue) = t
    PROVE  /\ todo' \subseteq Keys /\ batch' \in [Keys -> Documents]
           /\ queue' \in Seq(Tasks) /\ stalled' \in BOOLEAN /\ QueueOK'
           /\ \E label \in {"idle", "sleeping"} : Goto(t, label)
<1>1. PICK label \in {"idle", "sleeping"} : Goto(t, label) BY DEF FlushOver
<1>2. queue' = Tail(queue) BY DEF FlushOver
<1>3. QueueOK' BY <1>1, <1>2, Pop
<1>4. queue' \in Seq(Tasks)
  <2>1. queue \in Seq(Tasks) /\ queue # <<>> BY NotEmpty DEF TypeOK
  <2> QED BY <1>2, <2>1
<1>5. batch' \in [Keys -> Documents] BY DEF FlushOver, NoBatch, Documents
<1>6. todo' \subseteq Keys /\ stalled' \in BOOLEAN BY DEF FlushOver, TypeOK
<1> QED BY <1>1, <1>3, <1>4, <1>5, <1>6

LEMMA EndsRemove ==
    ASSUME TypeOK, QueueOK, NEW t \in Tasks, RemoveOver(t), pc[t] \in Queued,
           Head(queue) = t
    PROVE  /\ queue' \in Seq(Tasks) /\ QueueOK' /\ Goto(t, "idle")
           /\ target' \in [Tasks -> [key : Keys, field : {None} \cup Fields] \cup {NoTarget}]
<1>1. Goto(t, "idle") /\ queue' = Tail(queue) BY DEF RemoveOver
<1>2. QueueOK' BY <1>1, Pop
<1>3. queue' \in Seq(Tasks)
  <2>1. queue \in Seq(Tasks) /\ queue # <<>> BY NotEmpty DEF TypeOK
  <2> QED BY <1>1, <2>1
<1>4. target' \in [Tasks -> [key : Keys, field : {None} \cup Fields] \cup {NoTarget}]
    BY DEF RemoveOver, TypeOK
<1> QED BY <1>1, <1>2, <1>3, <1>4

\* A task at work is in front.
LEMMA InFront ==
    ASSUME QueueOK, NEW t \in Tasks, pc[t] \in Working
    PROVE  pc[t] \in Queued /\ Head(queue) = t
  BY DEF QueueOK, Working, Queued

LEMMA PcStep ==
    ASSUME TypeOK, NEW t \in Tasks,
           NEW label \in {"idle", "sleeping", "flushQueued", "writing", "removeQueued",
                          "removing"},
           Goto(t, label)
    PROVE  pc' \in [Tasks -> {"idle", "sleeping", "flushQueued", "writing",
                              "removeQueued", "removing"}]
  BY DEF TypeOK, Goto

------------------------------------------------------------------------------
(* One lemma per invariant: every action preserves it. *)

LEMMA PcOthers ==
    ASSUME TypeOK, NEW t \in Tasks, NEW label, Goto(t, label)
    PROVE  pc'[t] = label /\ \A u \in Tasks : u # t => pc'[u] = pc[u]
  BY DEF TypeOK, Goto

\* The parts of the type invariant, one fact each.
LEMMA Types ==
    ASSUME TypeOK
    PROVE  /\ cache \in [Keys -> Documents] /\ dbState \in [Keys -> Documents]
           /\ db \in [Keys -> Documents] /\ batch \in [Keys -> Documents]
           /\ queue \in Seq(Tasks) /\ todo \subseteq Keys /\ unsure \subseteq Keys
           /\ stalled \in BOOLEAN
  BY DEF TypeOK

LEMMA Removes ==
    ASSUME NEW f, NEW d \in Documents
    PROVE  Without(d, f) \in Documents
  BY DEF Without, Documents

\* A step of the flush that has the lock: its part of the state.
LEMMA FlushStep ==
    ASSUME TypeOK, QueueOK, TargetOK, NEW t \in Tasks, pc[t] \in Queued, Head(queue) = t,
           NEW rest \in SUBSET Keys, NEW raised \in BOOLEAN,
           target' = target, unsure' \subseteq Keys,
           \/ SendBatch(t, rest) /\ UNCHANGED <<queue, stalled>>
           \/ FlushOver(t, raised),
           cache' = cache, db' \in [Keys -> Documents], dbState' \in [Keys -> Documents]
    PROVE  TypeOK' /\ QueueOK' /\ TargetOK'
<1>1. /\ todo' \subseteq Keys /\ batch' \in [Keys -> Documents]
      /\ queue' \in Seq(Tasks) /\ stalled' \in BOOLEAN /\ QueueOK'
      /\ \E label \in {"idle", "sleeping", "writing"} : Goto(t, label)
  <2>1. CASE SendBatch(t, rest) /\ UNCHANGED <<queue, stalled>>
    <3>1. /\ todo' \subseteq Keys /\ batch' \in [Keys -> Documents]
          /\ Goto(t, "writing")
        BY <2>1, SendsBatch
    <3>2. QueueOK' BY <2>1, <3>1, Grant DEF Working
    <3> QED BY <2>1, <3>1, <3>2, Types
  <2>2. CASE FlushOver(t, raised) BY <2>2, EndsFlush
  <2> QED BY <2>1, <2>2
<1>2. PICK label \in {"idle", "sleeping", "writing"} : Goto(t, label) BY <1>1
<1>3. pc' \in [Tasks -> {"idle", "sleeping", "flushQueued", "writing", "removeQueued",
                         "removing"}]
    BY <1>2, PcStep
<1>4. cache' \in [Keys -> Documents] BY Types
<1>5. TypeOK' BY <1>1, <1>3, <1>4 DEF TypeOK
<1>6. TargetOK' BY <1>2, PcOthers DEF TargetOK
<1> QED BY <1>1, <1>5, <1>6

\* A removal ends: its part of the state.
LEMMA RemoveStep ==
    ASSUME TypeOK, QueueOK, TargetOK, NEW t \in Tasks, pc[t] \in Queued, Head(queue) = t,
           RemoveOver(t), unsure' \subseteq Keys, UNCHANGED <<todo, batch, stalled>>,
           cache' \in [Keys -> Documents], db' \in [Keys -> Documents],
           dbState' \in [Keys -> Documents]
    PROVE  TypeOK' /\ QueueOK' /\ TargetOK'
<1>1. /\ queue' \in Seq(Tasks) /\ QueueOK' /\ Goto(t, "idle")
      /\ target' \in [Tasks -> [key : Keys, field : {None} \cup Fields] \cup {NoTarget}]
    BY EndsRemove
<1>2. pc' \in [Tasks -> {"idle", "sleeping", "flushQueued", "writing", "removeQueued",
                         "removing"}]
    BY <1>1, PcStep
<1>3. todo' \subseteq Keys /\ batch' \in [Keys -> Documents] /\ stalled' \in BOOLEAN
    BY Types
<1>4. TypeOK' BY <1>1, <1>2, <1>3 DEF TypeOK
<1>5. ASSUME NEW u \in Tasks, pc'[u] \in {"removeQueued", "removing"}
      PROVE target'[u].key \in Keys
  <2>1. u # t /\ pc'[u] = pc[u] BY <1>1, <1>5, PcOthers
  <2>2. target'[u] = target[u] BY <2>1 DEF RemoveOver, TypeOK
  <2> QED BY <1>5, <2>1, <2>2 DEF TargetOK
<1> QED BY <1>1, <1>4, <1>5 DEF TargetOK

------------------------------------------------------------------------------
(* One lemma per action, or group of actions of one kind. *)

LEMMA Cogs ==
    ASSUME IInv, NEW k \in Keys, NEW d \in SUBSET Fields, Assign(k, d) \/ Edit(k, d)
    PROVE  IInv'
<1>1. TypeOK /\ QueueOK /\ TargetOK /\ AcknowledgedIsStored BY DEF IInv
<1>2. /\ cache' = [cache EXCEPT ![k] = d] /\ stalled' \in BOOLEAN
      /\ UNCHANGED <<dbState, db, queue, target, todo, batch, unsure>>
    BY <1>1, Types DEF Assign, Edit
<1>3. pc' = pc \/ (pc[Sync] = "idle" /\ Goto(Sync, "sleeping")) BY DEF Assign, Edit
<1>4. \A t \in Tasks : pc'[t] = pc[t] \/ (pc[t] = "idle" /\ pc'[t] = "sleeping")
    BY <1>1, <1>3 DEF TypeOK, Goto
<1>5. pc' \in [Tasks -> {"idle", "sleeping", "flushQueued", "writing", "removeQueued",
                         "removing"}]
  <2>1. CASE pc' = pc BY <1>1, <2>1 DEF TypeOK
  <2>2. CASE Goto(Sync, "sleeping") BY <1>1, <2>2, PcStep DEF Tasks
  <2> QED BY <1>3, <2>1, <2>2
<1>6. cache' \in [Keys -> Documents] BY <1>1, <1>2, Types DEF Documents
<1>7. TypeOK' BY <1>1, <1>2, <1>5, <1>6 DEF TypeOK
<1>8. QueueOK' BY <1>1, <1>2, <1>4 DEF QueueOK, Queued, Working
<1>9. TargetOK' BY <1>1, <1>2, <1>4 DEF TargetOK
<1>10. AcknowledgedIsStored' BY <1>1, <1>2 DEF AcknowledgedIsStored
<1> QED BY <1>7, <1>8, <1>9, <1>10 DEF IInv

LEMMA Calls ==
    ASSUME IInv, NEW t \in Tasks,
           \/ CallFlush(t)
           \/ \E k \in Keys, f \in Fields \cup {None} : CallRemove(t, k, f)
    PROVE  IInv'
<1>1. TypeOK /\ QueueOK /\ TargetOK /\ AcknowledgedIsStored BY DEF IInv
<1>2. PICK label \in {"flushQueued", "removeQueued"} : Goto(t, label)
    BY DEF CallFlush, CallRemove
<1>3. /\ pc[t] \notin Queued /\ queue' = Append(queue, t)
      /\ UNCHANGED <<cache, dbState, db, todo, batch, unsure, stalled>>
    BY DEF CallFlush, CallRemove, Queued
<1>4. QueueOK' BY <1>1, <1>2, <1>3, Push DEF Queued, Working
<1>5. \/ Goto(t, "flushQueued") /\ target' = target
      \/ \E k \in Keys, f \in Fields \cup {None} :
             target' = [target EXCEPT ![t] = [key |-> k, field |-> f]]
    BY DEF CallFlush, CallRemove
<1>6. target' \in [Tasks -> [key : Keys, field : {None} \cup Fields] \cup {NoTarget}]
    BY <1>1, <1>5 DEF TypeOK
<1>7. pc' \in [Tasks -> {"idle", "sleeping", "flushQueued", "writing", "removeQueued",
                         "removing"}]
    BY <1>1, <1>2, PcStep
<1>8. queue' \in Seq(Tasks) BY <1>1, <1>3, Types
<1>9. TypeOK' BY <1>1, <1>3, <1>6, <1>7, <1>8 DEF TypeOK
<1>10. TargetOK'
  <2>1. CASE Goto(t, "flushQueued") /\ target' = target
      BY <1>1, <2>1, PcOthers DEF TargetOK
  <2>2. CASE \E k \in Keys, f \in Fields \cup {None} :
                 target' = [target EXCEPT ![t] = [key |-> k, field |-> f]]
      BY <1>1, <1>2, <2>2, PcOthers DEF TargetOK, TypeOK
  <2> QED BY <1>5, <2>1, <2>2
<1>11. AcknowledgedIsStored' BY <1>1, <1>3 DEF AcknowledgedIsStored
<1> QED BY <1>4, <1>9, <1>10, <1>11 DEF IInv

LEMMA Granted ==
    ASSUME IInv, NEW t \in Tasks, FlushGranted(t) PROVE IInv'
<1>1. TypeOK /\ QueueOK /\ TargetOK /\ AcknowledgedIsStored BY DEF IInv
<1> DEFINE present == {k \in Keys : cache[k] # None}
<1>2. /\ pc[t] \in Queued /\ Head(queue) = t
      /\ UNCHANGED <<dbState, cache, db, target, unsure>>
      /\ \/ SendBatch(t, present) /\ UNCHANGED <<queue, stalled>>
         \/ FlushOver(t, FALSE)
    BY DEF FlushGranted, Queued
<1>3. TypeOK' /\ QueueOK' /\ TargetOK'
  <2>1. /\ unsure' \subseteq Keys /\ db' \in [Keys -> Documents]
        /\ dbState' \in [Keys -> Documents]
      BY <1>1, <1>2, Types
  <2>2. present \in SUBSET Keys OBVIOUS
  <2> HIDE DEF present
  <2> QED BY <1>1, <1>2, <2>1, <2>2, FlushStep
<1>4. AcknowledgedIsStored' BY <1>1, <1>2 DEF AcknowledgedIsStored
<1> QED BY <1>3, <1>4 DEF IInv

\* What the server acknowledges is what the snapshot says, or what was there
\* before; the second case is none, since the acknowledged copy was none too.
LEMMA Answered ==
    ASSUME IInv, NEW t \in Tasks, Acknowledged(t) PROVE IInv'
<1>1. TypeOK /\ QueueOK /\ TargetOK /\ AcknowledgedIsStored BY DEF IInv
<1>2. PICK refused \in SUBSET Sent :
          /\ db' = [k \in Keys |-> IF k \in Sent \ refused THEN Applied(k) ELSE db[k]]
          /\ dbState' = [k \in Keys |-> Stored(k, refused)]
          /\ unsure' = unsure \ {k \in Sent \ refused : db'[k] = batch[k]}
          /\ \/ refused # {} /\ FlushOver(t, TRUE)
             \/ /\ refused = {} /\ NeedsFlush(todo)
                /\ SendBatch(t, todo)
                /\ UNCHANGED <<queue, stalled>>
             \/ refused = {} /\ ~NeedsFlush(todo) /\ FlushOver(t, FALSE)
    BY DEF Acknowledged
<1>3. pc[t] \in Queued /\ Head(queue) = t /\ UNCHANGED <<cache, target>>
    BY <1>1, InFront DEF Acknowledged, Working
<1>4. db' \in [Keys -> Documents] BY <1>1, <1>2, Types DEF Applied
<1>5. dbState' \in [Keys -> Documents] BY <1>1, <1>2, Types DEF Stored
<1>6. TypeOK' /\ QueueOK' /\ TargetOK'
  <2>1. todo \in SUBSET Keys /\ unsure' \subseteq Keys BY <1>1, <1>2, Types
  <2>2. PICK raised \in BOOLEAN :
            \/ SendBatch(t, todo) /\ UNCHANGED <<queue, stalled>>
            \/ FlushOver(t, raised)
      BY <1>2
  <2> QED BY <1>1, <1>3, <1>4, <1>5, <2>1, <2>2, FlushStep
<1>7. ASSUME NEW k \in Keys \ unsure' PROVE dbState'[k] = db'[k]
  <2>1. CASE k \notin Sent \ refused
    <3>1. k \notin unsure BY <1>2, <1>7, <2>1
    <3> QED BY <1>1, <1>2, <2>1, <3>1 DEF Stored, AcknowledgedIsStored
  <2>2. CASE k \in Sent \ refused /\ db'[k] = batch[k]
      BY <1>2, <2>2 DEF Stored
  <2>3. CASE k \in Sent \ refused /\ db'[k] # batch[k]
    <3>1. k \notin unsure BY <1>2, <1>7, <2>3
    <3>2. dbState[k] = db[k] BY <1>1, <3>1 DEF AcknowledgedIsStored
    <3>3. db'[k] = batch[k] BY <1>2, <2>3, <3>2 DEF Applied
    <3> QED BY <2>3, <3>3
  <2> QED BY <2>1, <2>2, <2>3
<1>8. AcknowledgedIsStored' BY <1>7 DEF AcknowledgedIsStored
<1> QED BY <1>6, <1>8 DEF IInv

LEMMA Lost ==
    ASSUME IInv, NEW t \in Tasks, ConnectionLost(t) PROVE IInv'
<1>1. TypeOK /\ QueueOK /\ TargetOK /\ AcknowledgedIsStored BY DEF IInv
<1>2. PICK arrived \in SUBSET Sent :
          db' = [k \in Keys |-> IF k \in arrived THEN Applied(k) ELSE db[k]]
    BY DEF ConnectionLost
<1>3. /\ pc[t] \in Queued /\ Head(queue) = t /\ UNCHANGED <<cache, target, dbState>>
      /\ unsure' = unsure \cup Sent /\ FlushOver(t, TRUE)
    BY <1>1, InFront DEF ConnectionLost, Working
<1>4. db' \in [Keys -> Documents] BY <1>1, <1>2, Types DEF Applied
<1>5. dbState' \in [Keys -> Documents] BY <1>1, <1>3, Types
<1>6. TypeOK' /\ QueueOK' /\ TargetOK'
  <2>1. todo \in SUBSET Keys /\ unsure' \subseteq Keys BY <1>1, <1>3, Types DEF Sent
  <2> QED BY <1>1, <1>3, <1>4, <1>5, <2>1, FlushStep
<1>7. AcknowledgedIsStored' BY <1>1, <1>2, <1>3 DEF AcknowledgedIsStored
<1> QED BY <1>6, <1>7 DEF IInv

LEMMA Dropped ==
    ASSUME IInv, NEW t \in Tasks, DropUnstored(t) PROVE IInv'
<1>1. TypeOK /\ QueueOK /\ TargetOK /\ AcknowledgedIsStored BY DEF IInv
<1>2. /\ pc[t] \in Queued /\ Head(queue) = t /\ RemoveOver(t)
      /\ cache' = [cache EXCEPT ![target[t].key] = None]
      /\ UNCHANGED <<dbState, db, todo, batch, unsure, stalled>>
    BY DEF DropUnstored, Queued
<1>3. /\ cache' \in [Keys -> Documents] /\ db' \in [Keys -> Documents]
      /\ dbState' \in [Keys -> Documents] /\ unsure' \subseteq Keys
    BY <1>1, <1>2, Types DEF Documents
<1>4. TypeOK' /\ QueueOK' /\ TargetOK' BY <1>1, <1>2, <1>3, RemoveStep
<1>5. AcknowledgedIsStored' BY <1>1, <1>2 DEF AcknowledgedIsStored
<1> QED BY <1>4, <1>5 DEF IInv

LEMMA SendsRemove ==
    ASSUME IInv, NEW t \in Tasks, SendRemove(t) PROVE IInv'
<1>1. TypeOK /\ QueueOK /\ TargetOK /\ AcknowledgedIsStored BY DEF IInv
<1>2. /\ pc[t] = "removeQueued" /\ Head(queue) = t /\ Goto(t, "removing")
      /\ UNCHANGED <<cache, dbState, db, queue, target, todo, batch, unsure, stalled>>
    BY DEF SendRemove
<1>3. QueueOK' BY <1>1, <1>2, Grant DEF Queued, Working
<1>4. pc' \in [Tasks -> {"idle", "sleeping", "flushQueued", "writing", "removeQueued",
                         "removing"}]
    BY <1>1, <1>2, PcStep
<1>5. TypeOK' BY <1>1, <1>2, <1>4 DEF TypeOK
<1>6. TargetOK' BY <1>1, <1>2, PcOthers DEF TargetOK
<1>7. AcknowledgedIsStored' BY <1>1, <1>2 DEF AcknowledgedIsStored
<1> QED BY <1>3, <1>5, <1>6, <1>7 DEF IInv

\* A field goes from two equal documents, or both documents go.
LEMMA Deleted ==
    ASSUME IInv, NEW t \in Tasks, Removed(t) PROVE IInv'
<1>1. TypeOK /\ QueueOK /\ TargetOK /\ AcknowledgedIsStored BY DEF IInv
<1> DEFINE k == target[t].key
           f == target[t].field
<1>2. /\ db' = [db EXCEPT ![k] = Without(@, f)]
      /\ cache' = [cache EXCEPT ![k] = Without(@, f)]
      /\ dbState' = [dbState EXCEPT ![k] = Without(@, f)]
      /\ unsure' = IF f = None THEN unsure \ {k} ELSE unsure
      /\ RemoveOver(t) /\ UNCHANGED <<todo, batch, stalled>>
    BY DEF Removed
<1>3. pc[t] \in Queued /\ Head(queue) = t /\ k \in Keys
    BY <1>1, InFront DEF Removed, Working, TargetOK
<1> HIDE DEF k, f
<1>4. /\ cache' \in [Keys -> Documents] /\ db' \in [Keys -> Documents]
      /\ dbState' \in [Keys -> Documents] /\ unsure' \subseteq Keys
    BY <1>1, <1>2, <1>3, Types, Removes
<1>5. TypeOK' /\ QueueOK' /\ TargetOK' BY <1>1, <1>2, <1>3, <1>4, RemoveStep
<1>6. ASSUME NEW j \in Keys \ unsure' PROVE dbState'[j] = db'[j]
  <2>1. CASE j # k BY <1>1, <1>2, <1>6, <2>1, Types DEF AcknowledgedIsStored
  <2>2. CASE j = k
    <3>1. dbState'[k] = Without(dbState[k], f) /\ db'[k] = Without(db[k], f)
        BY <1>1, <1>2, <1>3, Types
    <3>2. CASE f = None BY <2>2, <3>1, <3>2 DEF Without
    <3>3. CASE f # None BY <1>1, <1>2, <1>6, <2>2, <3>1, <3>3 DEF AcknowledgedIsStored
    <3> QED BY <3>2, <3>3
  <2> QED BY <2>1, <2>2
<1>7. AcknowledgedIsStored' BY <1>6 DEF AcknowledgedIsStored
<1> QED BY <1>5, <1>7 DEF IInv

LEMMA Undecided ==
    ASSUME IInv, NEW t \in Tasks, RemoveFails(t) PROVE IInv'
<1>1. TypeOK /\ QueueOK /\ TargetOK /\ AcknowledgedIsStored BY DEF IInv
<1> DEFINE k == target[t].key
           f == target[t].field
<1>2. /\ db' = db \/ db' = [db EXCEPT ![k] = Without(@, f)]
      /\ unsure' = unsure \cup {k}
      /\ RemoveOver(t) /\ UNCHANGED <<cache, dbState, todo, batch, stalled>>
    BY DEF RemoveFails
<1>3. pc[t] \in Queued /\ Head(queue) = t /\ k \in Keys
    BY <1>1, InFront DEF RemoveFails, Working, TargetOK
<1> HIDE DEF k, f
<1>4. /\ cache' \in [Keys -> Documents] /\ db' \in [Keys -> Documents]
      /\ dbState' \in [Keys -> Documents] /\ unsure' \subseteq Keys
    BY <1>1, <1>2, <1>3, Types, Removes
<1>5. TypeOK' /\ QueueOK' /\ TargetOK' BY <1>1, <1>2, <1>3, <1>4, RemoveStep
<1>6. AcknowledgedIsStored' BY <1>1, <1>2, Types DEF AcknowledgedIsStored
<1> QED BY <1>5, <1>6 DEF IInv

LEMMA Restarts == ASSUME IInv, Restart PROVE IInv'
<1>1. TypeOK BY DEF IInv
<1>2. queue' = <<>> /\ DOMAIN queue' = {} BY DEF Restart
<1>3. {cache', dbState', db', batch'} \subseteq [Keys -> Documents]
  <2>1. NoBatch \in [Keys -> Documents] BY DEF NoBatch, Documents
  <2> QED BY <1>1, <2>1, Types DEF Restart
<1>4. queue' \in Seq(Tasks) BY <1>2
<1>5. TypeOK' BY <1>3, <1>4 DEF Restart, TypeOK
<1>6. QueueOK' BY <1>2 DEF Restart, QueueOK, Queued, Working
<1>7. TargetOK' BY DEF Restart, TargetOK
<1>8. AcknowledgedIsStored' BY DEF Restart, AcknowledgedIsStored
<1> QED BY <1>5, <1>6, <1>7, <1>8 DEF IInv

LEMMA Stutter == ASSUME IInv, UNCHANGED vars PROVE IInv'
  BY DEF IInv, TypeOK, QueueOK, TargetOK, AcknowledgedIsStored, vars

------------------------------------------------------------------------------
LEMMA InvStep == IInv /\ [Next]_vars => IInv'
<1> SUFFICES ASSUME IInv, [Next]_vars PROVE IInv' OBVIOUS
<1>1. CASE \E k \in Keys, d \in SUBSET Fields : Assign(k, d) \/ Edit(k, d)
    BY <1>1, Cogs
<1>2. ASSUME NEW t \in Tasks,
             \/ CallFlush(t)
             \/ \E k \in Keys, f \in Fields \cup {None} : CallRemove(t, k, f)
      PROVE  IInv'
    BY <1>2, Calls
<1>3. ASSUME NEW t \in Tasks, Step(t) PROVE IInv'
    BY <1>3, Granted, Answered, Dropped, SendsRemove, Deleted DEF Step
<1>4. ASSUME NEW t \in Tasks, ConnectionLost(t) \/ RemoveFails(t) PROVE IInv'
    BY <1>4, Lost, Undecided
<1>5. CASE Restart BY <1>5, Restarts
<1>6. CASE UNCHANGED vars BY <1>6, Stutter
<1> QED BY <1>1, <1>2, <1>3, <1>4, <1>5, <1>6 DEF Next

LEMMA IInvHolds == Spec => []IInv
<1>1. Init => IInv BY InitIInv
<1>2. IInv /\ [Next]_vars => IInv' BY InvStep
<1> QED BY <1>1, <1>2, PTL DEF Spec

\* The state of the cache, its lock and its tasks keeps its types.
THEOREM TypeCorrect == Spec => []TypeOK
<1>1. IInv => TypeOK BY DEF IInv
<1> QED BY <1>1, IInvHolds, PTL

\* What flush() counts as written, and remove() as deleted, is what MongoDB
\* holds, for any number of callers and any size of a batch.
THEOREM StoredAsAcknowledged == Spec => []AcknowledgedIsStored
<1>1. IInv => AcknowledgedIsStored BY DEF IInv
<1> QED BY <1>1, IInvHolds, PTL

\* Two tasks are never inside _flush_lock at once.
OneAtWork == \A t, u \in Tasks : pc[t] \in Working /\ pc[u] \in Working => t = u

\* _flush_lock keeps a flush and a removal, or two flushes, apart.
THEOREM LockExcludes == Spec => []OneAtWork
<1>1. IInv => OneAtWork BY DEF IInv, QueueOK, OneAtWork
<1> QED BY <1>1, IInvHolds, PTL

------------------------------------------------------------------------------
(* The lockdowns. *)

\* The bounds count what the model says they count.
BoundsOK ==
    /\ edits \in 0..MaxEdits /\ live <= edits + 1
    /\ faults \in Nat /\ started + faults <= MaxEvents

\* A setting is changed on the live object, and who waits for its own release has one.
WaitingOK ==
    /\ editor.pc # "idle" => editor.doc = live
    /\ editor.pc \in {"releasing", "disabling"} <=> Releasing("edit")
    /\ handler.pc = "releasing" <=> Releasing("join")

\* A lockdown in force has its timer, or somebody who is about to start it, or whoever
\* unlocks it is about to end it.
ArmedOK ==
    /\ handler.pc = "activating" =>
          handler.lockdown # Never /\ docs[live].until \in {Never, handler.lockdown}
    /\ InForce(docs[live].until) /\ trouble \cap Untimed = {} =>
          \/ timer = docs[live].until
          \/ boot
          \/ handler.pc = "activating" /\ handler.lockdown = docs[live].until
          \/ release["edit"].pc = "unbanning" /\ release["edit"].doc = live

\* As long as nothing has gone wrong: tasks hold the live object, no release meets a
\* containment, and who is banned is on the list, the one in the hands of a
\* containment as long as there is one, and will be unbanned by every release. Only a
\* containment adds to the list, so MongoDB is never behind in any other moment.
Held == handler.pc \in {"activating", "containing", "saving"}
List == IF handler.pc = "containing" THEN handler.bans ELSE docs[live].bans

ListedOK ==
    trouble \subseteq Untimed =>
        /\ Held => handler.doc = live
        /\ \A t \in Releasers : Releasing(t) => release[t].doc = live
        /\ Containing => \A t \in Releasers : ~Releasing(t)
        /\ banned \subseteq List
        /\ \A t \in Releasers : release[t].pc = "unbanning" => banned \subseteq release[t].todo
        /\ handler.pc # "saving" => docs[live].bans \subseteq stored.bans

RaidIInv == RaidTypeOK /\ BoundsOK /\ WaitingOK /\ ArmedOK /\ ListedOK

Handlers == [pc : {"idle", "releasing", "activating", "containing", "saving"},
             doc : Versions, lockdown : {Never} \cup Lockdowns,
             todo : SUBSET Members, bans : SUBSET Members]
Releases == [pc : {"idle", "unbanning", "saving"}, doc : Versions, todo : SUBSET Members]
Editors == [pc : {"idle", "replacing", "switching", "releasing", "disabling", "saving"},
            doc : Versions]

USE RaidAssumption DEF Untimed

LEMMA RaidInitSound == RaidInit => RaidIInv
<1> SUFFICES ASSUME RaidInit PROVE RaidIInv OBVIOUS
<1> USE DEF NoHandler, NoRelease, NoEditor
<1>1. 1 \in Versions /\ Never \in {Never} \cup Lockdowns /\ 0 \in 0..MaxEvents /\ 0 \in 0..MaxEdits
    BY DEF Versions
<1>2. docs \in [Versions -> Configs]
    BY <1>1 DEF RaidInit, Configs
<1>3. RaidTypeOK
  <2>1. docs[1] \in Configs BY <1>1, <1>2
  <2>2. <<>> \in Seq(Members) OBVIOUS
  <2>3. NoHandler \in Handlers
      BY <1>1 DEF Handlers
  <2>4. [t \in Releasers |-> NoRelease] \in [Releasers -> Releases]
      BY <1>1 DEF Releases
  <2>5. NoEditor \in Editors
      BY <1>1 DEF Editors
  <2> HIDE DEF NoHandler, NoRelease, NoEditor
  <2> QED BY <1>1, <1>2, <2>1, <2>2, <2>3, <2>4, <2>5
         DEF RaidInit, RaidTypeOK, Handlers, Releases, Editors
<1>4. BoundsOK BY <1>1 DEF RaidInit, BoundsOK
<1>5. WaitingOK BY DEF RaidInit, WaitingOK, Releasing, Releasers
<1>6. docs[1].until = Never /\ docs[1].bans = {} BY <1>1 DEF RaidInit
<1>7. ArmedOK BY <1>6 DEF RaidInit, ArmedOK, InForce
<1>8. ListedOK BY <1>6 DEF RaidInit, ListedOK, Held, Containing, Releasing, List
<1> QED BY <1>3, <1>4, <1>5, <1>7, <1>8 DEF RaidIInv

------------------------------------------------------------------------------
(* The operators of the model. *)

\* What is written to a configuration leaves one.
LEMMA Rewritten ==
    ASSUME NEW c \in Configs
    PROVE  /\ Cleared(c) \in Configs /\ Cleared(c).until = Never /\ Cleared(c).bans = {}
           /\ \A n \in {Never} \cup Lockdowns : [c EXCEPT !.until = n] \in Configs
           /\ \A mode \in Modes : [c EXCEPT !.mode = mode] \in Configs
           /\ \A b \in SUBSET Members : [c EXCEPT !.bans = b] \in Configs
BY DEF Cleared, Configs

LEMMA Parts ==
    ASSUME RaidTypeOK
    PROVE  /\ live \in Versions /\ docs \in [Versions -> Configs] /\ docs[live] \in Configs
           /\ docs[live].bans \subseteq Members /\ docs[live].until \in {Never} \cup Lockdowns
           /\ docs[live].mode \in Modes
           /\ docs[handler.doc] \in Configs /\ docs[editor.doc] \in Configs
           /\ stored \in Configs /\ stored.bans \subseteq Members
           /\ \A t \in Releasers : docs[release[t].doc] \in Configs
BY DEF RaidTypeOK, Configs

\* unlock_guild() begins: the timer is forgotten; without bans the lockdown is over at once.
LEMMA ReleaseBegins ==
    ASSUME RaidTypeOK, NEW t \in Releasers, BeginRelease(t)
    PROVE  /\ docs' \in [Versions -> Configs]
           /\ release' \in [Releasers -> Releases]
           /\ timer' = Never
           /\ trouble' \subseteq Troubles /\ trouble \subseteq trouble'
           /\ Containing => "lost" \in trouble'
           /\ \A v \in Versions : docs'[v].bans = docs[v].bans
           /\ \A v \in Versions : docs'[v].until \in {docs[v].until, Never}
           /\ \A u \in Releasers \ {t} : release'[u] = release[u]
           /\ release'[t].pc # "idle" /\ release'[t].doc = live
           /\ release'[t].pc = "unbanning" => release'[t].todo = docs[live].bans
           /\ release'[t].pc = "unbanning" \/ docs'[live].until = Never
<1> USE Parts, Rewritten DEF BeginRelease
<1>1. timer' = Never OBVIOUS
<1>2. /\ trouble' \subseteq Troubles /\ trouble \subseteq trouble'
      /\ Containing => "lost" \in trouble'
    BY DEF RaidTypeOK, Troubles
<1>3. release \in [Releasers -> Releases]
    BY DEF RaidTypeOK, Releases
<1>4. CASE docs[live].bans = {}
  <2>1. docs' = [docs EXCEPT ![live] = Cleared(docs[live])] BY <1>4
  <2>2. release' = [release EXCEPT ![t] = [pc |-> "saving", doc |-> live, todo |-> {}]]
      BY <1>4
  <2>3. [pc |-> "saving", doc |-> live, todo |-> {}]
             \in Releases
      BY DEF Releases
  <2>4. release'[t] = [pc |-> "saving", doc |-> live, todo |-> {}] BY <1>3, <2>2
  <2>5. docs'[live] = Cleared(docs[live]) /\ \A v \in Versions \ {live} : docs'[v] = docs[v]
      BY <2>1
  <2>6. docs' \in [Versions -> Configs] BY <2>1
  <2>7. /\ release' \in [Releasers -> Releases]
        /\ \A u \in Releasers \ {t} : release'[u] = release[u]
      BY <1>3, <2>2, <2>3
  <2>8. docs'[live].bans = docs[live].bans /\ docs'[live].until = Never
      BY <1>4, <2>5
  <2>9. \A v \in Versions : docs'[v].bans = docs[v].bans
                             /\ docs'[v].until \in {docs[v].until, Never}
      BY <2>5, <2>8
  <2>10. release'[t].pc = "saving" /\ release'[t].doc = live BY <2>4
  <2> HIDE DEF BeginRelease
  <2> QED BY <1>1, <1>2, <2>6, <2>7, <2>8, <2>9, <2>10
<1>5. CASE docs[live].bans # {}
  <2>1. docs' = docs BY <1>5
  <2>2. release' = [release EXCEPT ![t] =
                        [pc |-> "unbanning", doc |-> live, todo |-> docs[live].bans]]
      BY <1>5
  <2>3. [pc |-> "unbanning", doc |-> live, todo |-> docs[live].bans]
             \in Releases
      BY DEF Releases
  <2>4. release'[t] = [pc |-> "unbanning", doc |-> live, todo |-> docs[live].bans]
      BY <1>3, <2>2
  <2>5. /\ release' \in [Releasers -> Releases]
        /\ \A u \in Releasers \ {t} : release'[u] = release[u]
      BY <1>3, <2>2, <2>3
  <2> QED BY <1>1, <1>2, <2>1, <2>4, <2>5
<1> QED BY <1>4, <1>5

\* It ends with a save.
LEMMA ReleaseEnds ==
    ASSUME RaidTypeOK, NEW t \in Releasers, EndRelease(t)
    PROVE  /\ release' \in [Releasers -> Releases]
           /\ release[t].pc = "saving" /\ release'[t].pc = "idle"
           /\ \A u \in Releasers \ {t} : release'[u] = release[u]
<1>1. NoRelease \in Releases
    BY DEF NoRelease, Releases, Versions
<1> QED BY <1>1 DEF EndRelease, NoRelease, RaidTypeOK, Releases

\* A fault uses up what the bound leaves.
LEMMA FaultsBounded ==
    ASSUME RaidTypeOK, BoundsOK, Fault
    PROVE  faults' \in Nat /\ started + faults' <= MaxEvents /\ edits' = edits
BY DEF RaidTypeOK, BoundsOK, Fault, Spare

\* A save changes what MongoDB holds, or is the fault.
LEMMA SavedOrNot ==
    ASSUME RaidTypeOK, BoundsOK, Saved \/ NotSaved
    PROVE  /\ stored' \in Configs
           /\ edits' = edits /\ faults' \in Nat /\ started + faults' <= MaxEvents
           /\ stored' = docs[live] \/ stored' = stored
<1>1. CASE Saved BY <1>1, Parts DEF Saved, counters, RaidTypeOK, BoundsOK
<1>2. CASE NotSaved BY <1>2, Parts, FaultsBounded DEF NotSaved
<1> QED BY <1>1, <1>2

------------------------------------------------------------------------------
(* Steps that leave the lockdown and the list as they are. *)

\* The lockdown stays, with whoever looks after it.
LEMMA StillArmed ==
    ASSUME RaidIInv, live' = live, boot' = boot, timer' \in {timer, docs[live].until},
           docs'[live].until = docs[live].until,
           lapsed \subseteq lapsed', trouble \subseteq trouble',
           handler' = handler \/ (handler.pc # "activating" /\ handler'.pc # "activating"),
           release'["edit"] = release["edit"] \/ release["edit"].pc # "unbanning"
    PROVE  ArmedOK'
BY DEF RaidIInv, ArmedOK, InForce

\* The list stays, and no task takes it in hand; bans may be lifted.
LEMMA StillListed ==
    ASSUME RaidIInv, live' = live, banned' \subseteq banned, stored' \in {stored, docs[live]},
           docs'[live].bans = docs[live].bans, trouble \subseteq trouble',
           \/ handler' = handler
           \/ /\ ~Containing /\ handler'.pc \in {"idle", "releasing", "activating"}
              /\ handler'.pc = "activating" => handler'.doc = live,
           \A t \in Releasers : release'[t] = release[t] \/ release'[t].pc = "idle"
    PROVE  ListedOK'
<1> SUFFICES ASSUME trouble' \subseteq Untimed PROVE ListedOK' BY DEF ListedOK
<1>1. /\ Held => handler.doc = live
      /\ \A t \in Releasers : Releasing(t) => release[t].doc = live
      /\ Containing => \A t \in Releasers : ~Releasing(t)
      /\ banned \subseteq List
      /\ \A t \in Releasers : release[t].pc = "unbanning" => banned \subseteq release[t].todo
      /\ handler.pc # "saving" => docs[live].bans \subseteq stored.bans
    BY DEF RaidIInv, ListedOK
<1>2. \A t \in Releasers : Releasing(t)' => Releasing(t) /\ release'[t] = release[t]
    BY DEF Releasing
<1>3. \A t \in Releasers : release'[t].pc = "unbanning" => banned' \subseteq release'[t].todo
    BY <1>1
<1>4. CASE handler' = handler
  <2>1. List' = List /\ (Held' <=> Held) /\ (Containing' <=> Containing)
      BY <1>4 DEF List, Held, Containing
  <2> QED BY <1>1, <1>2, <1>3, <1>4, <2>1 DEF ListedOK
<1>5. CASE /\ ~Containing /\ handler'.pc \in {"idle", "releasing", "activating"}
           /\ handler'.pc = "activating" => handler'.doc = live
  <2>1. List' = List /\ (Held' => handler'.doc = live) /\ ~Containing'
      BY <1>5 DEF List, Held, Containing
  <2>2. handler.pc # "saving" BY <1>5 DEF Containing
  <2> QED BY <1>1, <1>2, <1>3, <2>1, <2>2 DEF ListedOK
<1> QED BY <1>4, <1>5

\* A release that begins ends the lockdown for whom it is to end it; without one that
\* is in force it disturbs none.
LEMMA ReleaseArmed ==
    ASSUME RaidIInv, NEW t \in Releasers, BeginRelease(t), live' = live, lapsed' = lapsed,
           handler' = handler \/ handler'.pc = "releasing",
           \/ t = "edit"
           \/ ~InForce(docs[live].until)
           \/ t = "timer" /\ timer \in lapsed /\ boot' = boot /\ handler' = handler
    PROVE  ArmedOK'
<1>1. live \in Versions BY Parts DEF RaidIInv
<1>2. docs'[live].until \in {docs[live].until, Never} BY <1>1, ReleaseBegins DEF RaidIInv
<1>3. handler'.pc = "activating" =>
          handler'.lockdown # Never /\ docs'[live].until \in {Never, handler'.lockdown}
    BY <1>2 DEF RaidIInv, ArmedOK
<1>4. CASE t = "edit"
  <2>1. \/ docs'[live].until = Never
        \/ release'["edit"].pc = "unbanning" /\ release'["edit"].doc = live
      BY <1>4, ReleaseBegins DEF RaidIInv
  <2> QED BY <1>3, <2>1 DEF ArmedOK, InForce
<1>5. CASE ~InForce(docs[live].until)
  <2>1. ~InForce(docs[live].until)' BY <1>2, <1>5 DEF InForce
  <2> QED BY <1>3, <2>1 DEF ArmedOK
<1>6. CASE t = "timer" /\ timer \in lapsed /\ boot' = boot /\ handler' = handler
  <2>1. release'["edit"] = release["edit"] BY <1>6, ReleaseBegins DEF RaidIInv, Releasers
  <2>2. InForce(docs'[live].until) =>
            docs'[live].until = docs[live].until /\ docs[live].until # timer
      BY <1>2, <1>6 DEF InForce
  <2>3. trouble \subseteq trouble' BY ReleaseBegins DEF RaidIInv
  <2> QED BY <1>3, <1>6, <2>1, <2>2, <2>3 DEF RaidIInv, ArmedOK, InForce
<1> QED BY <1>4, <1>5, <1>6

\* A release begins with the whole list to lift, unless it meets a containment.
LEMMA ReleaseListed ==
    ASSUME RaidIInv, NEW t \in Releasers, BeginRelease(t), live' = live, banned' = banned,
           stored' \in {stored, docs[live]},
           handler' = handler \/ (handler.pc = "idle" /\ handler'.pc = "releasing")
    PROVE  ListedOK'
<1> SUFFICES ASSUME trouble' \subseteq Untimed PROVE ListedOK' BY DEF ListedOK
<1>1. trouble \subseteq trouble' /\ ~Containing BY ReleaseBegins DEF RaidIInv
<1>2. /\ Held => handler.doc = live
      /\ \A u \in Releasers : Releasing(u) => release[u].doc = live
      /\ banned \subseteq docs[live].bans
      /\ \A u \in Releasers : release[u].pc = "unbanning" => banned \subseteq release[u].todo
      /\ docs[live].bans \subseteq stored.bans
    BY <1>1 DEF RaidIInv, ListedOK, List, Containing
<1>3. ~Containing' /\ (Held' => handler'.doc = live) /\ List' = docs'[live].bans
    BY <1>1, <1>2 DEF Containing, Held, List
<1>4. docs'[live].bans = docs[live].bans BY Parts, ReleaseBegins DEF RaidIInv
<1>5. \A u \in Releasers \ {t} : release'[u] = release[u] BY ReleaseBegins DEF RaidIInv
<1>6. /\ release'[t].doc = live
      /\ release'[t].pc = "unbanning" => release'[t].todo = docs[live].bans
    BY ReleaseBegins DEF RaidIInv
<1>7. \A u \in Releasers : Releasing(u)' => release'[u].doc = live
    BY <1>2, <1>5, <1>6 DEF Releasing
<1>8. \A u \in Releasers : release'[u].pc = "unbanning" => banned' \subseteq release'[u].todo
    BY <1>2, <1>5, <1>6
<1> QED BY <1>2, <1>3, <1>4, <1>7, <1>8 DEF ListedOK

------------------------------------------------------------------------------
(* Releases. *)

\* One unban takes the member off what is still to do; the last resets the lockdown
\* and the list of the object the release holds.
LEMMA UnbanDoes ==
    ASSUME RaidTypeOK, NEW t \in Releasers, NEW m \in Members, Unban(t, m)
    PROVE  /\ docs' \in [Versions -> Configs]
           /\ release' \in [Releasers -> Releases]
           /\ \A u \in Releasers \ {t} : release'[u] = release[u]
           /\ release'[t].doc = release[t].doc
           /\ release'[t].todo = release[t].todo \ {m}
           /\ \/ docs' = docs /\ release'[t].pc = "unbanning"
              \/ /\ release'[t].pc = "saving" /\ release[t].todo \subseteq {m}
                 /\ \A v \in Versions \ {release[t].doc} : docs'[v] = docs[v]
                 /\ docs'[release[t].doc].until = Never /\ docs'[release[t].doc].bans = {}
<1> DEFINE rest == release[t].todo \ {m}
           d == release[t].doc
<1>1. release \in [Releasers -> Releases] /\ release[t] \in Releases /\ d \in Versions
    BY DEF RaidTypeOK, Releases
<1>2. docs \in [Versions -> Configs] /\ docs[d] \in Configs BY <1>1, Parts
<1>3. CASE rest = {}
  <2>1. docs' = [docs EXCEPT ![d] = Cleared(docs[d])] BY <1>3 DEF Unban
  <2>2. release' = [release EXCEPT ![t].pc = "saving", ![t].todo = {}] BY <1>3 DEF Unban
  <2>3. docs' \in [Versions -> Configs] /\ docs'[d] = Cleared(docs[d])
        /\ \A v \in Versions \ {d} : docs'[v] = docs[v]
      BY <1>1, <1>2, <2>1, Rewritten
  <2>4. docs'[d].until = Never /\ docs'[d].bans = {} BY <1>2, <2>3, Rewritten
  <2>5. release'[t] = [release[t] EXCEPT !.pc = "saving", !.todo = {}] BY <1>1, <2>2
  <2>6. release'[t].pc = "saving" /\ release'[t].doc = d /\ release'[t].todo = {}
        /\ release'[t] \in Releases
      BY <1>1, <2>5 DEF Releases
  <2>7. release' \in [Releasers -> Releases] /\ \A u \in Releasers \ {t} : release'[u] = release[u]
      BY <1>1, <2>2, <2>6
  <2> QED BY <1>3, <2>3, <2>4, <2>6, <2>7
<1>4. CASE rest # {}
  <2>1. docs' = docs BY <1>4 DEF Unban
  <2>2. release' = [release EXCEPT ![t].todo = rest] BY <1>4 DEF Unban
  <2>3. release'[t] = [release[t] EXCEPT !.todo = rest] BY <1>1, <2>2
  <2>4. release'[t].pc = "unbanning" /\ release'[t].doc = d /\ release'[t].todo = rest
        /\ release'[t] \in Releases
      BY <1>1, <2>3 DEF Releases, Unban
  <2>5. release' \in [Releasers -> Releases] /\ \A u \in Releasers \ {t} : release'[u] = release[u]
      BY <1>1, <2>2, <2>4
  <2> QED BY <1>2, <2>1, <2>4, <2>5
<1> QED BY <1>3, <1>4

LEMMA UnbanSound ==
    ASSUME RaidIInv, NEW t \in Releasers, NEW m \in Members, Unban(t, m)
    PROVE  RaidIInv'
<1> USE DEF RaidIInv
<1>1. /\ UNCHANGED <<live, stored, guild, window, joins, handler, editor, timer, boot,
                     started, lapsed, edits>>
      /\ release[t].pc = "unbanning"
    BY DEF Unban, counters, Fault
<1>2. /\ banned' \subseteq Members /\ trouble' \subseteq Troubles /\ trouble \subseteq trouble'
      /\ "lost" \notin trouble' => trouble' = trouble /\ banned' = banned \ {m}
      /\ faults' \in Nat /\ started + faults' <= MaxEvents
    BY FaultsBounded DEF Unban, counters, RaidTypeOK, Troubles, BoundsOK
<1>3. RaidTypeOK' BY <1>1, <1>2, UnbanDoes DEF RaidTypeOK, Releases
<1>4. BoundsOK' BY <1>1, <1>2 DEF BoundsOK
<1>5. \A u \in Releasers : Releasing(u)' <=> Releasing(u) BY <1>1, UnbanDoes DEF Releasing
<1>6. WaitingOK' BY <1>1, <1>5 DEF WaitingOK, Releasers
<1>7. docs'[live].until \in {docs[live].until, Never}
    BY UnbanDoes, Parts
<1>8. ArmedOK'
  <2>1. ASSUME InForce(docs'[live].until), release["edit"].pc = "unbanning",
               release["edit"].doc = live
        PROVE  release'["edit"].pc = "unbanning" /\ release'["edit"].doc = live
      BY <2>1, UnbanDoes DEF InForce, Releasers
  <2>2. InForce(docs'[live].until) => docs'[live].until = docs[live].until BY <1>7 DEF InForce
  <2> QED BY <1>1, <1>2, <1>7, <2>1, <2>2 DEF ArmedOK, InForce
<1>9. ListedOK'
  <2> SUFFICES ASSUME trouble' \subseteq Untimed
               PROVE  /\ Held => handler.doc = live
                      /\ \A u \in Releasers : Releasing(u)' => release'[u].doc = live
                      /\ Containing => \A u \in Releasers : ~Releasing(u)'
                      /\ banned' \subseteq List'
                      /\ \A u \in Releasers : release'[u].pc = "unbanning"
                                                 => banned' \subseteq release'[u].todo
                      /\ handler.pc # "saving" => docs'[live].bans \subseteq stored.bans
      BY <1>1 DEF ListedOK, Held, Containing
  <2>1. trouble' = trouble /\ banned' = banned \ {m} BY <1>2
  <2>2. /\ Held => handler.doc = live
        /\ \A u \in Releasers : Releasing(u) => release[u].doc = live
        /\ Containing => \A u \in Releasers : ~Releasing(u)
        /\ banned \subseteq List
        /\ \A u \in Releasers : release[u].pc = "unbanning" => banned \subseteq release[u].todo
        /\ handler.pc # "saving" => docs[live].bans \subseteq stored.bans
      BY <2>1 DEF ListedOK
  <2>3. Releasing(t) /\ ~Containing BY <1>1, <2>2 DEF Releasing
  <2>4. \A u \in Releasers : release'[u].doc = release[u].doc BY UnbanDoes
  <2>5. \A u \in Releasers : release'[u].pc = "unbanning" => banned' \subseteq release'[u].todo
      BY <1>1, <2>1, <2>2, UnbanDoes
  <2>6. docs'[live].bans \in {docs[live].bans, {}} /\ banned' \subseteq docs'[live].bans
      BY <1>1, <2>1, <2>2, <2>3, UnbanDoes, Parts DEF List, Containing
  <2> QED BY <1>1, <1>5, <2>2, <2>3, <2>4, <2>5, <2>6 DEF List, Containing
<1> QED BY <1>3, <1>4, <1>6, <1>8, <1>9

\* A release that breaks off leaves the list, and nobody waits for it any more.
LEMMA UnbanBreaksOffSound ==
    ASSUME RaidIInv, NEW t \in Releasers, NEW m \in Members, UnbanBreaksOff(t, m)
    PROVE  RaidIInv'
<1> USE DEF RaidIInv
<1>1. /\ UNCHANGED <<docs, live, stored, guild, window, joins, timer, boot, started, lapsed>>
      /\ Releasing(t) /\ banned' \subseteq banned /\ Fault
      /\ release' = [release EXCEPT ![t] = NoRelease]
      /\ trouble' = trouble \cup {"broken"}
    BY DEF UnbanBreaksOff, config, Releasing
<1>2. /\ t = "join" => handler' = NoHandler
      /\ t # "join" => handler' = handler
      /\ t = "edit" => editor' = NoEditor
      /\ t # "edit" => editor' = editor
    BY DEF UnbanBreaksOff
<1>3. NoHandler \in Handlers /\ NoEditor \in Editors /\ NoRelease \in Releases
    BY DEF NoHandler, NoEditor, NoRelease, Handlers, Editors, Releases, Versions
<1>4. /\ release' \in [Releasers -> Releases] /\ release'[t].pc = "idle"
      /\ \A u \in Releasers \ {t} : release'[u] = release[u]
    BY <1>1, <1>3 DEF RaidTypeOK, Releases, NoRelease
<1>5. RaidTypeOK'
  <2>1. handler' \in Handlers /\ editor' \in Editors
      BY <1>2, <1>3 DEF RaidTypeOK, Handlers, Editors
  <2> QED BY <1>1, <1>4, <2>1 DEF RaidTypeOK, Handlers, Editors, Releases, Troubles
<1>6. BoundsOK' BY <1>1, FaultsBounded DEF BoundsOK
<1>7. WaitingOK'
    BY <1>1, <1>2, <1>4 DEF WaitingOK, Releasing, Releasers, NoHandler, NoEditor
<1>8. \/ handler' = handler
      \/ ~Containing /\ handler.pc = "releasing" /\ handler'.pc = "idle"
    BY <1>1, <1>2 DEF WaitingOK, Containing, NoHandler
<1>9. ArmedOK' BY <1>1, <1>8 DEF ArmedOK
<1>10. ListedOK'
  <2>1. \A u \in Releasers : release'[u] = release[u] \/ release'[u].pc = "idle" BY <1>4
  <2> QED BY <1>1, <1>8, <2>1, StillListed
<1> QED BY <1>5, <1>6, <1>7, <1>9, <1>10

LEMMA EndOwnReleaseSound ==
    ASSUME RaidIInv, NEW t \in Releasers, EndOwnRelease(t)
    PROVE  RaidIInv'
<1> USE DEF RaidIInv
<1>1. /\ UNCHANGED <<docs, live, guild, banned, window, joins, handler, editor, timer, boot,
                     started, lapsed, trouble>>
      /\ t \notin {"edit", "join"} /\ EndRelease(t) /\ (Saved \/ NotSaved)
    BY DEF EndOwnRelease, discord
<1>2. RaidTypeOK' BY <1>1, ReleaseEnds, SavedOrNot DEF RaidTypeOK, Releases
<1>3. BoundsOK' BY <1>1, SavedOrNot DEF BoundsOK
<1>4. release'["edit"] = release["edit"] /\ release'["join"] = release["join"]
    BY <1>1, ReleaseEnds DEF Releasers
<1>5. WaitingOK' BY <1>1, <1>4 DEF WaitingOK, Releasing
<1>6. ArmedOK' BY <1>1, <1>4, StillArmed
<1>7. ListedOK' BY <1>1, ReleaseEnds, SavedOrNot, StillListed
<1> QED BY <1>2, <1>3, <1>5, <1>6, <1>7

LEMMA TimerFiresSound ==
    ASSUME RaidIInv, TimerFires
    PROVE  RaidIInv'
<1> USE DEF RaidIInv
<1>1. /\ UNCHANGED <<live, stored, guild, banned, window, joins, handler, editor, boot,
                     started, lapsed, edits, faults>>
      /\ timer \in lapsed /\ BeginRelease("timer") /\ "timer" \in Releasers
    BY DEF TimerFires, discord, counters, Releasers
<1>2. RaidTypeOK' BY <1>1, ReleaseBegins DEF RaidTypeOK, Releases
<1>3. BoundsOK' BY <1>1 DEF BoundsOK
<1>4. release'["edit"] = release["edit"] /\ release'["join"] = release["join"]
    BY <1>1, ReleaseBegins DEF Releasers
<1>5. WaitingOK' BY <1>1, <1>4 DEF WaitingOK, Releasing
<1>6. ArmedOK' BY <1>1, ReleaseArmed
<1>7. ListedOK' BY <1>1, ReleaseListed
<1> QED BY <1>2, <1>3, <1>5, <1>6, <1>7

\* After a restart: a lockdown in force gets its timer, one whose time is over is lifted.
LEMMA RestoreSound ==
    ASSUME RaidIInv, Restore
    PROVE  RaidIInv'
<1> USE DEF RaidIInv
<1>1. /\ UNCHANGED <<live, stored, guild, banned, window, joins, handler, editor,
                     started, lapsed, edits, faults>>
      /\ boot' = FALSE /\ "boot" \in Releasers
    BY DEF Restore, discord, counters, Releasers
<1>2. BoundsOK' BY <1>1 DEF BoundsOK
<1>3. CASE /\ InForce(docs[live].until) \/ docs[live].until = Never
           /\ UNCHANGED <<docs, release, trouble>>
           /\ InForce(docs[live].until) => timer' = docs[live].until
           /\ timer' \in {timer, docs[live].until}
  <2>1. RaidTypeOK' BY <1>1, <1>3, Parts DEF RaidTypeOK
  <2>2. WaitingOK' BY <1>1, <1>3 DEF WaitingOK, Releasing
  <2>3. ArmedOK' BY <1>1, <1>3 DEF ArmedOK, InForce
  <2>4. ListedOK' BY <1>1, <1>3, StillListed
  <2> QED BY <1>2, <2>1, <2>2, <2>3, <2>4
<1>4. CASE ~InForce(docs[live].until) /\ BeginRelease("boot")
  <2>1. RaidTypeOK' BY <1>1, <1>4, ReleaseBegins DEF RaidTypeOK, Releases
  <2>2. release'["edit"] = release["edit"] /\ release'["join"] = release["join"]
      BY <1>1, <1>4, ReleaseBegins DEF Releasers
  <2>3. WaitingOK' BY <1>1, <2>2 DEF WaitingOK, Releasing
  <2>4. ArmedOK' BY <1>1, <1>4, ReleaseArmed
  <2>5. ListedOK' BY <1>1, <1>4, ReleaseListed
  <2> QED BY <1>2, <2>1, <2>3, <2>4, <2>5
<1> QED BY <1>3, <1>4 DEF Restore, InForce

------------------------------------------------------------------------------
(* Joins. *)

LEMMA JoinSound ==
    ASSUME RaidIInv, NEW m \in Members, Join(m)
    PROVE  RaidIInv'
<1> USE DEF RaidIInv
<1>1. /\ UNCHANGED <<docs, live, stored, banned, window, handler, release, editor, timer,
                     boot, started, lapsed, edits, faults, trouble>>
      /\ guild' \subseteq Members
      /\ joins' \in {joins, Append(joins, m)}
    BY DEF Join, config, counters, RaidTypeOK
<1>2. joins' \in Seq(Members)
  <2>1. joins \in Seq(Members) BY DEF RaidTypeOK
  <2>2. Append(joins, m) \in Seq(Members) BY <2>1
  <2> QED BY <1>1, <2>1, <2>2
<1>3. RaidTypeOK' BY <1>1, <1>2 DEF RaidTypeOK
<1>4. BoundsOK' BY <1>1 DEF BoundsOK
<1>5. WaitingOK' BY <1>1 DEF WaitingOK, Releasing
<1>6. ArmedOK' BY <1>1, StillArmed
<1>7. ListedOK' BY <1>1, StillListed
<1> QED BY <1>3, <1>4, <1>5, <1>6, <1>7

LEMMA LockGrantedDoes ==
    ASSUME RaidTypeOK, NEW m \in Members, LockGranted(m)
    PROVE  /\ UNCHANGED <<live, stored, guild, banned, editor, boot, lapsed, edits, faults>>
           /\ joins' \in Seq(Members) /\ handler.pc = "idle"
BY DEF LockGranted, discord, counters, RaidTypeOK

LEMMA JoinIgnoredSound ==
    ASSUME RaidIInv, NEW m \in Members, JoinIgnored(m)
    PROVE  RaidIInv'
<1> USE DEF RaidIInv
<1>1. /\ UNCHANGED <<docs, live, stored, guild, banned, window, handler, release, editor, timer,
                     boot, started, lapsed, edits, faults, trouble>>
      /\ joins' \in Seq(Members)
    BY LockGrantedDoes DEF JoinIgnored
<1>2. RaidTypeOK' BY <1>1 DEF RaidTypeOK
<1>3. BoundsOK' BY <1>1 DEF BoundsOK
<1>4. WaitingOK' BY <1>1 DEF WaitingOK, Releasing
<1>5. ArmedOK' BY <1>1, StillArmed
<1>6. ListedOK' BY <1>1, StillListed
<1> QED BY <1>2, <1>3, <1>4, <1>5, <1>6

\* A containment begins with a copy of the list.
LEMMA ContainDoes ==
    ASSUME RaidTypeOK, NEW d \in Versions, NEW members \in SUBSET Members, Contain(d, members)
    PROVE  /\ handler' \in Handlers /\ handler'.pc \in {"idle", "containing"}
           /\ handler'.pc = "containing" =>
                 members # {} /\ handler'.doc = d /\ handler'.bans = docs[d].bans
<1>1. 1 \in Versions BY DEF Versions
<1>2. docs[d].bans \subseteq Members BY DEF RaidTypeOK, Configs
<1> QED BY <1>1, <1>2 DEF Contain, NoHandler, Handlers

\* Nobody is banned yet, so the copy is as good as the list, if no release is on its way.
LEMMA ContainListed ==
    ASSUME RaidIInv, NEW d \in Versions, NEW members \in SUBSET Members, Contain(d, members),
           ~Containing, trouble \subseteq trouble',
           trouble \subseteq Untimed => d = live,
           members # {} /\ (\E t \in Releasers : Releasing(t)) => "lost" \in trouble',
           UNCHANGED <<docs, live, banned, release>>, stored' \in {stored, docs[live]}
    PROVE  ListedOK'
<1> SUFFICES ASSUME trouble' \subseteq Untimed PROVE ListedOK' BY DEF ListedOK
<1>1. /\ d = live
      /\ \A t \in Releasers : Releasing(t) => release[t].doc = live
      /\ banned \subseteq docs[live].bans
      /\ \A t \in Releasers : release[t].pc = "unbanning" => banned \subseteq release[t].todo
      /\ docs[live].bans \subseteq stored.bans
    BY DEF RaidIInv, ListedOK, List, Containing
<1>2. handler'.pc = "containing" => \A t \in Releasers : ~Releasing(t)
    BY ContainDoes DEF RaidIInv
<1>3. /\ Held' => handler'.doc = live
      /\ Containing' => \A t \in Releasers : ~Releasing(t)
      /\ List' = docs[live].bans
      /\ handler'.pc # "saving"
    BY <1>1, <1>2, ContainDoes DEF RaidIInv, Held, Containing, List
<1>4. \A t \in Releasers : Releasing(t)' <=> Releasing(t) BY DEF Releasing
<1> QED BY <1>1, <1>3, <1>4 DEF ListedOK

LEMMA JoinInLockdownSound ==
    ASSUME RaidIInv, NEW m \in Members, JoinInLockdown(m)
    PROVE  RaidIInv'
<1> USE DEF RaidIInv
<1>1. /\ UNCHANGED <<docs, live, stored, guild, banned, release, editor, timer,
                     boot, started, lapsed, edits, faults>>
      /\ joins' \in Seq(Members) /\ window' \subseteq Members /\ handler.pc = "idle"
    BY LockGrantedDoes DEF JoinInLockdown, RaidTypeOK
<1>2. /\ trouble \subseteq trouble' /\ trouble' \subseteq Troubles
      /\ \/ UNCHANGED <<handler, trouble>>
         \/ /\ Contain(live, {m})
            /\ (\E t \in Releasers : Releasing(t)) => "lost" \in trouble'
    BY DEF JoinInLockdown, RaidTypeOK, Troubles
<1>3. live \in Versions /\ {m} \in SUBSET Members BY Parts
<1>4. handler' \in Handlers /\ handler'.pc \in {"idle", "containing"}
    BY <1>1, <1>2, <1>3, ContainDoes DEF RaidTypeOK, Handlers
<1>5. RaidTypeOK' BY <1>1, <1>2, <1>4 DEF RaidTypeOK, Handlers
<1>6. BoundsOK' BY <1>1 DEF BoundsOK
<1>7. WaitingOK' BY <1>1, <1>4 DEF WaitingOK, Releasing
<1>8. ArmedOK' BY <1>1, <1>2, <1>4, StillArmed
<1>9. ListedOK'
  <2>1. CASE UNCHANGED <<handler, trouble>> BY <1>1, <2>1, StillListed
  <2>2. CASE Contain(live, {m}) /\ ((\E t \in Releasers : Releasing(t)) => "lost" \in trouble')
      BY <1>1, <1>2, <1>3, <2>2, ContainListed DEF Containing
  <2> QED BY <1>2, <2>1, <2>2
<1> QED BY <1>5, <1>6, <1>7, <1>8, <1>9

LEMMA JoinReleasesSound ==
    ASSUME RaidIInv, NEW m \in Members, JoinReleases(m)
    PROVE  RaidIInv'
<1> USE DEF RaidIInv
<1>1. /\ UNCHANGED <<live, stored, guild, banned, editor, boot, started, lapsed, edits, faults>>
      /\ joins' \in Seq(Members) /\ window' \subseteq Members /\ handler.pc = "idle"
      /\ ~InForce(docs[live].until)
      /\ BeginRelease("join") /\ "join" \in Releasers
    BY LockGrantedDoes DEF JoinReleases, RaidTypeOK, Releasers
<1>2. handler' = [NoHandler EXCEPT !.pc = "releasing"] BY DEF JoinReleases
<1>3. 1 \in Versions BY DEF Versions
<1>4. handler' \in Handlers /\ handler'.pc = "releasing"
    BY <1>2, <1>3 DEF Handlers, NoHandler
<1>5. RaidTypeOK' BY <1>1, <1>4, ReleaseBegins DEF RaidTypeOK, Releases, Handlers
<1>6. BoundsOK' BY <1>1 DEF BoundsOK
<1>7. release'["edit"] = release["edit"] /\ release'["join"].pc # "idle"
    BY <1>1, ReleaseBegins DEF Releasers
<1>8. WaitingOK' BY <1>1, <1>4, <1>7 DEF WaitingOK, Releasing
<1>9. ArmedOK' BY <1>1, <1>4, ReleaseArmed
<1>10. ListedOK' BY <1>1, <1>4, ReleaseListed
<1> QED BY <1>5, <1>6, <1>8, <1>9, <1>10

\* A raid begins the next lockdown of the live object; or there is none.
LEMMA RaidDoes ==
    ASSUME RaidTypeOK, BoundsOK, NEW recent \in SUBSET Members,
           NoRaid \/ Raid(live, recent), faults' = faults
    PROVE  /\ docs' \in [Versions -> Configs] /\ docs'[live].bans = docs[live].bans
           /\ handler' \in Handlers /\ started' \in 0..MaxEvents
           /\ started' + faults' <= MaxEvents
           /\ \/ docs' = docs /\ handler'.pc = "idle"
              \/ /\ handler'.pc = "activating" /\ handler'.doc = live
                 /\ handler'.lockdown # Never /\ docs'[live].until = handler'.lockdown
<1>1. live \in Versions /\ docs \in [Versions -> Configs] /\ docs[live] \in Configs BY Parts
<1>2. 1 \in Versions BY DEF Versions
<1>3. CASE NoRaid
    BY <1>1, <1>2, <1>3 DEF NoRaid, NoHandler, Handlers, RaidTypeOK, BoundsOK
<1>4. CASE Raid(live, recent)
  <2>1. started + 1 \in Lockdowns /\ started + 1 \in 0..MaxEvents
        /\ started + 1 + faults <= MaxEvents /\ started + 1 # Never
    <3>1. started \in Nat /\ faults \in Nat /\ MaxEvents \in Nat
        BY DEF RaidTypeOK, BoundsOK
    <3>2. started + faults < MaxEvents BY <1>4 DEF Raid, Spare
    <3> QED BY <3>1, <3>2 DEF Lockdowns, Never
  <2>2. PICK c \in SUBSET recent :
            /\ docs' = [docs EXCEPT ![live].until = started + 1]
            /\ handler' = [pc |-> "activating", doc |-> live, lockdown |-> started + 1,
                           todo |-> c \cap guild, bans |-> {}]
      BY <1>4 DEF Raid, NextLockdown
  <2>3. started' = started + 1 BY <1>4 DEF Raid, NextLockdown
  <2>4. handler' \in Handlers BY <1>1, <2>1, <2>2 DEF Handlers
  <2>5. docs' = [docs EXCEPT ![live] = [docs[live] EXCEPT !.until = started + 1]] BY <2>2
  <2>6. /\ [docs[live] EXCEPT !.until = started + 1] \in Configs
        /\ [docs[live] EXCEPT !.until = started + 1].until = started + 1
        /\ [docs[live] EXCEPT !.until = started + 1].bans = docs[live].bans
      BY <1>1, <2>1 DEF Configs
  <2>7. docs' \in [Versions -> Configs] /\ docs'[live].until = started + 1
        /\ docs'[live].bans = docs[live].bans
      BY <1>1, <2>5, <2>6
  <2> QED BY <2>1, <2>2, <2>3, <2>4, <2>7
<1> QED BY <1>3, <1>4

LEMMA JoinCountedSound ==
    ASSUME RaidIInv, NEW m \in Members, JoinCounted(m)
    PROVE  RaidIInv'
<1> USE DEF RaidIInv
<1>1. /\ UNCHANGED <<live, stored, guild, banned, release, editor, timer, boot, lapsed,
                     edits, faults, trouble>>
      /\ joins' \in Seq(Members) /\ window' \subseteq Members /\ handler.pc = "idle"
      /\ NoRaid \/ Raid(live, window')
    BY LockGrantedDoes DEF JoinCounted, RaidTypeOK
<1>2. /\ docs' \in [Versions -> Configs] /\ docs'[live].bans = docs[live].bans
      /\ handler' \in Handlers /\ started' \in 0..MaxEvents
      /\ started' + faults' <= MaxEvents
      /\ \/ docs' = docs /\ handler'.pc = "idle"
         \/ /\ handler'.pc = "activating" /\ handler'.doc = live
            /\ handler'.lockdown # Never /\ docs'[live].until = handler'.lockdown
    BY <1>1, RaidDoes
<1>3. RaidTypeOK' BY <1>1, <1>2 DEF RaidTypeOK, Handlers
<1>4. BoundsOK' BY <1>1, <1>2 DEF BoundsOK
<1>5. WaitingOK' BY <1>1, <1>2 DEF WaitingOK, Releasing
<1>6. ArmedOK'
  <2>1. CASE docs' = docs /\ handler'.pc = "idle" BY <1>1, <2>1, StillArmed
  <2>2. CASE /\ handler'.pc = "activating" /\ handler'.doc = live
             /\ handler'.lockdown # Never /\ docs'[live].until = handler'.lockdown
      BY <1>1, <2>2 DEF ArmedOK
  <2> QED BY <1>2, <2>1, <2>2
<1>7. ListedOK'
  <2>1. /\ ~Containing /\ handler'.pc \in {"idle", "releasing", "activating"}
        /\ handler'.pc = "activating" => handler'.doc = live
      BY <1>1, <1>2 DEF Containing
  <2> QED BY <1>1, <1>2, <2>1, StillListed
<1> QED BY <1>3, <1>4, <1>5, <1>6, <1>7

LEMMA JoinReleasedSound ==
    ASSUME RaidIInv, JoinReleased
    PROVE  RaidIInv'
<1> USE DEF RaidIInv
<1>1. /\ UNCHANGED <<live, guild, banned, window, joins, editor, timer, boot, lapsed, trouble>>
      /\ EndRelease("join") /\ "join" \in Releasers /\ handler.pc = "releasing"
    BY DEF JoinReleased, discord, Releasers
<1>2. /\ docs' \in [Versions -> Configs] /\ docs'[live].bans = docs[live].bans
      /\ handler' \in Handlers /\ started' \in 0..MaxEvents
      /\ started' + faults' <= MaxEvents /\ edits' = edits /\ faults' \in Nat
      /\ stored' \in Configs /\ stored' \in {stored, docs[live]}
      /\ \/ docs' = docs /\ handler'.pc = "idle"
         \/ /\ handler'.pc = "activating" /\ handler'.doc = live
            /\ handler'.lockdown # Never /\ docs'[live].until = handler'.lockdown
  <2>1. CASE Saved /\ (NoRaid \/ Raid(live, window))
    <3>1. window \in SUBSET Members BY DEF RaidTypeOK
    <3>2. faults' = faults /\ edits' = edits /\ stored' = docs[live]
        BY <2>1 DEF Saved, counters
    <3> QED BY <2>1, <3>1, <3>2, RaidDoes, Parts DEF BoundsOK
  <2>2. CASE NotSaved /\ NoRaid
    <3>1. 1 \in Versions BY DEF Versions
    <3>2. docs' = docs /\ handler' = NoHandler /\ started' = started BY <2>2 DEF NoRaid
    <3>3. handler' \in Handlers /\ handler'.pc = "idle" BY <3>1, <3>2 DEF NoHandler, Handlers
    <3> QED BY <2>2, <3>2, <3>3, SavedOrNot DEF RaidTypeOK
  <2> QED BY <2>1, <2>2 DEF JoinReleased
<1>3. /\ release' \in [Releasers -> Releases] /\ release'["join"].pc = "idle"
      /\ \A t \in Releasers \ {"join"} : release'[t] = release[t]
    BY <1>1, ReleaseEnds
<1>4. RaidTypeOK' BY <1>1, <1>2, <1>3 DEF RaidTypeOK, Handlers, Releases
<1>5. BoundsOK' BY <1>1, <1>2 DEF BoundsOK
<1>6. release'["edit"] = release["edit"] BY <1>3 DEF Releasers
<1>7. WaitingOK' BY <1>1, <1>2, <1>3, <1>6 DEF WaitingOK, Releasing
<1>8. ArmedOK'
  <2>1. CASE docs' = docs /\ handler'.pc = "idle" BY <1>1, <1>6, <2>1, StillArmed
  <2>2. CASE /\ handler'.pc = "activating" /\ handler'.doc = live
             /\ handler'.lockdown # Never /\ docs'[live].until = handler'.lockdown
      BY <1>1, <2>2 DEF ArmedOK
  <2> QED BY <1>2, <2>1, <2>2
<1>9. ListedOK'
  <2>1. /\ ~Containing /\ handler'.pc \in {"idle", "releasing", "activating"}
        /\ handler'.pc = "activating" => handler'.doc = live
      BY <1>1, <1>2 DEF Containing
  <2>2. \A t \in Releasers : release'[t] = release[t] \/ release'[t].pc = "idle" BY <1>3
  <2> QED BY <1>1, <1>2, <2>1, <2>2, StillListed
<1> QED BY <1>4, <1>5, <1>7, <1>8, <1>9

\* The new lockdown is the live one, or it has been lifted meanwhile.
LEMMA ActivatedSound ==
    ASSUME RaidIInv, Activated
    PROVE  RaidIInv'
<1> USE DEF RaidIInv
<1>1. /\ UNCHANGED <<docs, live, guild, banned, window, joins, release, editor, boot, started,
                     lapsed, edits, faults>>
      /\ handler.pc = "activating" /\ timer' = handler.lockdown
      /\ Contain(handler.doc, handler.todo) /\ stored' = docs[live]
    BY DEF Activated, discord, Saved, counters
<1>2. /\ trouble \subseteq trouble' /\ trouble' \subseteq Troubles
      /\ handler.todo # {} /\ (\E t \in Releasers : Releasing(t)) => "lost" \in trouble'
    BY DEF Activated, RaidTypeOK, Troubles
<1>3. /\ handler.doc \in Versions /\ handler.todo \in SUBSET Members
      /\ handler.lockdown \in {Never} \cup Lockdowns
    BY DEF RaidTypeOK
<1>4. handler' \in Handlers /\ handler'.pc \in {"idle", "containing"}
    BY <1>1, <1>3, ContainDoes
<1>5. RaidTypeOK' BY <1>1, <1>2, <1>3, <1>4, Parts DEF RaidTypeOK, Handlers
<1>6. BoundsOK' BY <1>1 DEF BoundsOK
<1>7. WaitingOK' BY <1>1, <1>4 DEF WaitingOK, Releasing
<1>8. ArmedOK' BY <1>1, <1>4 DEF ArmedOK, InForce
<1>9. ListedOK'
  <2>1. ~Containing BY <1>1 DEF Containing
  <2>2. trouble \subseteq Untimed => handler.doc = live BY <1>1 DEF ListedOK, Held
  <2> QED BY <1>1, <1>2, <1>3, <2>1, <2>2, ContainListed
<1> QED BY <1>5, <1>6, <1>7, <1>8, <1>9

LEMMA ActivationFailsSound ==
    ASSUME RaidIInv, ActivationFails
    PROVE  RaidIInv'
<1> USE DEF RaidIInv
<1>1. /\ UNCHANGED <<docs, live, guild, banned, window, joins, release, editor, timer, boot,
                     started, lapsed, stored>>
      /\ handler.pc = "activating" /\ handler' = NoHandler
      /\ trouble' = trouble \cup {"unarmed"} /\ NotSaved
    BY DEF ActivationFails, discord, NotSaved
<1>2. 1 \in Versions BY DEF Versions
<1>3. handler' \in Handlers /\ handler'.pc = "idle" BY <1>1, <1>2 DEF NoHandler, Handlers
<1>4. RaidTypeOK' BY <1>1, <1>3 DEF RaidTypeOK, Handlers, Troubles
<1>5. BoundsOK' BY <1>1, SavedOrNot DEF BoundsOK
<1>6. WaitingOK' BY <1>1, <1>3 DEF WaitingOK, Releasing
<1>7. ArmedOK' BY <1>1, <1>3 DEF ArmedOK
<1>8. ListedOK' BY <1>1, <1>3, StillListed DEF Containing
<1> QED BY <1>4, <1>5, <1>6, <1>7, <1>8

\* The list in hand grows with every ban, and is the one written in the end.
LEMMA ContainMemberDoes ==
    ASSUME RaidTypeOK, NEW m \in Members, ContainMember(m)
    PROVE  \E bans \in SUBSET Members :
              /\ banned' \subseteq Members /\ guild' \subseteq Members
              /\ handler.bans \subseteq bans
              /\ banned' \subseteq banned \cup bans
              /\ handler' \in Handlers /\ docs' \in [Versions -> Configs]
              /\ \A v \in Versions : docs'[v].until = docs[v].until
              /\ \/ docs' = docs /\ handler'.pc = "containing" /\ handler'.doc = handler.doc
                    /\ handler'.bans = bans
                 \/ docs' = docs /\ handler'.pc = "idle" /\ bans = docs[handler.doc].bans
                 \/ handler'.pc = "saving" /\ handler'.doc = handler.doc
                    /\ docs'[handler.doc].bans = bans
<1> DEFINE d == handler.doc
           rest == handler.todo \ {m}
<1>1. /\ handler \in Handlers /\ d \in Versions /\ docs \in [Versions -> Configs]
      /\ docs[d] \in Configs /\ 1 \in Versions
    BY DEF RaidTypeOK, Handlers, Versions
<1>2. PICK isBanned \in BOOLEAN :
          LET bans == IF isBanned THEN handler.bans \cup {m} ELSE handler.bans
          IN /\ banned' = IF isBanned THEN banned \cup {m} ELSE banned
             /\ guild' \in IF isBanned THEN {guild \ {m}} ELSE {guild, guild \ {m}}
             /\ IF rest # {}
                THEN /\ handler' = [handler EXCEPT !.todo = rest, !.bans = bans]
                     /\ UNCHANGED docs
                ELSE /\ docs' = [docs EXCEPT ![d].bans = bans]
                     /\ handler' = IF bans = docs[d].bans THEN NoHandler
                                   ELSE [handler EXCEPT !.pc = "saving", !.todo = {},
                                                        !.bans = bans]
    BY DEF ContainMember
<1> DEFINE bans == IF isBanned THEN handler.bans \cup {m} ELSE handler.bans
<1>3. bans \in SUBSET Members /\ handler.bans \subseteq bans BY <1>1 DEF Handlers
<1>4. banned' \subseteq Members /\ guild' \subseteq Members /\ banned' \subseteq banned \cup bans
    BY <1>2 DEF RaidTypeOK
<1>5. CASE rest # {}
  <2>1. handler' = [handler EXCEPT !.todo = rest, !.bans = bans] /\ docs' = docs BY <1>2, <1>5
  <2> HIDE DEF bans
  <2>2. /\ handler' \in Handlers /\ handler'.pc = "containing" /\ handler'.doc = d
        /\ handler'.bans = bans
      BY <1>1, <1>3, <2>1 DEF Handlers, ContainMember
  <2> QED BY <1>1, <1>3, <1>4, <2>1, <2>2
<1>6. CASE rest = {}
  <2>1. /\ docs' = [docs EXCEPT ![d].bans = bans]
        /\ handler' = IF bans = docs[d].bans THEN NoHandler
                      ELSE [handler EXCEPT !.pc = "saving", !.todo = {}, !.bans = bans]
      BY <1>2, <1>6
  <2> HIDE DEF bans
  <2>2. docs' = [docs EXCEPT ![d] = [docs[d] EXCEPT !.bans = bans]] BY <2>1
  <2>3. /\ [docs[d] EXCEPT !.bans = bans] \in Configs
        /\ [docs[d] EXCEPT !.bans = bans].until = docs[d].until
        /\ [docs[d] EXCEPT !.bans = bans].bans = bans
        /\ bans = docs[d].bans => [docs[d] EXCEPT !.bans = bans] = docs[d]
      BY <1>1, <1>3 DEF Configs
  <2>4. /\ docs' \in [Versions -> Configs] /\ docs'[d].bans = bans
        /\ \A v \in Versions : docs'[v].until = docs[v].until
      BY <1>1, <2>2, <2>3
  <2>5. CASE bans = docs[d].bans
    <3>1. docs' = docs BY <1>1, <2>2, <2>3, <2>5
    <3>2. handler' \in Handlers /\ handler'.pc = "idle"
        BY <1>1, <2>1, <2>5 DEF NoHandler, Handlers
    <3> QED BY <1>3, <1>4, <2>4, <2>5, <3>1, <3>2
  <2>6. CASE bans # docs[d].bans
    <3>1. handler' = [handler EXCEPT !.pc = "saving", !.todo = {}, !.bans = bans] BY <2>1, <2>6
    <3>2. handler' \in Handlers /\ handler'.pc = "saving" /\ handler'.doc = d
        BY <1>1, <1>3, <3>1 DEF Handlers
    <3> QED BY <1>3, <1>4, <2>4, <3>2
  <2> QED BY <2>5, <2>6
<1> QED BY <1>5, <1>6

LEMMA ContainMemberSound ==
    ASSUME RaidIInv, NEW m \in Members, ContainMember(m)
    PROVE  RaidIInv'
<1> USE DEF RaidIInv
<1>1. /\ UNCHANGED <<live, stored, window, joins, release, editor, timer, boot, started,
                     lapsed, edits, faults, trouble>>
      /\ handler.pc = "containing"
    BY DEF ContainMember, counters
<1>2. PICK bans \in SUBSET Members :
          /\ banned' \subseteq Members /\ guild' \subseteq Members
          /\ handler.bans \subseteq bans
          /\ banned' \subseteq banned \cup bans
          /\ handler' \in Handlers /\ docs' \in [Versions -> Configs]
          /\ \A v \in Versions : docs'[v].until = docs[v].until
          /\ \/ docs' = docs /\ handler'.pc = "containing" /\ handler'.doc = handler.doc
                /\ handler'.bans = bans
             \/ docs' = docs /\ handler'.pc = "idle" /\ bans = docs[handler.doc].bans
             \/ handler'.pc = "saving" /\ handler'.doc = handler.doc
                /\ docs'[handler.doc].bans = bans
    BY ContainMemberDoes
<1>3. handler'.pc \in {"containing", "idle", "saving"} BY <1>2
<1>4. RaidTypeOK' BY <1>1, <1>2 DEF RaidTypeOK, Handlers
<1>5. BoundsOK' BY <1>1 DEF BoundsOK
<1>6. WaitingOK' BY <1>1, <1>3 DEF WaitingOK, Releasing
<1>7. ArmedOK'
  <2>1. docs'[live].until = docs[live].until BY <1>2, Parts
  <2> QED BY <1>1, <1>3, <2>1, StillArmed
<1>8. ListedOK'
  <2> SUFFICES ASSUME trouble' \subseteq Untimed PROVE ListedOK' BY DEF ListedOK
  <2>1. /\ handler.doc = live
        /\ \A t \in Releasers : ~Releasing(t)
        /\ banned \subseteq handler.bans
        /\ docs[live].bans \subseteq stored.bans
      BY <1>1 DEF ListedOK, Held, Containing, List
  <2>2. \A t \in Releasers : ~Releasing(t)' /\ release'[t].pc = "idle" BY <1>1, <2>1 DEF Releasing
  <2>3. banned' \subseteq bans BY <1>2, <2>1
  <2>4. Held' => handler'.doc = live BY <1>2, <2>1 DEF Held
  <2>5. banned' \subseteq List' BY <1>1, <1>2, <2>1, <2>3 DEF List
  <2>6. handler'.pc # "saving" => docs'[live].bans \subseteq stored.bans BY <1>2, <2>1
  <2> QED BY <1>1, <2>2, <2>4, <2>5, <2>6 DEF ListedOK
<1> QED BY <1>4, <1>5, <1>6, <1>7, <1>8

LEMMA ContainBreaksOffSound ==
    ASSUME RaidIInv, NEW m \in Members, ContainBreaksOff(m)
    PROVE  RaidIInv'
<1> USE DEF RaidIInv
<1>1. /\ UNCHANGED <<docs, live, stored, window, joins, release, editor, timer, boot, started,
                     lapsed>>
      /\ banned' \subseteq Members /\ guild' \subseteq Members
      /\ handler.pc = "containing" /\ handler' = NoHandler /\ Fault
      /\ trouble' = trouble \cup {"lost"}
    BY DEF ContainBreaksOff, config, RaidTypeOK
<1>2. 1 \in Versions BY DEF Versions
<1>3. handler' \in Handlers /\ handler'.pc = "idle" BY <1>1, <1>2 DEF NoHandler, Handlers
<1>4. RaidTypeOK' BY <1>1, <1>3 DEF RaidTypeOK, Handlers, Troubles
<1>5. BoundsOK' BY <1>1, FaultsBounded DEF BoundsOK
<1>6. WaitingOK' BY <1>1, <1>3 DEF WaitingOK, Releasing
<1>7. ArmedOK' BY <1>1, <1>3, StillArmed
<1>8. ListedOK' BY <1>1 DEF ListedOK
<1> QED BY <1>4, <1>5, <1>6, <1>7, <1>8

LEMMA ContainedSound ==
    ASSUME RaidIInv, Contained
    PROVE  RaidIInv'
<1> USE DEF RaidIInv
<1>1. /\ UNCHANGED <<docs, live, guild, banned, window, joins, release, editor, timer, boot,
                     started, lapsed>>
      /\ handler.pc = "saving" /\ handler' = NoHandler
      /\ trouble \subseteq trouble' /\ trouble' \subseteq Troubles
      /\ \/ Saved
         \/ NotSaved /\ "lost" \in trouble'
    BY DEF Contained, discord, RaidTypeOK, Troubles
<1>2. 1 \in Versions BY DEF Versions
<1>3. handler' \in Handlers /\ handler'.pc = "idle" BY <1>1, <1>2 DEF NoHandler, Handlers
<1>4. RaidTypeOK' BY <1>1, <1>3, SavedOrNot DEF RaidTypeOK, Handlers
<1>5. BoundsOK' BY <1>1, SavedOrNot DEF BoundsOK
<1>6. WaitingOK' BY <1>1, <1>3 DEF WaitingOK, Releasing
<1>7. ArmedOK' BY <1>1, <1>3, StillArmed
<1>8. ListedOK'
  <2> SUFFICES ASSUME trouble' \subseteq Untimed PROVE ListedOK' BY DEF ListedOK
  <2>1. stored' = docs[live] BY <1>1 DEF Saved
  <2>2. /\ \A t \in Releasers : ~Releasing(t)
        /\ banned \subseteq docs[live].bans
      BY <1>1 DEF ListedOK, Containing, List
  <2>3. \A t \in Releasers : ~Releasing(t)' /\ release'[t].pc = "idle" BY <1>1, <2>2 DEF Releasing
  <2> QED BY <1>1, <1>3, <2>1, <2>2, <2>3 DEF ListedOK, Held, List
<1> QED BY <1>4, <1>5, <1>6, <1>7, <1>8

------------------------------------------------------------------------------
(* Settings. *)

LEMMA BeginEditDoes ==
    ASSUME RaidTypeOK, BoundsOK, WaitingOK, BeginEdit
    PROVE  /\ UNCHANGED <<stored, guild, banned, window, joins, handler, boot, started, lapsed,
                          faults>>
           /\ edits' \in 0..MaxEdits /\ edits' = edits + 1
           /\ editor.pc = "idle" /\ ~Releasing("edit") /\ live <= edits' + 1
<1>1. live \in Nat /\ edits \in Nat BY DEF RaidTypeOK, Versions, BoundsOK
<1>2. edits' \in 0..MaxEdits /\ edits' = edits + 1 /\ live <= edits' + 1
    BY <1>1 DEF BeginEdit, BoundsOK
<1> QED BY <1>2 DEF BeginEdit, discord, WaitingOK

\* The new object has a copy of the lockdown and the list.
LEMMA ReplaceSound ==
    ASSUME RaidIInv, NEW mode \in Modes, Replace(mode)
    PROVE  RaidIInv'
<1> USE DEF RaidIInv
<1>1. /\ UNCHANGED <<stored, guild, banned, window, joins, handler, boot, started, lapsed,
                     faults, release, timer>>
      /\ edits' \in 0..MaxEdits /\ edits' = edits + 1
      /\ ~Releasing("edit") /\ live' = live + 1
      /\ docs' = [docs EXCEPT ![live + 1] = [docs[live] EXCEPT !.mode = mode]]
      /\ editor' = [pc |-> "replacing", doc |-> live + 1]
    BY BeginEditDoes DEF Replace
<1>2. live' \in Versions /\ live' <= edits' + 1
    BY <1>1, Parts DEF BoundsOK, Versions
<1>3. /\ [docs[live] EXCEPT !.mode = mode] \in Configs
      /\ [docs[live] EXCEPT !.mode = mode].until = docs[live].until
      /\ [docs[live] EXCEPT !.mode = mode].bans = docs[live].bans
    BY Parts DEF Configs
<1>4. /\ docs' \in [Versions -> Configs]
      /\ docs'[live'].until = docs[live].until /\ docs'[live'].bans = docs[live].bans
    BY <1>1, <1>2, <1>3, Parts
<1>5. /\ trouble \subseteq trouble' /\ trouble' \subseteq Troubles
      /\ handler.pc # "idle" \/ (\E t \in Releasers : Releasing(t)) => "swapped" \in trouble'
    BY DEF Replace, RaidTypeOK, Troubles
<1>6. editor' \in Editors /\ editor'.pc = "replacing" /\ editor'.doc = live'
    BY <1>1, <1>2 DEF Editors
<1>7. RaidTypeOK' BY <1>1, <1>2, <1>4, <1>5, <1>6 DEF RaidTypeOK, Editors
<1>8. BoundsOK' BY <1>1, <1>2 DEF BoundsOK
<1>9. WaitingOK' BY <1>1, <1>6 DEF WaitingOK, Releasing
<1>10. ArmedOK' BY <1>1, <1>4, <1>5 DEF ArmedOK, InForce, Releasing
<1>11. ListedOK'
  <2> SUFFICES ASSUME trouble' \subseteq Untimed PROVE ListedOK' BY DEF ListedOK
  <2>1. handler.pc = "idle" /\ \A t \in Releasers : ~Releasing(t) BY <1>5
  <2>2. banned \subseteq docs[live].bans /\ docs[live].bans \subseteq stored.bans
      BY <1>5, <2>1 DEF ListedOK, List
  <2>3. \A t \in Releasers : ~Releasing(t)' /\ release'[t].pc = "idle" BY <1>1, <2>1 DEF Releasing
  <2> QED BY <1>1, <1>4, <2>1, <2>2, <2>3 DEF ListedOK, Held, List
<1> QED BY <1>7, <1>8, <1>9, <1>10, <1>11

\* The mode of the live object changes, and nothing else of it.
LEMMA ModeChanges ==
    ASSUME RaidTypeOK, NEW mode \in Modes, docs' = [docs EXCEPT ![live].mode = mode]
    PROVE  /\ docs' \in [Versions -> Configs]
           /\ docs'[live].until = docs[live].until /\ docs'[live].bans = docs[live].bans
<1>1. docs' = [docs EXCEPT ![live] = [docs[live] EXCEPT !.mode = mode]] OBVIOUS
<1>2. /\ [docs[live] EXCEPT !.mode = mode] \in Configs
      /\ [docs[live] EXCEPT !.mode = mode].until = docs[live].until
      /\ [docs[live] EXCEPT !.mode = mode].bans = docs[live].bans
    BY Parts DEF Configs
<1> QED BY <1>1, <1>2, Parts

LEMMA ModeSound ==
    ASSUME RaidIInv, NEW mode \in Modes, Enable(mode) \/ SetMode(mode)
    PROVE  RaidIInv'
<1> USE DEF RaidIInv
<1>1. /\ UNCHANGED <<stored, guild, banned, window, joins, handler, boot, started, lapsed,
                     faults, live, release, timer, trouble>>
      /\ edits' \in 0..MaxEdits /\ live <= edits' + 1 /\ ~Releasing("edit")
      /\ docs' = [docs EXCEPT ![live].mode = mode]
      /\ editor' \in {[pc |-> "saving", doc |-> live], [pc |-> "switching", doc |-> live]}
    BY BeginEditDoes DEF Enable, SetMode
<1>2. editor' \in Editors /\ editor'.pc \in {"saving", "switching"} /\ editor'.doc = live
    BY <1>1, Parts DEF Editors
<1>3. RaidTypeOK' BY <1>1, <1>2, ModeChanges DEF RaidTypeOK, Editors
<1>4. BoundsOK' BY <1>1 DEF BoundsOK
<1>5. WaitingOK' BY <1>1, <1>2 DEF WaitingOK, Releasing
<1>6. ArmedOK' BY <1>1, ModeChanges, StillArmed
<1>7. ListedOK' BY <1>1, ModeChanges, StillListed
<1> QED BY <1>3, <1>4, <1>5, <1>6, <1>7

LEMMA UnlockSound ==
    ASSUME RaidIInv, Disable \/ UnlockCommand
    PROVE  RaidIInv'
<1> USE DEF RaidIInv
<1>1. /\ UNCHANGED <<stored, guild, banned, window, joins, handler, boot, started, lapsed,
                     faults, live>>
      /\ edits' \in 0..MaxEdits /\ live <= edits' + 1
      /\ BeginRelease("edit") /\ "edit" \in Releasers
      /\ editor' \in {[pc |-> "disabling", doc |-> live], [pc |-> "releasing", doc |-> live]}
    BY BeginEditDoes DEF Disable, UnlockCommand, Releasers
<1>2. editor' \in Editors /\ editor'.pc \in {"disabling", "releasing"} /\ editor'.doc = live
    BY <1>1, Parts DEF Editors
<1>3. RaidTypeOK' BY <1>1, <1>2, ReleaseBegins DEF RaidTypeOK, Releases, Editors
<1>4. BoundsOK' BY <1>1 DEF BoundsOK
<1>5. release'["join"] = release["join"] /\ release'["edit"].pc # "idle"
    BY <1>1, ReleaseBegins DEF Releasers
<1>6. WaitingOK' BY <1>1, <1>2, <1>5 DEF WaitingOK, Releasing
<1>7. ArmedOK' BY <1>1, ReleaseArmed
<1>8. ListedOK' BY <1>1, ReleaseListed
<1> QED BY <1>3, <1>4, <1>6, <1>7, <1>8

\* A setting that ends containment goes on with a release; a copied lockdown gets its timer.
LEMMA EditSavedSound ==
    ASSUME RaidIInv, EditSaved
    PROVE  RaidIInv'
<1> USE DEF RaidIInv
<1>1. /\ UNCHANGED <<live, guild, banned, window, joins, handler, boot, started, lapsed,
                     edits, faults>>
      /\ editor.pc \in {"replacing", "switching", "saving"}
      /\ stored' = docs[live] /\ "edit" \in Releasers
    BY DEF EditSaved, discord, Saved, counters, Releasers
<1>2. editor \in Editors /\ editor.doc = live /\ ~Releasing("edit")
    BY <1>1 DEF RaidTypeOK, Editors, WaitingOK
<1>3. BoundsOK' BY <1>1 DEF BoundsOK
<1>4. CASE BeginRelease("edit") /\ editor' = [editor EXCEPT !.pc = "releasing"]
  <2>1. editor' \in Editors /\ editor'.pc = "releasing" /\ editor'.doc = live
      BY <1>2, <1>4 DEF Editors
  <2>2. RaidTypeOK' BY <1>1, <1>4, <2>1, ReleaseBegins, Parts DEF RaidTypeOK, Releases, Editors
  <2>3. release'["join"] = release["join"] /\ release'["edit"].pc # "idle"
      BY <1>1, <1>4, ReleaseBegins DEF Releasers
  <2>4. WaitingOK' BY <1>1, <2>1, <2>3 DEF WaitingOK, Releasing
  <2>5. ArmedOK' BY <1>1, <1>4, ReleaseArmed
  <2>6. ListedOK' BY <1>1, <1>4, ReleaseListed
  <2> QED BY <1>3, <2>2, <2>4, <2>5, <2>6
<1>5. CASE /\ timer' \in {timer, docs[live].until}
           /\ editor' = NoEditor
           /\ UNCHANGED <<docs, release, trouble>>
  <2>1. 1 \in Versions BY DEF Versions
  <2>2. editor' \in Editors /\ editor'.pc = "idle" BY <1>5, <2>1 DEF NoEditor, Editors
  <2>3. RaidTypeOK' BY <1>1, <1>5, <2>2, Parts DEF RaidTypeOK, Editors
  <2>4. WaitingOK' BY <1>1, <1>2, <1>5, <2>2 DEF WaitingOK, Releasing
  <2>5. ArmedOK' BY <1>1, <1>5, StillArmed
  <2>6. ListedOK' BY <1>1, <1>5, StillListed
  <2> QED BY <1>3, <2>3, <2>4, <2>5, <2>6
<1> QED BY <1>2, <1>4, <1>5 DEF EditSaved

LEMMA EditFailsSound ==
    ASSUME RaidIInv, EditFails
    PROVE  RaidIInv'
<1> USE DEF RaidIInv
<1>1. /\ UNCHANGED <<docs, live, stored, guild, banned, window, joins, handler, release, timer,
                     boot, started, lapsed, trouble>>
      /\ editor.pc \in {"replacing", "switching", "saving"}
      /\ editor' = NoEditor /\ NotSaved
    BY DEF EditFails, discord, NotSaved
<1>2. 1 \in Versions BY DEF Versions
<1>3. editor' \in Editors /\ editor'.pc = "idle" BY <1>1, <1>2 DEF NoEditor, Editors
<1>4. RaidTypeOK' BY <1>1, <1>3 DEF RaidTypeOK, Editors
<1>5. BoundsOK' BY <1>1, SavedOrNot DEF BoundsOK
<1>6. WaitingOK' BY <1>1, <1>3 DEF WaitingOK, Releasing
<1>7. ArmedOK' BY <1>1, StillArmed
<1>8. ListedOK' BY <1>1, StillListed
<1> QED BY <1>4, <1>5, <1>6, <1>7, <1>8

LEMMA EditReleasedSound ==
    ASSUME RaidIInv, EditReleased
    PROVE  RaidIInv'
<1> USE DEF RaidIInv
<1>1. /\ UNCHANGED <<live, guild, banned, window, joins, handler, timer, boot, started, lapsed,
                     trouble>>
      /\ editor.pc \in {"releasing", "disabling"}
      /\ EndRelease("edit") /\ "edit" \in Releasers
      /\ Saved \/ NotSaved
      /\ \/ docs' = docs /\ editor' = NoEditor
         \/ /\ docs' = [docs EXCEPT ![live].mode = "off"]
            /\ editor' = [pc |-> "saving", doc |-> live]
    BY DEF EditReleased, discord, Releasers
<1>2. 1 \in Versions /\ "off" \in Modes BY DEF Versions, Modes
<1>3. /\ docs' \in [Versions -> Configs]
      /\ docs'[live].until = docs[live].until /\ docs'[live].bans = docs[live].bans
    BY <1>1, <1>2, ModeChanges, Parts
<1>4. /\ editor' \in Editors /\ editor'.pc \in {"idle", "saving"}
      /\ editor'.pc # "idle" => editor'.doc = live
    BY <1>1, <1>2, Parts DEF NoEditor, Editors
<1>5. /\ release' \in [Releasers -> Releases] /\ release'["edit"].pc = "idle"
      /\ \A t \in Releasers \ {"edit"} : release'[t] = release[t]
      /\ release["edit"].pc = "saving"
    BY <1>1, ReleaseEnds
<1>6. RaidTypeOK' BY <1>1, <1>3, <1>4, <1>5, SavedOrNot DEF RaidTypeOK, Editors, Releases
<1>7. BoundsOK' BY <1>1, SavedOrNot DEF BoundsOK
<1>8. release'["join"] = release["join"] BY <1>5 DEF Releasers
<1>9. WaitingOK' BY <1>1, <1>4, <1>5, <1>8 DEF WaitingOK, Releasing
<1>10. ArmedOK' BY <1>1, <1>3, <1>5, StillArmed
<1>11. ListedOK'
  <2>1. \A t \in Releasers : release'[t] = release[t] \/ release'[t].pc = "idle" BY <1>5
  <2> QED BY <1>1, <1>3, <2>1, SavedOrNot, StillListed
<1> QED BY <1>6, <1>7, <1>9, <1>10, <1>11

------------------------------------------------------------------------------
(* Time and crashes. *)

LEMMA LapseSound ==
    ASSUME RaidIInv, NEW n \in Lockdowns, Lapse(n)
    PROVE  RaidIInv'
<1> USE DEF RaidIInv
<1>1. /\ UNCHANGED <<docs, live, stored, guild, banned, window, joins, handler, release, editor,
                     timer, boot, started, edits, faults, trouble>>
      /\ lapsed' = lapsed \cup {n}
    BY DEF Lapse, config, discord, counters
<1>2. RaidTypeOK' BY <1>1 DEF RaidTypeOK
<1>3. BoundsOK' BY <1>1 DEF BoundsOK
<1>4. WaitingOK' BY <1>1 DEF WaitingOK, Releasing
<1>5. ArmedOK' BY <1>1, StillArmed
<1>6. ListedOK' BY <1>1, StillListed
<1> QED BY <1>2, <1>3, <1>4, <1>5, <1>6

\* What MongoDB holds is not behind, unless a containment was under way.
LEMMA CrashSound ==
    ASSUME RaidIInv, Crash
    PROVE  RaidIInv'
<1> USE DEF RaidIInv
<1>1. /\ UNCHANGED <<stored, guild, banned, started, lapsed>>
      /\ docs' = [v \in Versions |-> stored] /\ live' = 1
      /\ window' = {} /\ joins' = <<>> /\ timer' = Never /\ boot' = TRUE
      /\ handler' = NoHandler /\ editor' = NoEditor
      /\ release' = [t \in Releasers |-> NoRelease]
      /\ Fault
    BY DEF Crash, discord
<1>2. /\ trouble \subseteq trouble' \cup Untimed /\ trouble' \subseteq Troubles
      /\ Containing => "lost" \in trouble'
    BY DEF Crash, RaidTypeOK, Troubles
<1>3. 1 \in Versions /\ Never \in {Never} \cup Lockdowns /\ joins' \in Seq(Members)
    BY <1>1 DEF Versions
<1>4. docs' \in [Versions -> Configs] /\ docs'[live'] = stored BY <1>1, <1>3, Parts
<1>5. /\ handler' \in Handlers /\ handler'.pc = "idle"
      /\ editor' \in Editors /\ editor'.pc = "idle"
    BY <1>1, <1>3 DEF Handlers, NoHandler, Editors, NoEditor
<1>6. /\ release' \in [Releasers -> Releases]
      /\ \A t \in Releasers : release'[t].pc = "idle"
    BY <1>1, <1>3 DEF Releases, NoRelease
<1>7. RaidTypeOK'
    BY <1>1, <1>2, <1>3, <1>4, <1>5, <1>6 DEF RaidTypeOK, Handlers, Releases, Editors
<1>8. BoundsOK'
  <2>1. edits' \in 0..MaxEdits /\ live' <= edits' + 1 BY <1>1, FaultsBounded DEF BoundsOK
  <2> QED BY <1>1, <2>1, FaultsBounded DEF BoundsOK
<1>9. WaitingOK' BY <1>5, <1>6 DEF WaitingOK, Releasing, Releasers
<1>10. ArmedOK' BY <1>1, <1>5 DEF ArmedOK
<1>11. ListedOK'
  <2> SUFFICES ASSUME trouble' \subseteq Untimed PROVE ListedOK' BY DEF ListedOK
  <2>1. banned \subseteq docs[live].bans /\ docs[live].bans \subseteq stored.bans
      BY <1>2 DEF ListedOK, Containing, List
  <2>2. banned' \subseteq List' /\ docs'[live'].bans \subseteq stored'.bans
      BY <1>1, <1>4, <1>5, <2>1 DEF List
  <2>3. ~Held' /\ ~Containing' BY <1>5 DEF Held, Containing
  <2>4. \A t \in Releasers : ~Releasing(t)' BY <1>6 DEF Releasing
  <2> QED BY <1>6, <2>2, <2>3, <2>4 DEF ListedOK
<1> QED BY <1>7, <1>8, <1>9, <1>10, <1>11

LEMMA RaidStutters == RaidIInv /\ UNCHANGED raidVars => RaidIInv'
<1> SUFFICES ASSUME RaidIInv, UNCHANGED raidVars PROVE RaidIInv' OBVIOUS
<1> USE DEF RaidIInv, raidVars
<1>1. RaidTypeOK' BY DEF RaidTypeOK
<1>2. BoundsOK' BY DEF BoundsOK
<1>3. WaitingOK' BY DEF WaitingOK, Releasing
<1>4. ArmedOK' BY StillArmed
<1>5. ListedOK' BY StillListed
<1> QED BY <1>1, <1>2, <1>3, <1>4, <1>5

LEMMA RaidStepSound == RaidIInv /\ [RaidNext]_raidVars => RaidIInv'
<1> SUFFICES ASSUME RaidIInv, [RaidNext]_raidVars PROVE RaidIInv' OBVIOUS
<1>1. CASE Task
  <2>1. CASE JoinReleased \/ Activated \/ ActivationFails
      BY <2>1, JoinReleasedSound, ActivatedSound, ActivationFailsSound
  <2>2. CASE EditSaved \/ EditFails \/ EditReleased
      BY <2>2, EditSavedSound, EditFailsSound, EditReleasedSound
  <2>3. CASE TimerFires \/ Restore BY <2>3, TimerFiresSound, RestoreSound
  <2>4. CASE \E t \in Releasers : EndOwnRelease(t) \/ \E m \in Members : Unban(t, m)
      BY <2>4, EndOwnReleaseSound, UnbanSound
  <2> QED BY <1>1, <2>1, <2>2, <2>3, <2>4 DEF Task
<1>2. CASE Joiner
    BY <1>2, ContainedSound, JoinSound, JoinIgnoredSound, JoinInLockdownSound, JoinReleasesSound,
       JoinCountedSound, ContainMemberSound DEF Joiner
<1>3. CASE Setting
    BY <1>3, UnlockSound, ReplaceSound, ModeSound DEF Setting
<1>4. CASE Crash BY <1>4, CrashSound
<1>5. CASE \E n \in Lockdowns : Lapse(n) BY <1>5, LapseSound
<1>6. CASE UNCHANGED raidVars BY <1>6, RaidStutters
<1>7. CASE BreakOff BY <1>7, UnbanBreaksOffSound, ContainBreaksOffSound DEF BreakOff
<1> QED BY <1>1, <1>2, <1>3, <1>4, <1>5, <1>6, <1>7 DEF RaidNext

LEMMA RaidInvariance == RaidSpec => []RaidIInv
BY RaidInitSound, RaidStepSound, PTL DEF RaidSpec

\* Configurations, tasks and counters keep their types: there are never more objects, lockdowns
\* and faults than the bounds allow.
THEOREM RaidTypeCorrect == RaidSpec => []RaidTypeOK
<1>1. RaidIInv => RaidTypeOK BY DEF RaidIInv
<1> QED BY <1>1, RaidInvariance, PTL

\* When no task is at work, a lockdown in force has its timer, whatever unlock_guild(),
\* _schedule_unlock(), replace_config() and _restore_lockdowns() did before, unless since
\* the last start the save of its activation failed or a connection error ended its release.
THEOREM LockdownsAreTimed == RaidSpec => []LockdownHasTimer
<1>1. RaidIInv => LockdownHasTimer
    BY DEF RaidIInv, ArmedOK, LockdownHasTimer, Quiet, Releasing, Releasers
<1> QED BY <1>1, RaidInvariance, PTL

\* Who is banned is on the list in memory and in MongoDB, as long as no release of
\* unlock_guild() met a _contain_joiners(), no object was replaced under a task, no unban
\* was refused and no containment failed to keep its list.
THEOREM BannedAreListed == RaidSpec => []AwaitingAreListed
<1>1. RaidIInv => AwaitingAreListed
    BY DEF RaidIInv, ListedOK, List, AwaitingAreListed, Quiet
<1> QED BY <1>1, RaidInvariance, PTL
=============================================================================
