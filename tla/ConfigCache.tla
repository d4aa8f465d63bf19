----------------------------- MODULE ConfigCache -----------------------------
(***************************************************************************)
(* The write-behind cache that holds almost every server configuration:    *)
(* class Cache of botutils/resources.py. Cogs change documents in memory   *)
(* at any time; flush() writes what differs from the acknowledged copy,    *)
(* sync_task() flushes ten seconds after an assignment, and remove() and   *)
(* remove_sub() delete in MongoDB first and in memory afterwards.          *)
(*                                                                         *)
(* A document is the set of its fields; None is no document. Only this     *)
(* process writes the collection.                                          *)
(***************************************************************************)
EXTENDS Naturals, Sequences, FiniteSets

CONSTANTS Keys, Fields,
          Values,        \* per key: the documents that cogs write
          Callers,       \* tasks that call flush(), remove() or remove_sub()
          Sync,          \* the sync task
          BatchSize,     \* MONGO_FLUSH_BATCH_SIZE
          AutoSync,      \* the auto_sync argument
          None

ASSUME CacheAssumption ==
    /\ BatchSize \in Nat \ {0}
    /\ AutoSync \in BOOLEAN
    /\ Sync \notin Callers
    /\ Values \in [Keys -> SUBSET SUBSET Fields]
    /\ \A k \in Keys, f \in Fields : \A d \in Values[k] : d \ {f} \in Values[k]
    /\ \A d \in SUBSET Fields : d # None

Tasks == Callers \cup {Sync}
Documents == {None} \cup SUBSET Fields

VARIABLES
    cache, dbState,      \* _cache and _db_state
    db,                  \* the collection
    queue,               \* _flush_lock: its holder, then its waiters
    pc,                  \* per task: where it is
    target,              \* per task: key and field of a removal
    todo, batch,         \* of the flush with the lock: keys to scan, snapshot sent
    unsure,              \* history: keys with a write of unknown outcome
    stalled              \* history: a sync failed and nothing was assigned since

vars == <<cache, dbState, db, queue, pc, target, todo, batch, unsure, stalled>>

NoBatch == [k \in Keys |-> None]
NoTarget == [key |-> None, field |-> None]

TypeOK ==
    /\ {cache, dbState, db, batch} \subseteq [Keys -> Documents]
    /\ queue \in Seq(Tasks)
    /\ pc \in [Tasks -> {"idle", "sleeping", "flushQueued", "writing",
                         "removeQueued", "removing"}]
    /\ target \in [Tasks -> [key : Keys, field : {None} \cup Fields] \cup {NoTarget}]
    /\ todo \subseteq Keys
    /\ unsure \subseteq Keys
    /\ stalled \in BOOLEAN

\* The cache is constructed from the collection.
Init ==
    /\ db \in [Keys -> Documents] /\ \A k \in Keys : db[k] \in {None} \cup Values[k]
    /\ cache = db /\ dbState = db
    /\ queue = <<>>
    /\ pc = [t \in Tasks |-> "idle"]
    /\ target = [t \in Tasks |-> NoTarget]
    /\ todo = {} /\ batch = NoBatch
    /\ unsure = {} /\ stalled = FALSE

Dirty(k) == cache[k] # None /\ cache[k] # dbState[k]
Goto(t, label) == pc' = [pc EXCEPT ![t] = label]

------------------------------------------------------------------------------
(* Cogs. *)

\* cache[key] = value: starts the sync task if it may and none is there.
Assign(k, d) ==
    /\ cache' = [cache EXCEPT ![k] = d]
    /\ IF AutoSync /\ pc[Sync] = "idle" THEN Goto(Sync, "sleeping") ELSE UNCHANGED pc
    /\ stalled' = FALSE
    /\ UNCHANGED <<dbState, db, queue, target, todo, batch, unsure>>

\* A change inside a document, which the cache does not see.
Edit(k, d) ==
    /\ cache[k] # None
    /\ cache' = [cache EXCEPT ![k] = d]
    /\ stalled' = IF pc[Sync] = "idle" THEN TRUE ELSE stalled
    /\ UNCHANGED <<dbState, db, queue, pc, target, todo, batch, unsure>>

------------------------------------------------------------------------------
(* flush() *)

\* With the lock: the keys still to scan that differ now, in batches. `done`
\* are scanned and clean. Without any, the flush is over.
SendBatch(t, rest) ==
    \E sent \in SUBSET {k \in rest : Dirty(k)}, done \in SUBSET {k \in rest : ~Dirty(k)} :
        /\ sent # {} /\ Cardinality(sent) <= BatchSize
        /\ \/ Cardinality(sent) = BatchSize
           \/ sent \cup done = rest
        /\ todo' = rest \ (sent \cup done)
        /\ batch' = [k \in Keys |-> IF k \in sent THEN cache[k] ELSE None]
        /\ Goto(t, "writing")

\* Mutant of Rearms: the task ends without a look at what changed meanwhile.
NeverRearms(t, raised) == FALSE

\* sync_task() sets self.task to None and, unless flush() raised, queues itself
\* again for what changed meanwhile.
Rearms(t, raised) ==
    /\ t = Sync /\ AutoSync /\ ~raised
    /\ \E k \in Keys : cache[k] # None /\ cache[k] # dbState'[k]

FlushOver(t, raised) ==
    /\ todo' = {} /\ batch' = NoBatch
    /\ queue' = Tail(queue)
    /\ Goto(t, IF Rearms(t, raised) THEN "sleeping" ELSE "idle")
    /\ stalled' = (stalled \/ (t = Sync /\ raised))

NeedsFlush(rest) == \E k \in rest : Dirty(k)

CallFlush(t) ==
    /\ \/ t \in Callers /\ pc[t] = "idle"
       \/ t = Sync /\ pc[t] = "sleeping"
    /\ Goto(t, "flushQueued")
    /\ queue' = Append(queue, t)
    /\ UNCHANGED <<cache, dbState, db, target, todo, batch, unsure, stalled>>

FlushGranted(t) ==
    /\ pc[t] = "flushQueued" /\ Head(queue) = t
    /\ UNCHANGED dbState
    /\ LET present == {k \in Keys : cache[k] # None} IN
       \/ NeedsFlush(present) /\ SendBatch(t, present) /\ UNCHANGED <<queue, stalled>>
       \/ ~NeedsFlush(present) /\ FlushOver(t, FALSE)
    /\ UNCHANGED <<cache, db, target, unsure>>

Sent == {k \in Keys : batch[k] # None}

\* What the server does with one operation of the batch: InsertOne for a key
\* without an acknowledged copy leaves a document that is there alone.
Applied(k) == IF dbState[k] = None /\ db[k] # None THEN db[k] ELSE batch[k]

\* Mutant of Stored: the live document is acknowledged, not the snapshot.
StoredLive(k, refused) == IF k \in Sent \ refused THEN cache[k] ELSE dbState[k]

\* What was sent and not refused is acknowledged as it was sent.
Stored(k, refused) == IF k \in Sent \ refused THEN batch[k] ELSE dbState[k]

\* The server answers. A refused operation is retried by a later flush, a
\* duplicate of an insert is taken for stored.
Acknowledged(t) ==
    /\ pc[t] = "writing"
    /\ \E refused \in SUBSET Sent :
          /\ db' = [k \in Keys |-> IF k \in Sent \ refused THEN Applied(k) ELSE db[k]]
          /\ dbState' = [k \in Keys |-> Stored(k, refused)]
          /\ unsure' = unsure \ {k \in Sent \ refused : db'[k] = batch[k]}
          /\ \/ refused # {} /\ FlushOver(t, TRUE)
             \/ /\ refused = {} /\ NeedsFlush(todo)
                /\ SendBatch(t, todo)
                /\ UNCHANGED <<queue, stalled>>
             \/ refused = {} /\ ~NeedsFlush(todo) /\ FlushOver(t, FALSE)
    /\ UNCHANGED <<cache, target>>

\* No acknowledgement: any part of the batch may have been stored.
ConnectionLost(t) ==
    /\ pc[t] = "writing"
    /\ \E stored \in SUBSET Sent :
          db' = [k \in Keys |-> IF k \in stored THEN Applied(k) ELSE db[k]]
    /\ unsure' = unsure \cup Sent
    /\ UNCHANGED dbState
    /\ FlushOver(t, TRUE)
    /\ UNCHANGED <<cache, target>>

------------------------------------------------------------------------------
(* remove() and remove_sub() *)

CallRemove(t, k, f) ==
    /\ t \in Callers /\ pc[t] = "idle"
    /\ target' = [target EXCEPT ![t] = [key |-> k, field |-> f]]
    /\ Goto(t, "removeQueued")
    /\ queue' = Append(queue, t)
    /\ UNCHANGED <<cache, dbState, db, todo, batch, unsure, stalled>>

\* Mutant of RemoveOver: the field of a finished removal stays behind.
HalfRemoveOver(t) ==
    /\ Goto(t, "idle")
    /\ target' = [target EXCEPT ![t].key = None]
    /\ queue' = Tail(queue)

RemoveOver(t) ==
    /\ Goto(t, "idle")
    /\ target' = [target EXCEPT ![t] = NoTarget]
    /\ queue' = Tail(queue)

\* Without an acknowledged copy there is nothing to delete in the database.
DropUnstored(t) ==
    LET k == target[t].key IN
    /\ pc[t] = "removeQueued" /\ Head(queue) = t
    /\ target[t].field = None /\ dbState[k] = None
    /\ cache' = [cache EXCEPT ![k] = None]
    /\ RemoveOver(t)
    /\ UNCHANGED <<dbState, db, todo, batch, unsure, stalled>>

SendRemove(t) ==
    /\ pc[t] = "removeQueued" /\ Head(queue) = t
    /\ target[t].field # None \/ dbState[target[t].key] # None
    /\ Goto(t, "removing")
    /\ UNCHANGED <<cache, dbState, db, queue, target, todo, batch, unsure, stalled>>

Without(d, f) == IF f = None \/ d = None THEN None ELSE d \ {f}

\* The database has deleted the document or the field; memory follows.
Removed(t) ==
    LET k == target[t].key
        f == target[t].field
    IN
    /\ pc[t] = "removing"
    /\ db' = [db EXCEPT ![k] = Without(@, f)]
    /\ cache' = [cache EXCEPT ![k] = Without(@, f)]
    /\ dbState' = [dbState EXCEPT ![k] = Without(@, f)]
    /\ unsure' = IF f = None THEN unsure \ {k} ELSE unsure
    /\ RemoveOver(t)
    /\ UNCHANGED <<todo, batch, stalled>>

\* The deletion raises, done or not: memory stays as it was.
RemoveFails(t) ==
    LET k == target[t].key IN
    /\ pc[t] = "removing"
    /\ \/ UNCHANGED db
       \/ db' = [db EXCEPT ![k] = Without(@, target[t].field)]
    /\ unsure' = unsure \cup {k}
    /\ RemoveOver(t)
    /\ UNCHANGED <<cache, dbState, todo, batch, stalled>>

------------------------------------------------------------------------------
\* The process dies and a new one reads the collection.
Restart ==
    /\ cache' = db /\ dbState' = db
    /\ queue' = <<>>
    /\ pc' = [t \in Tasks |-> "idle"]
    /\ target' = [t \in Tasks |-> NoTarget]
    /\ todo' = {} /\ batch' = NoBatch
    /\ unsure' = {} /\ stalled' = FALSE
    /\ UNCHANGED db

Step(t) ==
    \/ FlushGranted(t) \/ Acknowledged(t)
    \/ DropUnstored(t) \/ SendRemove(t) \/ Removed(t)

Next ==
    \/ \E k \in Keys : \E d \in Values[k] : Assign(k, d) \/ Edit(k, d)
    \/ \E t \in Tasks :
          \/ CallFlush(t) \/ Step(t) \/ ConnectionLost(t) \/ RemoveFails(t)
          \/ \E k \in Keys, f \in Fields \cup {None} : CallRemove(t, k, f)
    \/ Restart

Spec == Init /\ [][Next]_vars

\* Timers fire, locks are granted in turn and MongoDB answers what it is sent.
FairSpec == Spec /\ WF_vars(CallFlush(Sync)) /\ \A t \in Tasks : WF_vars(Step(t))

------------------------------------------------------------------------------
(* What the cache promises. *)

\* The acknowledged copy of a document is what MongoDB holds: an edit made
\* while a snapshot is being written is not taken for stored, a refused
\* operation stays to be written, and what was removed does not come back.
\* Documents with a write of unknown outcome are left out.
AcknowledgedIsStored == \A k \in Keys \ unsure : dbState[k] = db[k]

\* What a document was changed to does not stay unwritten: if nobody changes it
\* again it is stored, whatever happens to other documents meanwhile, unless a
\* sync fails or the latest change was made inside a document, with no sync due.
AutoSyncStores ==
    \A k \in Keys : \A d \in Values[k] :
        AutoSync /\ cache[k] = d /\ Dirty(k)
          ~> cache[k] # d \/ ~Dirty(k) \/ stalled

\* "Acknowledge only this snapshot, never the later live value" and "retain the
\* whole batch" of a write nobody acknowledged: what a flush newly counts as
\* written is what MongoDB holds.
CountedIsStored ==
    [][\A k \in Sent : dbState'[k] # dbState[k] => db'[k] = dbState'[k]]_vars
==============================================================================
