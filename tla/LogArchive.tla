------------------------------ MODULE LogArchive ------------------------------
(***************************************************************************)
(* The local history of one server: botutils/log_archive.py, with the      *)
(* handlers of cogs/moderation/logger.py that feed it.                     *)
(*                                                                         *)
(* Handlers never wait for SQLite. They put records in a bounded queue, or *)
(* are refused; one writer task takes what is there as a batch and writes  *)
(* it in one transaction, on a thread. Snapshots of messages are held in   *)
(* memory too ("hot"), and a read looks there first. What retention and    *)
(* the size limit remove is a free choice: sizes and ages are left out.    *)
(***************************************************************************)
EXTENDS Naturals, Sequences, FiniteSets, SequencesExt

CONSTANTS Messages, Logs,
          QueueSize,     \* LocalLogArchive(queue_size)
          BatchSize,     \* the 200 of _writer()
          Attachments,   \* of a message, as many of them as could be read
          FileLimit,     \* what other servers leave of MAX_PENDING_ATTACHMENT_BYTES
          MaxVersion,    \* bound: a message is posted and edited so often
          MaxEvents,     \* bound: one fault, one new process, one command, this many in all
          Aging,         \* bound: the messages and logs that are ever pruned
          None

ASSUME ArchiveAssumption ==
    /\ IsFiniteSet(Messages) /\ IsFiniteSet(Logs) /\ Messages \cap Logs = {}
    /\ Aging \subseteq Messages \cup Logs
    /\ QueueSize \in Nat \ {0} /\ BatchSize \in Nat \ {0}
    /\ Attachments \in Nat /\ FileLimit \in Nat /\ MaxVersion \in Nat
    /\ MaxEvents \in Nat

VARIABLES
    writer,               \* self.task; "failed" or "stopped" by an error
    closing,              \* close()
    queue, batch,         \* self.queue, and what _writer() holds of it
    fileBytes,            \* self._pending_file_bytes
    hot,                  \* self._hot_messages
    messages, logs,       \* the tables: message snapshots, delivery status
    enabled, keepFiles,   \* the server's settings "enabled", "store_attachments"
    version, deleted,     \* Discord: the messages
    reading,              \* handlers that wait for attachments
    delivery,             \* the logger's worker, per log
    command,              \* /log archive clear and retention
    faults, restarts, commands,
    latest, excused       \* history: what the tables owe, and what they may miss

archive == <<writer, queue, batch, fileBytes, hot>>
tables == <<messages, logs>>
settings == <<enabled, keepFiles>>
discord == <<version, deleted>>
bounds == <<faults, restarts, commands>>
history == <<latest, excused>>
vars == <<archive, closing, tables, settings, discord, reading, delivery, command,
          bounds, history>>

Things == Messages \cup Logs
Snapshot == [version : 1..MaxVersion, files : 0..Attachments]
\* Every outcome of a delivery is "delivered".
Status == {"pending", "delivered", "dropped", "uncertain"}
\* What may stand in the table of x.
IsRow(x, row) == row = None \/ IF x \in Messages THEN row \in Snapshot ELSE row \in Status

\* A record of the queue; the sentinel of close() is None.
IsRecord(item) ==
    /\ DOMAIN item = {"operation", "about", "row"}
    /\ item.about \in IF item.operation \in {"log", "delivery"} THEN Logs ELSE Messages
    /\ IsRow(item.about, item.row)
ASSUME NoneAssumption ==
    /\ None \notin Snapshot \cup Status
    /\ None \notin [operation : {"log", "delivery", "message", "delete_messages"},
                    about : Things, row : Snapshot \cup Status \cup {None}]

Item(operation, about, row) == [operation |-> operation, about |-> about, row |-> row]

Files(item) == IF item.operation = "message" THEN item.row.files ELSE 0
FilesIn(q) == FoldLeft(LAMBDA n, item : n + (IF item = None THEN 0 ELSE Files(item)), 0, q)
About(q) == {q[i].about : i \in {j \in DOMAIN q : q[j] # None}}

Command == [at : {"idle", "waiting", "joining", "wiping"},
            kind : {"clear", "prune"}, wasEnabled : BOOLEAN]
NoCommand == [at |-> "idle", kind |-> "clear", wasEnabled |-> FALSE]

TypeOK ==
    /\ writer \in {"starting", "waiting", "writing", "ended", "failed", "stopped"}
    /\ closing \in {"no", "putting", "waiting", "closed"}
    /\ \A i \in DOMAIN queue : queue[i] = None \/ IsRecord(queue[i])
    /\ \A i \in DOMAIN batch : IsRecord(batch[i])
    /\ Len(queue) <= QueueSize
    /\ Len(batch) <= BatchSize
    /\ fileBytes \in 0..FileLimit
    /\ \A m \in Messages : IsRow(m, hot[m]) /\ IsRow(m, messages[m])
    /\ \A l \in Logs : IsRow(l, logs[l])
    /\ {enabled, keepFiles} \subseteq BOOLEAN
    /\ version \in [Messages -> 0..MaxVersion] /\ deleted \subseteq Messages
    /\ reading \subseteq Messages \X (1..MaxVersion)
    /\ delivery \in [Logs -> {"new", "staged", "unstaged", "over", "lost"}]
    /\ command \in Command
    /\ {faults, restarts, commands} \subseteq 0..1
    /\ \A x \in Things : IsRow(x, latest[x])
    /\ excused \subseteq Things

Init ==
    /\ writer = "starting" /\ closing = "no"
    /\ queue = <<>> /\ batch = <<>> /\ fileBytes = 0
    /\ hot = [m \in Messages |-> None]
    /\ messages = [m \in Messages |-> None] /\ logs = [l \in Logs |-> None]
    /\ enabled = TRUE /\ keepFiles \in BOOLEAN
    /\ version = [m \in Messages |-> 0] /\ deleted = {}
    /\ reading = {}
    /\ delivery = [l \in Logs |-> "new"]
    /\ command = NoCommand
    /\ faults = 0 /\ restarts = 0 /\ commands = 0
    /\ latest = [x \in Things |-> None] /\ excused = {}

\* An error has ended the writer: its start, or later a prune.
BrokenOff == writer \in {"failed", "stopped"}
Ended == writer = "ended" \/ BrokenOff
Running == closing = "no" /\ ~Ended
Ready == writer # "starting"
MayHappen(kind) == kind = 0 /\ faults + restarts + commands < MaxEvents
Drained == queue = <<>> /\ batch = <<>>

------------------------------------------------------------------------------
(* Records enter the queue, or are refused. *)

\* Mutant of Accepted: attachments are not limited.
AcceptedUnlimited(item) == Running /\ Len(queue) < QueueSize

\* _enqueue()
Accepted(item) ==
    Running /\ fileBytes + Files(item) <= FileLimit /\ Len(queue) < QueueSize

\* Mutant of Enqueue: a full queue keeps the bytes it was charged.
EnqueueLeaking(item) ==
    /\ queue' = IF Accepted(item) THEN Append(queue, item) ELSE queue
    /\ fileBytes' = IF Running /\ fileBytes + Files(item) <= FileLimit
                    THEN fileBytes + Files(item) ELSE fileBytes

Enqueue(item) ==
    /\ queue' = IF Accepted(item) THEN Append(queue, item) ELSE queue
    /\ fileBytes' = IF Accepted(item) THEN fileBytes + Files(item) ELSE fileBytes

\* What the tables owe about x after an accepted record; a refused one is lost.
Owed(x, accepted, row) ==
    /\ latest' = IF accepted THEN [latest EXCEPT ![x] = row] ELSE latest
    /\ excused' = CASE x \in Logs /\ ~accepted -> excused \cup {x}
                    [] x \in Messages /\ accepted -> excused \ {x}
                    [] OTHER -> excused

\* enqueue_message(): the snapshot is hot even if the queue then refuses it.
\* Older snapshots make room.
EnqueueMessage(m, snapshot) ==
    LET item == Item("message", m, snapshot) IN
    IF ~Running THEN UNCHANGED <<queue, fileBytes, hot, history>> ELSE
    /\ \E evicted \in SUBSET (Messages \ {m}) :
          hot' = [n \in Messages |-> IF n = m THEN snapshot
                                     ELSE IF n \in evicted THEN None ELSE hot[n]]
    /\ Enqueue(item) /\ Owed(m, Accepted(item), snapshot)

\* forget_messages()
ForgetMessage(m) ==
    LET item == Item("delete_messages", m, None) IN
    /\ hot' = [hot EXCEPT ![m] = None]
    /\ Enqueue(item) /\ Owed(m, Accepted(item), None)

\* _capture_message_snapshot(), for a new message and for an edited one: first
\* without files, and again once the attachments have been read.
Capture(m) ==
    LET v == version[m] + 1 IN
    /\ closing = "no" /\ m \notin deleted /\ version[m] < MaxVersion
    /\ version' = [version EXCEPT ![m] = v]
    /\ IF enabled
       THEN /\ EnqueueMessage(m, [version |-> v, files |-> 0])
            /\ reading' = IF keepFiles THEN reading \cup {<<m, v>>} ELSE reading
       ELSE UNCHANGED <<queue, fileBytes, hot, reading, history>>
    /\ UNCHANGED <<writer, batch, closing, tables, settings, deleted,
                   delivery, command, bounds>>

CaptureFiles(m, v) ==
    /\ <<m, v>> \in reading
    /\ reading' = reading \ {<<m, v>>}
    /\ \E n \in 1..Attachments : EnqueueMessage(m, [version |-> v, files |-> n])
    /\ UNCHANGED <<writer, batch, closing, tables, settings, discord, delivery,
                   command, bounds>>

NoFiles(m, v) ==
    /\ <<m, v>> \in reading
    /\ reading' = reading \ {<<m, v>>}
    /\ UNCHANGED <<archive, closing, tables, settings, discord, delivery, command,
                   bounds, history>>

\* on_message_delete(): the message was in discord.py's cache.
Delete(m) ==
    /\ closing = "no" /\ version[m] > 0 /\ m \notin deleted
    /\ deleted' = deleted \cup {m}
    /\ IF enabled /\ ~keepFiles
       THEN ForgetMessage(m)
       ELSE UNCHANGED <<queue, fileBytes, hot, history>>
    /\ UNCHANGED <<writer, batch, closing, tables, settings, version, reading,
                   delivery, command, bounds>>

\* get_messages(): memory first, then the table.
Stored(m) == IF hot[m] # None THEN hot[m] ELSE messages[m]

\* on_raw_message_delete(): a snapshot is read, and forgotten if there was one.
RawDelete(m) ==
    /\ closing = "no" /\ version[m] > 0 /\ m \notin deleted /\ Ready
    /\ deleted' = deleted \cup {m}
    /\ IF enabled /\ Stored(m) # None /\ ~keepFiles
       THEN ForgetMessage(m)
       ELSE UNCHANGED <<queue, fileBytes, hot, history>>
    /\ UNCHANGED <<writer, batch, closing, tables, settings, version, reading,
                   delivery, command, bounds>>

------------------------------------------------------------------------------
(* The logger's worker: a log is staged, sent to Discord, and its row updated. *)

\* stage_local_log(): refused or not, the delivery goes on.
StageLog(l, status) ==
    LET item == Item("log", l, status) IN
    Enqueue(item) /\ Owed(l, Accepted(item), status)

\* prepare_dequeued_log()
Stage(l) ==
    /\ closing # "closed" /\ delivery[l] = "new" /\ enabled
    /\ StageLog(l, "pending")
    /\ delivery' = [delivery EXCEPT ![l] = IF Accepted(Item("log", l, "pending"))
                                           THEN "staged" ELSE "unstaged"]
    /\ UNCHANGED <<writer, batch, hot, closing, tables, settings, discord, reading,
                   command, bounds>>

\* add_to_queue(): the server's delivery queue is full.
Drop(l) ==
    /\ closing # "closed" /\ delivery[l] = "new" /\ enabled
    /\ StageLog(l, "dropped")
    /\ delivery' = [delivery EXCEPT ![l] = "over"]
    /\ UNCHANGED <<writer, batch, hot, closing, tables, settings, discord, reading,
                   command, bounds>>

\* update_local_delivery(): nothing is told of a log the archive does not have.
Deliver(l, status) ==
    LET item == Item("delivery", l, status)
        row == IF latest[l] = None THEN None ELSE status IN
    /\ closing # "closed" /\ delivery[l] \in {"staged", "unstaged"}
    /\ delivery' = [delivery EXCEPT ![l] = "over"]
    /\ IF delivery[l] = "staged"
       THEN Enqueue(item) /\ Owed(l, Accepted(item), row)
       ELSE UNCHANGED <<queue, fileBytes, history>>
    /\ UNCHANGED <<writer, batch, hot, closing, tables, settings, discord, reading,
                   command, bounds>>

------------------------------------------------------------------------------
(* _writer() *)

\* An item that is removed from the tables without a later record about it in
\* the queue stays away; a log does in any case.
Removed(things) == excused' = excused \cup (things \ (About(queue') \ Logs))

Uncertain(status) == IF status = "pending" THEN "uncertain" ELSE status

\* Rows that may have expired, or be the oldest of a server over its limit.
Old(table) == {x \in Aging : table[x] # None}
Table == [x \in Things |-> IF x \in Messages THEN messages[x] ELSE logs[x]]
Present == Old(Table)

\* _prune_expired(): rows leave the tables, the same snapshots leave the memory.
PruneExpired(statuses, expired) ==
    /\ messages' = [m \in Messages |-> IF m \in expired THEN None ELSE messages[m]]
    /\ logs' = [l \in Logs |-> IF l \in expired THEN None ELSE statuses[l]]
    /\ hot' = [m \in Messages |-> IF m \in expired THEN None ELSE hot[m]]
    /\ UNCHANGED <<queue, batch, fileBytes>>
    /\ Removed(expired)

\* _initialize() marks what an earlier process left pending, and prunes.
Initialize ==
    /\ writer = "starting" /\ writer' = "waiting"
    /\ \E expired \in SUBSET Present : PruneExpired([l \in Logs |-> Uncertain(logs[l])], expired)
    /\ latest' = [x \in Things |-> IF x \in Logs /\ logs[x] # None
                                   THEN Uncertain(logs[x]) ELSE latest[x]]
    /\ UNCHANGED <<closing, settings, discord, reading, delivery, command, bounds>>

\* The task reports the error and ends; nobody is left to empty the queue.
InitializeFails ==
    /\ writer = "starting" /\ MayHappen(faults)
    /\ writer' = "failed" /\ faults' = faults + 1
    /\ UNCHANGED <<queue, batch, fileBytes, hot, closing, tables, settings, discord,
                   reading, delivery, command, restarts, commands, history>>

\* The first record, and what else is there, up to the sentinel.
Take == LET n == CHOOSE k \in 1..Len(queue) :
                     /\ k = BatchSize \/ k = Len(queue) \/ queue[k + 1] = None
                     /\ k <= BatchSize
                     /\ \A i \in 1..k : queue[i] # None
        IN /\ batch' = SubSeq(queue, 1, n)
           /\ queue' = LET rest == SubSeq(queue, n + 1, Len(queue)) IN
                       IF rest # <<>> /\ Head(rest) = None /\ n < BatchSize
                       THEN <<>> ELSE rest

\* Was the sentinel read along with the batch?
Stopping == closing = "waiting" /\ \A i \in DOMAIN queue : queue[i] # None

TakeBatch ==
    /\ writer = "waiting" /\ queue # <<>> /\ Head(queue) # None
    /\ Take
    /\ writer' = "writing"
    /\ UNCHANGED <<fileBytes, hot, closing, tables, settings, discord, reading,
                   delivery, command, bounds, history>>

TakeSentinel ==
    /\ writer = "waiting" /\ queue # <<>> /\ Head(queue) = None
    /\ queue' = Tail(queue) /\ writer' = "ended"
    /\ UNCHANGED <<batch, fileBytes, hot, closing, tables, settings, discord, reading,
                   delivery, command, bounds, history>>

\* Mutant of Executed: an edited message is inserted, or ignored.
ExecutedOrIgnored(table, item) ==
    LET x == item.about IN
    CASE item.operation \in {"log", "message"} /\ table[x] # None -> table
      [] item.operation = "delivery" /\ table[x] = None -> table
      [] OTHER -> [table EXCEPT ![x] = item.row]

\* One record, as _write_batch() executes it.
Executed(table, item) ==
    LET x == item.about IN
    CASE item.operation = "log" /\ table[x] # None -> table
      [] item.operation = "delivery" /\ table[x] = None -> table
      [] OTHER -> [table EXCEPT ![x] = item.row]

Written == FoldLeft(Executed, Table, batch)

\* The finally clause: the batch is over, whatever became of it.
BatchOver ==
    /\ batch' = <<>> /\ fileBytes' = fileBytes - FilesIn(batch)
    /\ writer' = IF Stopping THEN "ended" ELSE "waiting"

\* _write_batch(), with _enforce_limits() in the same transaction. Messages over
\* the size limit leave the memory as well.
WriteBatch ==
    LET table == Written IN
    /\ writer = "writing"
    /\ \E over \in SUBSET Old(table), cold \in SUBSET (Aging \cap Messages) :
          /\ cold \subseteq over
          /\ over # {} => \E i \in DOMAIN batch : batch[i].operation \in {"log", "message"}
          /\ messages' = [m \in Messages |-> IF m \in over THEN None ELSE table[m]]
          /\ logs' = [l \in Logs |-> IF l \in over THEN None ELSE table[l]]
          /\ hot' = [m \in Messages |-> IF m \in cold THEN None ELSE hot[m]]
          /\ queue' = queue /\ latest' = latest
          /\ Removed(over)
    /\ UNCHANGED <<closing, settings, discord, reading, delivery, command, bounds>>
    /\ BatchOver

\* The transaction fails, at the third attempt if the database is busy.
BatchFails ==
    /\ writer = "writing" /\ MayHappen(faults)
    /\ faults' = faults + 1
    /\ UNCHANGED <<queue, hot, latest>>
    /\ Removed(About(batch))
    /\ UNCHANGED <<closing, tables, settings, discord, reading, delivery, command,
                   restarts, commands>>
    /\ BatchOver

\* _prune_expired() every hour without records, and in _stats().
Prune ==
    /\ writer = "waiting" /\ Present # {}
    /\ \E expired \in (SUBSET Present) \ {{}} : PruneExpired(logs, expired)
    /\ UNCHANGED <<writer, latest, closing, settings, discord, reading, delivery,
                   command, bounds>>

\* An error of the hourly prune ends a writer that was ready, and leaves the records
\* that have come meanwhile in the queue. (Rows it has deleted and not committed
\* come back with the next connection, whose start prunes them again.)
PruneFails ==
    /\ writer = "waiting" /\ MayHappen(faults)
    /\ writer' = "stopped" /\ faults' = faults + 1
    /\ \E expired \in SUBSET Present : PruneExpired(logs, expired)
    /\ UNCHANGED <<latest, closing, settings, discord, reading, delivery, command,
                   restarts, commands>>

------------------------------------------------------------------------------
(* close(), when the bot shuts down, and what comes after it. *)

Close ==
    /\ closing = "no" /\ closing' = IF Ended THEN "waiting" ELSE "putting"
    /\ UNCHANGED <<archive, tables, settings, discord, reading, delivery, command,
                   bounds, history>>

\* Mutant of PutSentinel: put_nowait(None), its QueueFull suppressed.
PutSentinelOrNot ==
    /\ closing = "putting" /\ closing' = "waiting"
    /\ queue' = IF ~Ended /\ Len(queue) < QueueSize
                THEN Append(queue, None) ELSE queue
    /\ UNCHANGED <<writer, batch, fileBytes, hot, tables, settings, discord, reading,
                   delivery, command, bounds, history>>

\* queue.put(None) waits for room; the end of the writer makes it pointless.
PutSentinel ==
    /\ closing = "putting" /\ closing' = "waiting"
    /\ IF Ended THEN queue' = queue
                           ELSE Len(queue) < QueueSize /\ queue' = Append(queue, None)
    /\ UNCHANGED <<writer, batch, fileBytes, hot, tables, settings, discord, reading,
                   delivery, command, bounds, history>>

Closed ==
    /\ closing = "waiting" /\ Ended
    /\ closing' = "closed"
    /\ UNCHANGED <<archive, tables, settings, discord, reading, delivery, command,
                   bounds, history>>

\* A new archive on the same tables owes what they hold, and nothing it has lost.
Renewed ==
    /\ writer' = "starting" /\ queue' = <<>> /\ batch' = <<>> /\ fileBytes' = 0
    /\ hot' = [m \in Messages |-> None]
    /\ reading' = {}
    /\ delivery' = [l \in Logs |-> IF delivery[l] = "new" THEN "new" ELSE "lost"]
    /\ command' = NoCommand
    /\ latest' = Table /\ excused' = {}
    /\ UNCHANGED <<tables, settings, discord, faults, commands>>

\* The process is killed, or ends after close(), and another one starts.
Restart ==
    /\ MayHappen(restarts) /\ restarts' = restarts + 1
    /\ closing' = "no"
    /\ Renewed

\* The logger cog is reloaded: it takes the archive over, unless its writer has
\* ended. Its own workers are cancelled, wherever they are.
ReloadCog ==
    /\ closing = "no"
    /\ IF Ended
       THEN Renewed
       ELSE /\ \E l \in Logs : delivery[l] \in {"staged", "unstaged"}
            /\ delivery' = [l \in Logs |-> IF delivery[l] \in {"staged", "unstaged"}
                                         THEN "over" ELSE delivery[l]]
            /\ UNCHANGED <<archive, tables, settings, discord, reading, command, faults,
                           commands, history>>
    /\ UNCHANGED <<closing, restarts>>

------------------------------------------------------------------------------
(* Administrators: settings, and the commands that wait for the writer. *)

ToggleFiles ==
    /\ closing = "no" /\ MayHappen(commands)
    /\ commands' = commands + 1 /\ keepFiles' = ~keepFiles
    /\ UNCHANGED <<archive, closing, tables, enabled, discord, reading, delivery,
                   command, faults, restarts, history>>

\* logger_archive_clear() switches the history off while it works,
\* logger_archive_enable() switches it on before it prunes.
BeginCommand(kind) ==
    /\ closing = "no" /\ command = NoCommand /\ MayHappen(commands)
    /\ commands' = commands + 1
    /\ command' = [at |-> "waiting", kind |-> kind, wasEnabled |-> enabled]
    /\ enabled' = (kind = "prune")
    /\ UNCHANGED <<archive, closing, tables, keepFiles, discord, reading, delivery,
                   faults, restarts, history>>

\* _wait_ready()
CommandReady ==
    /\ command.at = "waiting" /\ Ready
    /\ command' = [command EXCEPT !.at = "joining"]
    /\ UNCHANGED <<archive, closing, tables, settings, discord, reading, delivery,
                   bounds, history>>

\* flush() waits until every record has been written or reported. clear_guild()
\* then empties the memory, and the tables on a thread.
Wiping ==
    /\ command' = [command EXCEPT !.at = "wiping"]
    /\ IF command.kind = "clear"
       THEN hot' = [m \in Messages |-> None] /\ latest' = [x \in Things |-> None]
       ELSE UNCHANGED <<hot, latest>>

CommandFlushed ==
    /\ command.at = "joining" /\ Drained
    /\ Wiping
    /\ UNCHANGED <<writer, queue, batch, fileBytes, closing, tables, settings, discord,
                   reading, delivery, bounds, excused>>

\* self.connection
Connected == closing # "closed" /\ writer # "failed"

CommandOver ==
    /\ command' = NoCommand
    /\ enabled' = IF command.kind = "clear" THEN command.wasEnabled ELSE enabled
    /\ UNCHANGED <<keepFiles, closing, discord, reading, delivery, bounds>>

\* Whatever a snapshot that arrives late has put in the queue is owed again.
ClearTables ==
    /\ command.at = "wiping" /\ command.kind = "clear" /\ Connected
    /\ messages' = [m \in Messages |-> None] /\ logs' = [l \in Logs |-> None]
    /\ latest' = [x \in Things |-> IF x \in Messages \cap (About(queue) \cup About(batch))
                                   THEN latest[x] ELSE None]
    /\ UNCHANGED <<archive, excused>>
    /\ CommandOver

PruneTables ==
    /\ command.at = "wiping" /\ command.kind = "prune" /\ Connected
    /\ \E old \in SUBSET Present : PruneExpired(logs, old)
    /\ UNCHANGED <<writer, latest>>
    /\ CommandOver

\* Without a connection nothing happens, or the command ends with an error. What a
\* broken writer has left in the queue is lost.
CommandInVain ==
    /\ command.at = "wiping" /\ ~Connected
    /\ latest' = Table /\ excused' = excused \cup About(queue)
    /\ UNCHANGED <<archive, tables>>
    /\ \/ CommandOver
       \/ /\ command' = NoCommand
          /\ UNCHANGED <<settings, closing, discord, reading, delivery, bounds>>
------------------------------------------------------------------------------
Snapshots ==
    \/ \E m \in Messages : Capture(m) \/ Delete(m) \/ RawDelete(m)
    \/ \E m \in Messages, v \in 1..MaxVersion : CaptureFiles(m, v) \/ NoFiles(m, v)

Worker(l) == Stage(l) \/ Drop(l) \/ Deliver(l, "delivered")

Write ==
    \/ Initialize \/ InitializeFails
    \/ TakeBatch \/ TakeSentinel \/ WriteBatch \/ BatchFails

Closing == PutSentinel \/ Closed

Commanding ==
    CommandReady \/ CommandFlushed \/ ClearTables \/ PruneTables \/ CommandInVain

Next ==
    \/ Snapshots
    \/ \E l \in Logs : Worker(l)
    \/ Write \/ Prune \/ PruneFails
    \/ Close \/ Closing \/ Restart \/ ReloadCog
    \/ ToggleFiles \/ \E kind \in {"clear", "prune"} : BeginCommand(kind)
    \/ Commanding

Spec == Init /\ [][Next]_vars

\* The event loop and its threads go on. Nothing makes the bot close or restart,
\* a handler be called, or a fault happen.
FairSpec ==
    /\ Spec
    /\ WF_vars(Write) /\ WF_vars(Closing) /\ WF_vars(Commanding)

------------------------------------------------------------------------------
(* What the history promises. *)

\* When the queue is empty, the tables hold the last accepted record about each
\* message and log: the newest snapshot, nothing for a message that was forgotten
\* or a history that was cleared, and the delivery's outcome. Failed transactions,
\* refused updates and pruning, which excuse, do not touch anything else. No log of
\* an earlier process still says "pending": nobody is left to replace the word. What
\* comes while a history is being cleared, and is written before the rows are wiped, is
\* wiped with them and owed no more.
DrainedIsCurrent ==
    Drained /\ writer \notin {"starting", "failed"} /\ command.at # "wiping" =>
        /\ \A x \in Things \ excused : latest[x] = Table[x]
        /\ \A l \in Logs : logs[l] = "pending" => delivery[l] # "lost"

\* The bytes charged for attachments are those of the records that wait or are
\* being written: no refusal and no failing transaction uses the limit up.
FilesAreCounted == fileBytes = FilesIn(queue) + FilesIn(batch)

\* close() ends, with every accepted record written or reported, a full queue and
\* a batch under way included, and a command that waits for the queue goes on,
\* unless the archive never got ready or an hourly prune has ended its writer.
WaitersGoOn ==
    /\ closing = "putting" ~>
           closing = "no" \/ (closing = "closed" /\ (Drained \/ BrokenOff))
    /\ command.at = "joining" ~> command.at # "joining" \/ BrokenOff
==============================================================================
