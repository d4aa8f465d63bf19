# A verification development of Fate-Bot

Fate is a Discord bot (`fate.py`, `cogs/`, `botutils/`) with companions: FateControl, a
supervisor that starts, stops and watches the bot process (`apps/FateControl/server.py`), a web
dashboard, an Android viewer, and the "organism", a learning subsystem. This directory holds TLA+
models of the parts whose correctness depends on interleavings, failures and restarts, TLC
configurations that check them on small instances, and proofs that TLAPS checks.

    tlc -workers 2 -config MCInstanceHandoff.cfg MCInstanceHandoff
    tlapm InstanceHandoffProofs.tla

`PROJECT.json` names every run, the lines each definition stands for, a mutant of the code for
every property, the hazards, and the findings.

## 1. Inventory

### Parts that are modelled

| Part | State it keeps | Operations | Interacts with | What is hard |
|---|---|---|---|---|
| **Single-instance handoff** (`botutils/instance_handoff.py`, `fate.py`) | three files per profile: lock, owner, request; `_claimed` | `claim`, `watch_for_replacement`, `release` | other launches of the bot, through the file system | processes at any step of their life, crashes, requests of processes that are gone or have stopped waiting, time limits |
| **FateControl supervisor** (`apps/FateControl/server.py:842-1301`) | `desired_running`, `self.process`, one `asyncio.Lock` | `start_bot`, `stop_bot`, `restart_bot`, monitor, startup, cleanup | HTTP clients, the operating system's processes | checks before an await and use after it, a reap outside the lock, failing spawns, external processes |
| **Module reload queue** (`botutils/module_reload.py`, `cogs/dev/reload.py`) | one file with the last job; the operation lock | `queue`, `execute_pending`, expiry, commands of the owner | FateControl writes jobs, the bot's watcher executes them | two writers without a lock, writes that fail, cancellation while closing |
| **Global XP safeguards** (`botutils/global_xp_guard.py`, `cogs/core/ranking.py`) | activity states, dirty set, pending awards, flags, one batch; five MySQL tables | `state`, `observe`, `release`, `flush`, `cleanup` | Discord messages (also redelivered), MySQL; the ranking cog deletes old minutes from one of the tables | a commit whose answer is lost, retries, receipts that expire, checkpoints restored after a crash, several awards in the minute of a flag |
| **Write-behind configuration cache** (`botutils/resources.py`, class `Cache`) | `_cache`, `_db_state`, `_flush_lock`, the sync task | assignment, edits in place, `flush`, `remove`, `remove_sub` | every cog; MongoDB | edits during a write, partly failed batches, lost acknowledgements |
| **Anti-raid containment** (`cogs/moderation/anti_raid.py`, `botutils/antiraid.py`) | per server: configuration with `lockdown_until` and `temporary_bans`, join window, lock, timer | join handler, lockdown, containment, release, settings, restore | Discord; the configuration cache | a release beside a containment, replaced configuration objects, timers, restarts |
| **Giveaways** (`cogs/utility/giveaways.py`) | records in memory and in one JSON file; a task per giveaway; entry and finish locks | create, press, finish by task or command, reroll, delete | Discord messages, channels, members | saves that fail or come late, records held across awaits, restarts in the middle of a draw |
| **Log archive and logger** (`botutils/log_archive.py`, `cogs/moderation/logger.py`) | a bounded queue, one writer, SQLite tables, snapshots in memory, a byte count | append, writer, close, clear, retention, delivery status | Discord events, the logger's worker | a full queue, failing batches, `close()` beside the writer, rows of an earlier process |
| **Factions treasury and votes** (`cogs/fun/factions_rewrite.py`, `botutils/topgg_votes.py`) | MySQL tables; blackjack views; the cache of unclaimed channels | credit, purchases, pay, battle, raid, blackjack, claims, vote, join, leave, disband, annex; the webhook | Discord replies and buttons; Top.gg's deliveries | balances that are stale when used, four ways to settle one hand, lost answers, a cache that races a claim |

Interactions: FateControl launches `fate.py`, which first claims the lease of the handoff; a
claim makes the running instance close, which flushes the caches, closes the log archive and
cancels the watcher that executes reload jobs. The ranking cog hands messages to the XP guard and
calls its `flush` every 30 seconds. AntiRaid keeps its lockdowns in a document of the configuration
cache, and must find them there after a restart. The webhook of `topgg_votes.py` and the command
`vote` meet in the table of votes.

What makes them correct:
- handoff: at most one instance; the lease of a live owner is its own; it closes only for
  a live process that has asked and not been served; no claim hangs; together, it is a lease (`Lease`);
- supervisor: no live child without a handle; no lock left behind; a stop stops; a wanted bot
  comes back; a stop is not undone by the monitor (violated, see section 5);
- reloads: a job is executed once, by the process it was meant for, and does not stay under way;
- XP: nothing is credited twice, the two tables agree but for minutes deleted for their age, nothing is
  earned in a pause, nor kept of the minute it began in, and what memory forgets is stored; together, it
  is a ledger (`Ledger`);
- cache: what counts as written is in MongoDB, and what was assigned gets there;
- anti-raid: a lockdown in force has its timer and ends; who is banned temporarily is on the
  stored list (violated where a release meets a containment, see section 5);
- giveaways: one result, the winners who were told are those on file, so is every confirmed entry,
  rerolls give the prize to new members, what is removed stays removed, what is due and has a task ends;
- log archive: once the queue is empty the tables are current, the byte count neither leaks nor
  is exceeded, `close()` and the commands that wait for a writer that lives go on;
- factions: no debt, each wager settled once, each vote used up once, no claimed channel taken for
  an unclaimed one.

### Parts that are not modelled

- *Cache contexts* (`botutils/cache_rewrite.py`), the *configuration store* of FateControl,
  *backups*, the order of the bot's `close()`: concurrent or failure-prone; section 6
  says what a model of them would be about.
- *Discord rate limits*, *uptime*: small clocked protocols.
- *Anti-spam*, *moderation commands*, *mod mail*, *verification*, *per-server XP*: mostly one
  command to a few single-statement updates and Discord calls.
- *Organism*: real-valued scores and statistics, out of TLC's reach in any useful detail; the
  mode changes of its coordinator and the grants of `authority.py` could be modelled.
- *Dashboard*, *FateStatus* (Android), *FateControl's clients*, menus, localization, rendering,
  Google Drive's HTTP client: forms, rendering and I/O. They are most of the repository's lines.

Inside the modelled parts these are left out:
- handoff: a read error of an existing owner file (`instance_handoff.py:22`), after which the
  lease of a live owner is overwritten; `OneInstance` would fail by that line alone;
- XP: the schema check, per-server XP;
- giveaways: records of the reaction era, validation, a reload of the cog alone (`cog_unload`,
  `giveaways.py:231-244`; a crash ends the whole process), a message that Discord has sent
  though the connection broke before its answer;
- log archive: the delivery worker's batching, embeds, search, sizes, several servers;
- factions: a claim command that outlives a reload of its cog (it then invalidates the cache of the old
  cog, `factions_rewrite.py:1868`, and not that of the new one), foraging, the clocks of daily, trade
  and industry, boosts, cooldowns, alliances, roles (so `transfer` and `promote`), names, pages;
- anti-raid: the audit-log side, `on_guild_remove()`, a reload of the cog alone.

`PROJECT.json` lists all parts with their sources.

## 2. Modules

| Module | Models |
|---|---|
| `InstanceHandoff`, `MCInstanceHandoff` | the handoff of one profile among the processes `Procs`; three for TLC |
| `Lease` | what the handoff promises: a lease, without files or locks |
| `FateControl`, `MCFateControl` | the supervisor: two handlers, the monitor, three process slots |
| `ModuleReload` | the job file between FateControl and the bot |
| `GlobalXP`, `MCGlobalXP` | the XP guard with its five tables |
| `Ledger` | what the guard promises: each message counted at most once |
| `ConfigCache`, `MCConfigCache` | one collection behind `Cache`; for TLC a document with three values and one with two |
| `AntiRaid` | the lockdowns of one server |
| `Giveaways` | one giveaway, its file, its message and its members |
| `LogArchive` | the archive of one server and the handlers that feed it |
| `Factions`, `MCFactions` | the treasuries of one server; symmetry for TLC |
| `InstanceHandoffProofs`, `FateControlProofs`, `ModuleReloadProofs`, `FactionsProofs`, `GlobalXPProofs`, `GiveawaysProofs`, `LogArchiveProofs` | inductive invariants and theorems, one module per component |
| `ConfigurationProofs` | the same for `ConfigCache` and `AntiRaid`, which keeps its lockdowns in a document of that cache |

An operator whose comment begins with "Mutant" is not part of a model: it is a plausible bug
in the definition the comment names, and the properties are known to notice it.

### InstanceHandoff
`pc[p]` is where process `p` is in `claim()` ("claiming", "holding" the file lock, "asking",
"polling", ...), as an instance ("running", "closing"), or in `release()`. `owner` and `request`
are the files, `lock` the file lock. Each action is a stretch between two file operations that
others may interleave with: `LockForClaim`, `FindFree`/`FindOwned`, `TakeLease`, `AskOwner`,
`Poll`, `TimeOut`; `ReadRequest`, `Yield`, `IgnoreRequest`; `LockForRelease`, `FinishRelease`;
and `Launch`, `StartWatching`, `StartupFails`, `ShutDown`, `CloseDone`, `CloseFails`, `Exit` of
`fate.py`. `claim()` ends with an exception after its time limit (`TimeOut`): the process is then
"timedOut", no longer waiting but alive, its request still in the file, until the interpreter has shut
down (`Exit`); likewise "released" after `release()`. So a watcher may close for somebody who has
just given up, and then nobody runs: `YieldsToAnAsker` allows that, and forbids closing for anybody
who is gone, never asked, or has had the lease since.
`Crash` may come anywhere; the operating system drops the lock, the files stay. A process that
is gone never comes back: another launch is another member of `Procs`, so a process id with its
start time names one process, as the code assumes. Files are written atomically (rename), so an owner
file is read whole or not at all.

The refinement: `Lease` has a holder, waiting clients and clients that are gone. The holder is the
process between a successful `claim()` and the end of `release()`, the waiting ones are inside
`claim()`; who has timed out or released counts as gone. Files, polls and locks disappear; a crash of a
holder is `Free`, a time limit or a crash of a waiter is `GiveUp`. The fairness of `Lease` (a free lease
somebody waits for is taken) follows from that of the threads. Nothing in it orders clients by age: the
class says "Let the newest process replace an older instance cleanly" (`instance_handoff.py:78`), but
start times are recorded and never compared, so a process that started first and waited may replace a
newer one.

### FateControl
`queue` is the `asyncio.Lock` with its waiters in order; `pc` says after which await a task
continues. A call of `start_bot()` or `stop_bot()` that finds the lock free runs on without a
pause, as a coroutine does (`CallStart`, `CallStop`). `Tick` reaps without the lock. The
answers of `bot_status()` (HTTP) and `_bot_process()` (a scan) may miss or see a live process as
the code may. `alive` are the `fate.py` processes of this checkout, `ours` those this controller
spawned; `Launch` and `Die` are the world's. `ControllerCrash` and `CleanUp` end the controller,
`Boot` starts the next.

### ModuleReload
`file` is the last job, replaced in one step by whoever writes. The controller's own lock admits
one request at a time (`Ask`, then `Share`, or `FindFree` and `Queue`); the bot's task goes from
`Pick` through `Accept`, `Begin` (which waits for the operation lock), `Reloaded` to `Settle`, or is
interrupted by the close. `Seen` is `read()`: what a file means depends on who reads it.
`Close` writes the interruption or fails to, `Kill` leaves everything. The owner's commands hold
the lock at any time. `reloads` and `lost` are history.

### GlobalXP
Actions are the steps of the guard: `BeginLoad`/`EndLoad`, `Earn`, `RaiseFlag`, `Release`,
`BeginFlush`, then one of `Acknowledged`, `ResponseLost`, `WriteFails`, and `Cleanup`, `Evict`,
`Crash`. Whether a pattern is suspicious is free choice. Time counts ticks of ten seconds, the
cooldown of an account (`global_xp_guard.py:37`), and `PerMinute` ticks are a minute, the unit of
`global_monthly`: a user may earn several awards in a minute, be flagged in it and have those taken
back (`Slot`, `Cleared`). `DeleteOldMinutes` is the part of `monthly_cleanup_task()` (`ranking.py`)
that deletes minutes older than `Month` without touching the totals; `Cleanup` is the guard's own, which
that task calls next. `credited`, `lifted` and `expired` (XP of deleted minutes) are history, read
by properties only. The refinement to
`Ledger` maps the credited messages and the all-time totals: every step adds at most one per
message that was never counted, or takes back.

### ConfigCache
A document is the set of its fields; `Values` says which sets are written to which key. `FlushGranted`
and `SendBatch` take a snapshot of a batch, `Acknowledged` answers with any subset of operations
refused, `ConnectionLost` raises after MongoDB applied any part. Replies of MongoDB to inserts of
existing documents are as in the code (taken for success). `unsure` (keys with a write of unknown
outcome) and `stalled` (a sync raised) are history.

### AntiRaid
`docs` are the configuration objects, `live` the one in the cache, `stored` what MongoDB holds.
`handler` is the join handler that has the guild's lock, `release[t]` the `unlock_guild()` of the
timer, of a join, of a setting or of the restart, `editor` the command that changes a setting.
Each await (flush, ban, unban) ends an action.
An unban succeeds, is refused by Discord (the code goes on), or breaks off: a connection error is no
`HTTPException` and leaves `unlock_guild()` with the timer popped and the lockdown not lifted
(`UnbanBreaksOff`); nothing retries before the next start. The same error in a containment leaves the
rest of it undone (`ContainBreaksOff`). Which recent joins count is a choice among those
since the start. A lockdown's number stands for its end; `Lapse` passes it. `trouble` is history:
it records the circumstances under which a property makes an exception ("unarmed": the save of an
activation failed; "broken": a connection error ended a release; "swapped": a setting replaced the
object while a task held it; "lost": a containment and a release overlapped, or an unban or a save
of a containment failed). What happens under "swapped" and "lost" is therefore not what
`AwaitingAreListed` is about; the finding is one such overlap. `ConfigurationProofs` extends
`AntiRaid` beside `ConfigCache`: hence `RaidInit`, `RaidNext`, `RaidSpec`, `RaidTypeOK`.

### Giveaways
`rec` is the record the coroutines share, `listed` says whether the data still holds it, `disk` what the
file holds. A save stores what memory holds when it gets the file's lock, so it is one step and may fail
(`CreateNotSaved`, `EntryNotSaved`, `ResultNotSaved`, `RerollNotSaved`). `finish` is the
`finish_giveaway()` that has the finish lock: it fetches the message, looks members up, draws, saves and
announces, each an action. A refusal by Discord makes the task try again (`FetchFails`); a connection
error is no `HTTPException` and ends the task with the giveaway still active ("broken",
`FinishBreaksOff`), though the comment at `giveaways.py:526-528` wants such failures to be retried;
likewise `SendBreaksOff`, after which a record stays listed without a message, and `DeleteBreaksOff`,
which leaves one whose task has been cancelled. Rerolls take no lock. `PlaceDeleted` is the handler of
lost channels and servers, `SaveOther` any other save of the cog. `told`, `announced`, `results` are
history.

### LogArchive
`queue` is the bounded queue with the sentinel (`None`), `batch` what the writer has taken, `hot` the
snapshots in memory, `messages` and `logs` the tables. `Enqueue` refuses when the queue is full or the
attachment limit is reached. `WriteBatch` and `BatchFails` are the transaction. `Prune` is the hourly
pruning of the writer; it is outside the inner `try`, so an error in it ends a writer that was ready
("stopped", `PruneFails`), as a failed start does. `PutSentinel` and `Closed` are `close()`,
`CommandReady` to `CommandOver` a clear or a change of retention. What retention and the size limit
remove is a free choice. `latest` (what the tables owe) and `excused` (what a failed transaction, a
refusal or pruning may have lost) are history.

### Factions
Commands that read, wait and then write are tasks: `Begin` copies what they read, the second action
is the transaction. Commands that are one guarded statement (`Credit`, `Buy`, `Unclaim`, `Leave`, ...)
are one action. `game` is the table of hands with the moment a row becomes stale (`GetsOld`), `view` the
buttons: dealt, open, settling for one of four reasons, dead or over. A settlement commits (`Settled`) or
raises, committed or not (`SettleFails`); what a view does after an error is `AfterFailure`.
`RecordVote` is a delivery of Top.gg, with or without an answer in time. `Lookup`, `ReadClaim`,
`EndLookup` are `find_channel_claim()` with the revision of the claims as the flag `fresh`.
A faction's id is never used again, so the constant `Factions` bounds how many are ever created.

What the model contains and no line of the code or its documentation speaks against, so that no
property is about it: `annex` adds the balance it read up to a minute before; the view of a hand
that was refunded as stale may settle the member's next hand; a vote is spent without a reward if
the faction was disbanded since it was read; `coinflip` announces a result that `credit()` refused.

## 3. Runs

| Run | Shows | Distinct states |
|---|---|---|
| `handoff` | `OneInstance`, `LeaseNeverStolen`, `YieldsToAnAsker`, `ClaimSettles`, `ImplementsLease` for three processes launched at any time, with crashes, time limits and failing closes | 12,460 |
| `control` | `NoLostChild`, `StopLeavesNoChild`, `WantedFateRuns` | 195,408 |
| `control_stop` | finding: the monitor undoes a stop that was answered with success; clients send starts and stops only | |
| `reload` | `ReloadedOnce`, `BusyEnds` | 24,515 |
| `globalxp` | `TotalsAgree`, `NoXPWhilePaused`, `CleanIsStored`, `ImplementsLedger` | 2,374,564 |
| `configcache` | `AcknowledgedIsStored`, `AutoSyncStores` | 208,040 |
| `configcache_lost` | finding: a document counts as written that MongoDB does not hold | |
| `antiraid` | `LockdownHasTimer`, `AwaitingAreListed`, `LockdownEnds` | 1,300,250 |
| `antiraid_forgotten` | finding: a member is banned for ever | |
| `giveaways` | `AnnouncedOnce`, `ToldEntriesAreStored`, `RerollsAreFresh`, `RemovedForGood`, `DueGiveawaysEnd` | 810,451 |
| `logarchive` | `DrainedIsCurrent`, `FilesAreCounted`, `WaitersGoOn` | 359,983 |
| `factions` | `NeverOverdrawn`, `HandsSettleOnce`, `VotesCountOnce`, `NoClaimHidden` | 911,194 |

Every run that passes checks its module's `TypeOK` (`RaidTypeOK` in `AntiRaid`) as well.

### Bounds
- `handoff`: three processes are an owner, one that waits, and one that overtakes or crashes with
  the lock; the theorems hold for any number.
- `control`: two handlers and the monitor give every pair of operations a third that interferes;
  three slots hold a child, an external process and one more. Slots are reused, so histories are
  unbounded.
- `reload`: two processes of the bot, one after the other, and three jobs: one left by the first
  process, one that overwrites it, one for its successor. One write fails.
- `globalxp`: one account (states of two accounts meet only in a batch, whose parts are per
  user), `MaxTime` 5 ticks and `MaxBatches` 2 identities. A minute has two ticks, so it may hold
  an award and a flag, in either order, or two awards; the periods are shrunk in the code's order: a
  message is fresh for 1 tick, a flag takes back 2, the first pause lasts 2 and the second 3,
  minutes are deleted after 3, repeats, checkpoints and receipts end after 3. Each of these periods begins
  and ends within the run with a retry in between. When identities run out a flush ends after its first round.
- `configcache`: two keys and batches of one, so that one flush has two batches; one key has two fields
  and three values, so that each of a series of edits made during writes can differ from what is being
  acknowledged and leave the document dirty for ever; the other comes and goes with one field; one
  caller beside the sync task.
- `antiraid`: two members make a raid of two; one more join may wait for the lock; one change of
  settings; `MaxEvents` 2 lockdowns, failed saves, refused unbans, connection errors and crashes
  together, so two lockdowns without a fault, or one with one. The timer of a second lockdown does not
  fire while the release of the first goes on.
- `giveaways`: two members and one prize, so that a draw and a reroll have somebody to choose and
  somebody to leave out; one of them may press again (`Fickle`); one crash; two
  rerolls, which overlap each other, a deletion, a lost channel and the crash. A reroll begins when the
  creation and the presses are over (what they could still do to an ended giveaway is a save, which
  `SaveOther` does as well).
- `logarchive`: one message with up to two attachments and a limit of one, so that some records fit and
  some do not; one log; a queue of two and batches of two, so that it is full, and a batch ends before,
  at and after the sentinel. `MaxEvents` 2: a fault, a new process and a command, any two of them.
- `factions`: two commands at a time from `MaxCommands` 3 commands, deliveries, lookups or
  crashes; two factions, members and hands, one channel and vote. The prices make a treasury that
  affords one thing at a time. Every two commands overlap, with a third beside or after them. The
  theorems hold without the bounds. Symmetry of factions, hands and tasks is sound there: the run checks
  invariants only, and no constant names one of them.

`CHECK_DEADLOCK FALSE`: all these systems may stop. No process need be launched, no request
sent, no member join, no button be pressed; in `globalxp` time is bounded.

### Fairness
- `handoff`: weak fairness of each process's own steps while it lives (threads run, file locks
  are granted); no fairness of launches, crashes, or of an instance being shut down by others.
- `control`: weak fairness of each task's steps and of the monitor (an event loop runs what is
  ready, the wait in the thread has a time limit), of a restart of the controller (its service
  restarts it), and strong fairness of `Spawn`: Popen does not fail for ever.
- `reload`: weak fairness of the bot's task, of the end of an owner's command and of time; strong
  fairness of `Begin`, since an `asyncio.Lock` is granted in the order it was asked for, so that
  commands cannot keep the job out for ever. Nobody has to start the bot again.
- `configcache`: weak fairness of the sync task and of the holder of the lock; MongoDB answers
  or fails, it does not hang. `AutoSyncStores` makes an exception of a sync that failed, and speaks of
  one value of a document: it is stored, or changed again. Endless edits may keep a document dirty for ever.
- `antiraid`: weak fairness of what is under way (calls are answered). None of joins, settings or time.
- `giveaways`: weak fairness of coroutines that have begun and of the restart of a crashed bot; strong
  fairness of the task's turn at the finish lock (first come, first served) and of an answer to a fetch
  that is repeated: Discord does not refuse for ever. A connection error ends the repetition at any
  time. None of presses, commands, crashes or the deadline.
- `logarchive`: weak fairness of the writer, of `close()` and of a command that waits. None of handlers,
  faults, close or restart.
- `globalxp` and `factions` check safety only.

Exceptions the liveness properties state: a reload job whose outcome could not be written or whose
process was killed stays "running" for its process (`lost`); after a failed start of the archive, or a
pruning that failed, nobody empties the queue, and whoever waits in `flush()` waits for ever; after a failed
first save a giveaway has no task until the bot is ready again or a member presses late, and so when a
connection error has ended the task or a deletion that had cancelled it; a lockdown whose release was
ended by a connection error lasts until the next start. If the write
of a reload's interruption fails (`module_reload.py:72`) the cancellation is lost and the bot's
`close()` waits for a watcher that goes on.

## 4. Proofs

`InstanceHandoffProofs` proves, for every set of processes and any number of crashes:

| Theorem | Statement |
|---|---|
| `TypeCorrect` | `Spec => []TypeOK` |
| `MutualExclusion` | `Spec => []OneInstance` |
| `LeaseSafety` | `Spec => LeaseNeverStolen` |
| `YieldSafety` | `Spec => YieldsToAnAsker` |
| `LeaseImplemented` | `Spec => TheLease!Init /\ [][TheLease!Next]_(TheLease!vars)` |

`OneInstance` is not inductive: that two processes never both hold the lease depends on what the
files say. `IInv` adds
- `LockOwned`: who is at a step under the file lock holds the lock, so there is one;
- `OwnerNamed`: whoever has a lease is named by the owner file, so two are one;
- `ReleaseClears`, `ReadHolds`: between reading the file and writing it under the lock, what was
  read remains true, and a release removes only its own name;
- `OwnerHeld`, `NoticesOwn`: the owner file names a process that holds the lease or died with it, and a
  watcher has noticed only a request of somebody else addressed to itself;
- `AskersWait`: who is asked for the lease has claimed it, and until it lets go whoever asked
  still waits, has timed out or is gone: nobody else can have given the asker the lease meanwhile.
The argument is one step per action, under it one per conjunct the action can disturb. The only
assumption is that `None` is not a process. `LeaseImplemented` uses the same invariant: each
action moves one process between the classes waiting, holding and gone, or none.

`FateControlProofs` proves, for every set of handlers and of processes and any number of
crashes, boots, launches and deaths:

| Theorem | Statement |
|---|---|
| `TypeCorrect` | `Spec => []TypeOK` |
| `NoChildIsLost` | `Spec => []NoLostChild` |
| `LockIsReleased` | `Spec => []LockHeld` |
| `StopIsClean` | `Spec => StopLeavesNoChild` |

`NoLostChild` is not inductive: `Spawn` overwrites the handle, and nothing in its guard says that
the old one is dead; `start_bot()` looked before two awaits. `IInv` adds
- `LockOK`: the queue has a task under the lock, or about to be, in front, waiters behind, each once,
  so at most one task is between taking the lock and releasing it;
- `NoChildRuns`: while a task is on its way from the look to the spawn, the child stays dead,
  since only a spawn makes one and that needs the lock; the monitor, which reaps without the
  lock, can only let go of a dead one;
- `OffTogether`: without a controller there are no handlers, so the next one starts with a free lock;
- `StopUnderWay`: a plain stop is queued, asking or waiting until it is answered.
What a part of an action does to the lock is a lemma of its own (`LockLeave`, `LockEnter`,
`LockWait`, `LockStay`), used by every action that calls `start_bot()` or `stop_bot()`. The
assumptions are that the monitor is not a handler and `None` and `External` are not processes.

`ModuleReloadProofs` proves `TypeCorrect` and `NeverReplayed` (`Spec => []ReloadedOnce`) for any
number of processes, jobs and failing writes. Whether a job runs twice depends on what the file
says, and both sides write it. Only the controller writes a pending job, with a number nobody has seen
(`Numbered`), so the bot never puts one back (`OwnJob`); what it has accepted is pending nowhere when the
reload begins (`Accepted`), and what is pending or about to be accepted was never reloaded
(`NotYetReloaded`).

`ConfigurationProofs` proves, for any documents, callers and size of a batch, and for any members, settings,
lockdowns and faults:

| Theorem | Statement |
|---|---|
| `TypeCorrect` | `Spec => []TypeOK` |
| `StoredAsAcknowledged` | `Spec => []AcknowledgedIsStored` |
| `LockExcludes` | `Spec => []OneAtWork`: one task at a time is inside `_flush_lock` |
| `RaidTypeCorrect` | `RaidSpec => []RaidTypeOK` |
| `LockdownsAreTimed` | `RaidSpec => []LockdownHasTimer` |
| `BannedAreListed` | `RaidSpec => []AwaitingAreListed` |

For the cache, `QueueOK` says that the queue of the flush lock holds whoever waits or works, once, and
the worker in front: so a write and a removal, which both change the acknowledged copies after an await,
never overlap. `TargetOK` says that a removal knows its key. For the lockdowns, both properties speak of
moments when no task is at work, and `RaidIInv` of all others:
- `ArmedOK`: a lockdown in force has its timer, or the restart is not over, or its activation is, or the
  release of a setting is about to end it. Only such a release, or one that breaks off, forgets the
  timer a lockdown in force depends on, and a setting waits for its own release, so the object is not
  replaced under it (`WaitingOK`). A lockdown being activated is the live one, or was lifted meanwhile;
  so the timer of the new one does not displace another that is needed. A timer that is left over from
  an earlier lockdown may fire, but only before the activation starts its own;
- `ListedOK`: as long as nothing of `trouble` has happened, all tasks hold the live object; no release meets a
  containment; who is banned is on the list, or in the hands of the containment, and every release under way
  is still going to unban him; and MongoDB is not behind, except while a containment saves.
The assumptions are those of the constants alone (`CacheAssumption`, `RaidAssumption`).

`FactionsProofs` proves all five invariants of `Factions` for any number of factions, members,
hands, votes, channels, commands in flight, prices and wagers:

| Theorem | Statement |
|---|---|
| `TypeCorrect` | `Spec => []TypeOK`, the foreign keys included |
| `NoDebt` | `Spec => []NeverOverdrawn` |
| `OneSettlement` | `Spec => []HandsSettleOnce` |
| `OneReward` | `Spec => []VotesCountOnce` |
| `ClaimsSeen` | `Spec => []NoClaimHidden` |

`IInv` has a part per concern. `TasksOK`: what a command has read keeps its form (an amount is natural, the
two factions of an annexation differ), however stale. `HandsOK`: a row names a dealt hand of its own
faction, and no two rows the same one; so removing the row is settling that hand. `LookupsOK`: a fresh
lookup that has seen no claim where there is one is followed by an `Invalidate` that has not run yet. The
assumptions (`FactionsAssumption`) are that wagers are positive and prices natural.

`GlobalXPProofs` proves, for any users, any number of minutes and batches, and periods of any length in
the order the code has:

| Theorem | Statement |
|---|---|
| `TypeCorrect` | `Spec => []TypeOK` |
| `TotalsAlwaysAgree` | `Spec => []TotalsAgree`, with the XP of minutes deleted for their age |
| `PausesAreKept` | `Spec => []NoXPWhilePaused` |
| `EvictionIsSafe` | `Spec => []CleanIsStored` |
| `LedgerImplemented` | `Spec => ImplementsLedger`: each step is a settlement of `Ledger`, or none |

A user has up to four checkpoints at a time: in memory, in the pending batch, in the table, and read but
not yet kept. Which one is used next depends on a crash, a lost answer or an eviction, so `IInv` says of
each that it knows enough:
- `ShapeOK`, `TimesOK`: who has something pending is in memory, nothing was made in the future, and what
  memory holds is not behind what was put in the batch;
- `CreditOK`: each checkpoint has seen every credited message, the awards in memory and those of a batch
  that is not `Committed` (whose receipt is not in the table) were never credited;
- `PayOK`: nothing is booked for later;
- `PauseOK`: each covers every pause of the audit that nobody lifted, and neither tables nor memory nor
  the batch book anything in a minute that begins after a flag and ends within its pause;
- `OwnOK`: in the minute of a flag awards before it are legitimate until the flag is written, which
  clears them: they were sent with it or before it. Once the flag is sent memory earns nothing more in
  that minute, once it is on record the table has nothing there, nor has a batch still to be written;
- `CleanOK`: who is not dirty is stored as in memory, or as in the batch once that is committed.
`TotalsAgree` compares sums over minutes, which are folds over finite sets. The library's induction
theorems cannot be instantiated, but a smallest counterexample is a set, and finite sets are
well-founded: `SmallestMember` gives what induction would, and from it follows that sums are additive
(`SumIsAdditive`): what a booking adds to the minutes it adds to the total, and what the deletion takes
from the minutes it moves to `expired`. The assumptions (`XPAssumption`) are that periods are positive,
a flag's window is at least a minute, a message is fresh no longer than a checkpoint is kept (`Fresh <=
Expire`), and no pause is longer than that: with a longer pause, an evicted checkpoint would forget it.

`GiveawaysProofs` proves, for any members, winners, rerolls and crashes:

| Theorem | Statement |
|---|---|
| `TypeCorrect` | `Spec => []TypeOK` |
| `OneResult` | `Spec => []AnnouncedOnce` |
| `EntriesAreKept` | `Spec => []ToldEntriesAreStored` |
| `RerollsSpareWinners` | `Spec => RerollsAreFresh` |
| `RemovedStaysRemoved` | `Spec => RemovedForGood` |

The record exists in memory and in the file, and the coroutines hold it across awaits. `IInv` says that
who is in the middle of something holds a record and the bot is up (`ShapeOK`); nobody has been told of
a result while either record is active, and a finish that has drawn is the first to announce
(`StageOK`); whoever was told to have won, or is about to be, is a winner wherever the record is kept
(`WinnersOK`), and so with entries (`EntriesOK`). Winners are only added, so a save of whatever moment
keeps this. Half of the actions only go back (a coroutine gives up, a save fails, a crash): they share
the lemma `RetreatSound`. The assumptions are that `None` is not a record, and that members and rerolls
are finite.

`LogArchiveProofs` proves, for any messages, logs, versions, and sizes of the queue, of a batch and of
attachments:

| Theorem | Statement |
|---|---|
| `TypeCorrect` | `Spec => []TypeOK`, the size of the queue and the byte limit included |
| `BytesAreCounted` | `Spec => []FilesAreCounted` |
| `HistoryIsCurrent` | `Spec => []DrainedIsCurrent` |

`DrainedIsCurrent` speaks of the moment when nothing waits. `IInv` says it of every moment: the records
of the batch and then of the queue lead (`Leads`) each row from what the table holds to what
is owed (`OwedOK`). While a clear is between emptying the memory and emptying the tables they lead
an empty table there. The rest of `IInv` is why that survives: the sentinel is the last item
there will be, and a thread that has ended leaves nothing (`QueueOK`); a command that wipes tables runs after
the writer's start, and beside a failed one only when nothing waits (`CommandOK`); a log is told
of its delivery after it was staged, and pending logs of an earlier process are
marked lost by the start (`LogsOK`). What a batch does and what a queue weighs are folds over sequences of
any length; the first part of the module unfolds them by smallest counterexample, into what one more item does.
The assumption is that `None` is neither a row nor a record.

Together the theorems state every invariant and every action property of the runs that pass. Only
model-checked:
- all liveness, and the fairness of `Lease` (out of the prover's reach): `ClaimSettles`, `WantedFateRuns`,
  `BusyEnds`, `AutoSyncStores`, `DueGiveawaysEnd`, `WaitersGoOn`, `LockdownEnds`;
- the findings, which are counterexamples.

## 5. Findings

1. **The monitor can undo a stop** (`control_stop`). It looks at `desired_running` after its
   backoff and then waits for the lock in `start_bot()`, which sets it to true without a further look. A
   client's plain stop that is in front of it in the queue is answered with success and then undone.
2. **A lost acknowledgement of an insert loses a later change** (`configcache_lost`). The retry
   inserts a newer document, MongoDB refuses it as a duplicate, the refusal is taken for success.
3. **A member can be banned for ever by a temporary ban** (`antiraid_forgotten`).
   `unlock_guild()` empties `temporary_bans` after awaiting the unbans of a copy; who was banned
   meanwhile is forgotten. No fault is needed, only a join just before the lockdown ends.

## 6. What could come next

- A composition of `FateControl`'s spawn with `Lease` in the place of the handoff: a restart by
  the supervisor against the lease of the instance that is still closing; and the bot's `close()` with
  `ConfigCache` (`fate.py:1135` closes the MongoDB clients before the caches that flush into them).
- `cache_rewrite.py` (leaving a context deletes the instance others use, a removal drops a
  newer pending set), the configuration store's revisions, backups, the rate limiter.
