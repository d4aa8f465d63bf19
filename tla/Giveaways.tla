------------------------------ MODULE Giveaways ------------------------------
(***************************************************************************)
(* One button giveaway: cogs/utility/giveaways.py. Its record is kept in   *)
(* memory and in a JSON file that every save_data() writes as a whole,     *)
(* under the file's lock and by way of a temporary file, so that a save is *)
(* one step: it stores what the memory holds when it gets the lock.        *)
(*                                                                         *)
(* The record is created, entered, finished by its task or by a command,   *)
(* rerolled and deleted by coroutines that interleave at their awaits; the *)
(* bot may crash between any two steps, and starts again from the file.    *)
(***************************************************************************)
EXTENDS Naturals, FiniteSets, FiniteSetsExt

CONSTANTS Users,         \* members who may press the button
          Fickle,        \* bound: those who may press it again
          Rerolls,       \* /giveaway reroll commands that may overlap
          WinnerCount,
          MaxCrashes,    \* bound: crashes of the bot
          None

ASSUME GiveawayAssumption ==
    /\ IsFiniteSet(Users) /\ IsFiniteSet(Rerolls) /\ Fickle \subseteq Users
    /\ WinnerCount \in Nat \ {0}
    /\ MaxCrashes \in Nat

VARIABLES
    up, crashes,             \* the process
    rec, listed,             \* the record, and whether self.data still holds it
    disk,                    \* the record in the file, or None
    task,                    \* run_giveaway; "broken" if a connection error left none
    finish,                  \* the finish_giveaway() that holds the finish lock
    entry,                   \* toggle_entry(), per member
    create, delete, reroll,  \* the commands
    msg, due,                \* Discord: the message, and the deadline
    told, announced, results \* history: what members heard, and how often

process == <<up, crashes>>
memory == <<rec, listed>>
commands == <<create, delete, reroll>>
discord == <<msg, due>>
history == <<told, announced, results>>
vars == <<process, memory, disk, task, finish, entry, commands, discord, history>>

Record == [status : {"active", "ended"}, posted : BOOLEAN,
           entrants : SUBSET Users, winners : SUBSET Users]

ASSUME NoneAssumption == None \notin Record

\* Mutant of NewRecord: a giveaway is scheduled before its message is sent.
Scheduled == [status |-> "scheduled", posted |-> FALSE, entrants |-> {}, winners |-> {}]
NewRecord == [status |-> "active", posted |-> FALSE, entrants |-> {}, winners |-> {}]

Finish == [at : {"idle", "fetching", "collecting", "saving", "announcing"},
           by : {"task", "command"},
           who : SUBSET Users]   \* the entrants it collected, then its winners
NoFinish == [at |-> "idle", by |-> "command", who |-> {}]

Reroll == [at : {"idle", "fetching", "saving", "announcing"}, picked : SUBSET Users]
NoReroll == [at |-> "idle", picked |-> {}]

TypeOK ==
    /\ up \in BOOLEAN /\ crashes \in 0..MaxCrashes
    /\ rec \in Record \cup {None} /\ listed \in BOOLEAN
    /\ disk \in Record \cup {None}
    /\ task \in {"none", "broken", "asleep", "finishing"}
    /\ finish \in Finish
    /\ entry \in [Users -> {"idle", "saving"}]
    /\ create \in {"none", "sending", "saving", "done"}
    /\ delete \in {"idle", "deleting"}
    /\ reroll \in [Rerolls -> Reroll]
    /\ msg \in {"none", "shown", "gone"}
    /\ due \in BOOLEAN
    /\ told \in [Users -> {"nothing", "entered", "removed"}]
    /\ announced \subseteq Users /\ results \in 0..2

Init ==
    /\ up = TRUE /\ crashes = 0
    /\ rec = None /\ listed = FALSE /\ disk = None
    /\ task = "none" /\ finish = NoFinish
    /\ entry = [u \in Users |-> "idle"]
    /\ create = "none" /\ delete = "idle" /\ reroll = [r \in Rerolls |-> NoReroll]
    /\ msg = "none" /\ due = FALSE
    /\ told = [u \in Users |-> "nothing"] /\ announced = {} /\ results = 0

Active == listed /\ rec.status = "active"
\* Mutant of Memory: a save writes the record its coroutine holds.
HeldRecord == rec

Memory == IF listed THEN rec ELSE None

\* save_data()
Save == disk' = Memory

\* The record leaves self.data. Coroutines in the middle of something keep theirs.
InUse ==
    \/ finish'.at # "idle" \/ create' \in {"sending", "saving"}
    \/ \E u \in Users : entry[u] # "idle"
    \/ \E r \in Rerolls : reroll[r].at # "idle"

Unlisted == listed' = FALSE /\ rec' = IF InUse THEN rec ELSE None

\* remove_giveaway(): the record leaves, and a save follows. It fails, or the
\* bot dies before it, or another save writes the removal first.
Removed == Unlisted /\ disk' \in {None, disk}

\* start_giveaway_task(): one task per active giveaway.
NoTask == task \in {"none", "broken"}
TaskStarted == task' = IF Active /\ NoTask THEN "asleep" ELSE task

\* task.cancel(): with it goes the finish it is in.
TaskCancelled ==
    /\ task' = "none"
    /\ finish' = IF finish.by = "task" THEN NoFinish ELSE finish

------------------------------------------------------------------------------
(* _create_giveaway(): the record is listed before the message is sent. *)

Create ==
    /\ up /\ create = "none"
    /\ rec' = NewRecord /\ listed' = TRUE
    /\ create' = "sending"
    /\ UNCHANGED <<process, disk, task, finish, entry, delete, reroll, discord, history>>

SendMessage ==
    /\ create = "sending" /\ msg = "none"
    /\ msg' = "shown"
    /\ rec' = [rec EXCEPT !.posted = TRUE]
    /\ create' = "saving"
    /\ UNCHANGED <<process, listed, disk, task, finish, entry, delete, reroll, due,
                   history>>

SendFails ==
    /\ create = "sending"
    /\ create' = "done"
    /\ UNCHANGED <<process, disk, task, finish, entry, delete, reroll, discord, history>>
    /\ Unlisted

\* Another error than Discord's leaves the record listed. (Left out: that Discord has
\* sent the message all the same. The record would not know it.)
SendBreaksOff ==
    /\ create = "sending"
    /\ create' = "done"
    /\ UNCHANGED <<process, memory, disk, task, finish, entry, delete, reroll, discord, history>>

CreateSaved ==
    /\ create = "saving"
    /\ Save
    /\ TaskStarted
    /\ create' = "done"
    /\ UNCHANGED <<process, memory, finish, entry, delete, reroll, discord, history>>

\* The exception leaves an active giveaway without a task.
CreateNotSaved ==
    /\ create = "saving"
    /\ create' = "done"
    /\ UNCHANGED <<process, memory, disk, task, finish, entry, delete, reroll, discord, history>>

------------------------------------------------------------------------------
(* toggle_entry(), under the giveaway's entry lock. *)

Pressable == up /\ msg = "shown" /\ Active /\ \A u \in Users : entry[u] = "idle"

\* Up to the save there is no await.
Press(u) ==
    /\ Pressable /\ ~due
    /\ u \in rec.entrants => u \in Fickle
    /\ rec' = [rec EXCEPT !.entrants = IF u \in @ THEN @ \ {u} ELSE @ \cup {u}]
    /\ entry' = [entry EXCEPT ![u] = "saving"]
    /\ told' = [told EXCEPT ![u] = "nothing"]
    /\ UNCHANGED <<process, listed, disk, task, finish, commands, discord, announced, results>>

\* After the deadline a press makes sure that the task runs.
PressLate ==
    /\ Pressable /\ due
    /\ TaskStarted
    /\ UNCHANGED <<process, memory, disk, finish, entry, commands, discord, history>>

\* What a press came to, if Discord takes the edit and the answer.
Heard(u) == told' \in {told, [told EXCEPT ![u] = IF u \in rec.entrants THEN "entered" ELSE "removed"]}

\* Mutant of EntrySaved: the member hears of the entry and nothing is written.
EntryNotWritten(u) ==
    /\ entry[u] = "saving"
    /\ Heard(u)
    /\ entry' = [entry EXCEPT ![u] = "idle"]
    /\ UNCHANGED <<process, memory, disk, task, finish, commands, discord, announced, results>>

\* The answer follows the save. (The edit it makes may enable the button of a
\* giveaway that has ended meanwhile; a press finds that out.)
EntrySaved(u) ==
    /\ entry[u] = "saving"
    /\ Save
    /\ Heard(u)
    /\ entry' = [entry EXCEPT ![u] = "idle"]
    /\ UNCHANGED <<process, memory, task, finish, commands, discord, announced, results>>

EntryNotSaved(u) ==
    /\ entry[u] = "saving"
    /\ entry' = [entry EXCEPT ![u] = "idle"]
    /\ UNCHANGED <<process, memory, disk, task, finish, commands, discord, history>>

------------------------------------------------------------------------------
(* run_giveaway() and finish_giveaway(), under the giveaway's finish lock. *)

\* Mutant of BeginFinish: the status is not looked at again under the lock.
BeginStale(by) ==
    /\ up /\ listed /\ finish.at = "idle"
    /\ by = "task" => due /\ task = "asleep"
    /\ finish' = [at |-> "fetching", by |-> by, who |-> {}]
    /\ task' = IF by = "task" THEN "finishing" ELSE task
    /\ UNCHANGED <<process, memory, disk, entry, commands, discord, history>>

BeginFinish(by) ==
    /\ up /\ Active /\ finish.at = "idle"
    /\ by = "task" => due /\ task = "asleep"
    /\ finish' = [at |-> "fetching", by |-> by, who |-> {}]
    /\ task' = IF by = "task" THEN "finishing" ELSE task
    /\ UNCHANGED <<process, memory, disk, entry, commands, discord, history>>

\* The task wakes up for a giveaway that somebody else ended or removed.
TaskEnds ==
    /\ task = "asleep" /\ ~Active
    /\ task' = "none"
    /\ UNCHANGED <<process, memory, disk, finish, entry, commands, discord, history>>

\* The coroutine that finishes returns; if it is the task's, the task is done.
FinishLeft(next) ==
    /\ finish' = NoFinish
    /\ task' = IF finish.by = "task" THEN next ELSE task

Readable == rec # None /\ rec.posted /\ msg = "shown"

\* entrant_members() copies the entrants, then looks the members up.
Fetched ==
    /\ finish.at = "fetching" /\ Readable
    /\ finish' = [finish EXCEPT !.at = "collecting", !.who = rec.entrants]
    /\ UNCHANGED <<process, memory, disk, task, entry, commands, discord, history>>

\* remove_giveaway(): NotFound, Forbidden or a server that is gone.
RemovedByFinish ==
    /\ finish.at = "fetching"
    /\ FinishLeft("none")
    /\ UNCHANGED <<process, entry, commands, discord, history>>
    /\ Removed

FetchGone == ~Readable /\ RemovedByFinish
FetchForbidden == Readable /\ RemovedByFinish

\* Mutant of FetchFails: the task does not try again.
FetchGivenUp ==
    /\ finish.at = "fetching"
    /\ FinishLeft("none")
    /\ UNCHANGED <<process, memory, disk, entry, commands, discord, history>>

\* Any other HTTPException: the command fails, the task retries in a minute.
FetchFails ==
    /\ finish.at = "fetching"
    /\ FinishLeft("asleep")
    /\ UNCHANGED <<process, memory, disk, entry, commands, discord, history>>

\* A connection error is no HTTPException: out of the fetch of the message or of a member
\* it ends the command, or the task, and nothing starts that again before a late press,
\* on_ready or a restart.
FinishBreaksOff ==
    /\ finish.at \in {"fetching", "collecting"}
    /\ FinishLeft(IF Active THEN "broken" ELSE "none")
    /\ UNCHANGED <<process, memory, disk, entry, commands, discord, history>>

\* draw_winners() chooses among the members who are there and eligible at that
\* moment, and excludes nobody when that leaves nobody.
Candidates(present, excluded) ==
    IF present \subseteq excluded THEN present ELSE present \ excluded

Draws(present, count, excluded) ==
    LET c == Candidates(present, excluded)
    IN  kSubset(IF Cardinality(c) < count THEN Cardinality(c) ELSE count, c)

DrawWinners ==
    /\ finish.at = "collecting"
    /\ \E present \in SUBSET finish.who :
       \E winners \in Draws(present, WinnerCount, {}) :
          /\ rec' = [rec EXCEPT !.status = "ended", !.winners = winners]
          /\ finish' = [finish EXCEPT !.at = "saving", !.who = winners]
    /\ UNCHANGED <<process, listed, disk, task, entry, commands, discord, history>>

ResultSaved ==
    /\ finish.at = "saving"
    /\ Save
    /\ finish' = [finish EXCEPT !.at = "announcing"]
    /\ UNCHANGED <<process, memory, task, entry, commands, discord, history>>

ResultNotSaved ==
    /\ finish.at = "saving"
    /\ FinishLeft("none")
    /\ UNCHANGED <<process, memory, disk, entry, commands, discord, history>>

\* The message is edited, the result sent, and the winners get their role and
\* message; errors of Discord are suppressed in each.
Announce ==
    /\ finish.at = "announcing"
    /\ \/ /\ results' = IF results < 2 THEN results + 1 ELSE 2
          /\ announced' = announced \cup finish.who
       \/ UNCHANGED <<results, announced>>
    /\ FinishLeft("none")
    /\ UNCHANGED <<process, memory, disk, entry, commands, discord, told>>

------------------------------------------------------------------------------
(* delete_giveaway(), and the listeners for a deleted channel or a lost server *)

BeginDelete ==
    /\ up /\ listed /\ delete = "idle"
    /\ TaskCancelled
    /\ delete' = "deleting"
    /\ UNCHANGED <<process, memory, disk, entry, create, reroll, discord, history>>

\* The message is deleted if Discord lets it be, then the record.
DropRecord ==
    /\ delete = "deleting"
    /\ msg' \in {msg, IF Readable THEN "gone" ELSE msg}
    /\ UNCHANGED <<process, task, finish, entry, create, reroll, due, history>>
    /\ Removed
    /\ delete' = "idle"

\* A connection error ends the command before that; the task has been cancelled.
DeleteBreaksOff ==
    /\ delete = "deleting"
    /\ msg' \in {msg, IF Readable THEN "gone" ELSE msg}
    /\ delete' = "idle"
    /\ UNCHANGED <<process, memory, disk, task, finish, entry, create, reroll, due, history>>

PlaceDeleted ==
    /\ msg # "gone" /\ create # "none"
    /\ msg' = "gone"
    /\ UNCHANGED <<process, entry, commands, due, history>>
    /\ IF listed THEN TaskCancelled /\ Removed
                 ELSE UNCHANGED <<task, finish, memory, disk>>

\* A save for another giveaway of the file, or for a deleted role.
SaveOther ==
    /\ up /\ disk # Memory
    /\ Save
    /\ UNCHANGED <<process, memory, task, finish, entry, commands, discord, history>>

------------------------------------------------------------------------------
(* reroll_giveaway() takes no lock. *)

\* Bounds: it begins while no creation, entry or deletion is under way (a deletion
\* may begin before it is over), and takes the first name that is free.
BeginReroll(r) ==
    /\ up /\ listed /\ rec.status = "ended"
    /\ create = "done" /\ delete = "idle" /\ \A u \in Users : entry[u] = "idle"
    /\ reroll[r].at = "idle"
    /\ r = CHOOSE q \in Rerolls : reroll[q].at = "idle"
    /\ reroll' = [reroll EXCEPT ![r].at = "fetching"]
    /\ UNCHANGED <<process, memory, disk, task, finish, entry, create, delete, discord, history>>

\* The message is gone, or none of those who entered is.
RerollInVain(r) ==
    /\ reroll[r].at = "fetching"
    /\ reroll' = [reroll EXCEPT ![r] = NoReroll]
    /\ UNCHANGED <<process, memory, disk, task, finish, entry, create, delete, discord, history>>

\* Mutant of PickWinners: earlier winners are not excluded.
PickAnybody(r, present) ==
    /\ reroll[r].at = "fetching" /\ Readable
    /\ present \subseteq rec.entrants
    /\ \E picked \in Draws(present, 1, {}) \ {{}} :
          /\ rec' = [rec EXCEPT !.winners = @ \cup picked]
          /\ reroll' = [reroll EXCEPT ![r] = [at |-> "saving", picked |-> picked]]
    /\ UNCHANGED <<process, listed, disk, task, finish, entry, create, delete, discord, history>>

\* The record may have been removed since it was found. Nobody can enter an ended
\* giveaway: its entrants are those at the draw. One winner is drawn, as the
\* command does by default.
PickWinners(r, present) ==
    /\ reroll[r].at = "fetching" /\ Readable
    /\ present \subseteq rec.entrants
    /\ \E picked \in Draws(present, 1, rec.winners) \ {{}} :
          /\ rec' = [rec EXCEPT !.winners = @ \cup picked]
          /\ reroll' = [reroll EXCEPT ![r] = [at |-> "saving", picked |-> picked]]
    /\ UNCHANGED <<process, listed, disk, task, finish, entry, create, delete, discord, history>>

RerollSaved(r) ==
    /\ reroll[r].at = "saving"
    /\ Save
    /\ reroll' = [reroll EXCEPT ![r].at = "announcing"]
    /\ UNCHANGED <<process, memory, task, finish, entry, create, delete, discord, history>>

RerollNotSaved(r) ==
    /\ reroll[r].at = "saving"
    /\ reroll' = [reroll EXCEPT ![r] = NoReroll]
    /\ UNCHANGED <<process, memory, disk, task, finish, entry, create, delete, discord, history>>

\* An error of the send ends the command before the rewards.
AnnounceReroll(r) ==
    /\ reroll[r].at = "announcing"
    /\ announced' \in {announced, announced \cup reroll[r].picked}
    /\ reroll' = [reroll EXCEPT ![r] = NoReroll]
    /\ UNCHANGED <<process, memory, disk, task, finish, entry, create, delete, discord, told,
                   results>>

------------------------------------------------------------------------------
(* The process *)

Crash ==
    /\ up /\ crashes < MaxCrashes
    /\ up' = FALSE /\ crashes' = crashes + 1
    /\ rec' = None /\ listed' = FALSE
    /\ task' = "none" /\ finish' = NoFinish
    /\ entry' = [u \in Users |-> "idle"]
    /\ create' = IF create = "none" THEN "none" ELSE "done"
    /\ delete' = "idle" /\ reroll' = [r \in Rerolls |-> NoReroll]
    /\ UNCHANGED <<disk, discord, history>>

\* __init__ and cog_load() read the file, on_ready starts the tasks. An ended
\* giveaway older than thirty days is dropped, and the file written.
Restart ==
    /\ ~up
    /\ up' = TRUE
    /\ \/ UNCHANGED disk
       \/ disk # None /\ disk.status = "ended" /\ disk' = None
    /\ rec' = disk' /\ listed' = (disk' # None)
    /\ task' = IF disk' # None /\ disk'.status = "active" THEN "asleep" ELSE task
    /\ UNCHANGED <<crashes, finish, entry, commands, discord, history>>

\* on_ready comes again whenever the gateway session is renewed.
Resume ==
    /\ up /\ Active /\ NoTask
    /\ TaskStarted
    /\ UNCHANGED <<process, memory, disk, finish, entry, commands, discord, history>>

(* Discord and the clock *)

Deadline ==
    /\ ~due /\ create # "none"
    /\ due' = TRUE
    /\ UNCHANGED <<process, memory, disk, task, finish, entry, commands, msg, history>>

MessageDeleted ==
    /\ msg = "shown"
    /\ msg' = "gone"
    /\ UNCHANGED <<process, memory, disk, task, finish, entry, commands, due, history>>

Creating == SendMessage \/ SendFails \/ SendBreaksOff \/ CreateSaved \/ CreateNotSaved
Entering(u) == Press(u) \/ EntrySaved(u) \/ EntryNotSaved(u)
Concluding == DrawWinners \/ ResultSaved \/ ResultNotSaved \/ Announce
Rerolling(r) ==
    \/ BeginReroll(r) \/ RerollInVain(r) \/ \E present \in SUBSET Users : PickWinners(r, present)
    \/ RerollSaved(r) \/ RerollNotSaved(r) \/ AnnounceReroll(r)

Next ==
    \/ Create \/ Creating
    \/ \E u \in Users : Entering(u)
    \/ PressLate
    \/ \E by \in {"task", "command"} : BeginFinish(by)
    \/ TaskEnds \/ Fetched \/ FetchGone \/ FetchForbidden \/ FetchFails
    \/ FinishBreaksOff \/ Concluding
    \/ BeginDelete \/ DropRecord \/ DeleteBreaksOff \/ PlaceDeleted \/ SaveOther
    \/ \E r \in Rerolls : Rerolling(r)
    \/ Crash \/ Restart \/ Resume \/ Deadline \/ MessageDeleted

Spec == Init /\ [][Next]_vars

\* A finish under way goes on, a crashed bot is started again and gets ready, the finish
\* lock is first come first served, and Discord answers a fetch that the task tries again
\* and again. Nothing forces a press, a command, a crash or a failure.
FairSpec ==
    /\ Spec
    /\ WF_vars(Concluding) /\ WF_vars(Restart)
    /\ WF_vars(finish.by = "command" /\ (Fetched \/ FetchGone \/ FetchFails))
    /\ SF_vars(finish.by = "task" /\ (Fetched \/ FetchGone))
    /\ SF_vars(BeginFinish("task"))

------------------------------------------------------------------------------
(* What the cog owes its members. *)

\* The result is announced at most once, and whoever was told to have won is among
\* the winners the file names, though the task and /giveaway end race for the
\* finish, rerolls overlap, a fetch is retried, a save fails or the bot dies in the
\* middle: no restart draws somebody else for the prize.
AnnouncedOnce ==
    /\ results <= 1
    /\ disk # None => announced \subseteq disk.winners

\* What a member was last told about their entry is what the file says: neither
\* a crash nor a save of another handler takes a confirmed entry back. With a new press
\* the member waits for a new answer: when its save fails, none comes, the old one no
\* longer counts, and a later save may write what the press changed.
ToldEntriesAreStored ==
    \A u \in Users :
        disk # None => /\ told[u] = "entered" => u \in disk.entrants
                       /\ told[u] = "removed" => u \notin disk.entrants

\* A reroll gives the prize to somebody who was already told to have won only
\* when no other eligible entry is left, other rerolls and restarts included.
RerollsAreFresh ==
    [][\A r \in Rerolls :
          (reroll'[r].picked \ reroll[r].picked) \cap announced # {} =>
              \A present \in SUBSET Users : PickWinners(r, present) => present \subseteq rec.winners]_vars

\* A giveaway that was removed, from memory and file, stays removed: no save of
\* a coroutine that still holds the record and no restart brings it back.
RemovedForGood ==
    [][~listed /\ create = "done" /\ disk = None => disk' = None]_vars

\* A giveaway with a task, or one that a restart will find, ends or is removed
\* once its time has come, whatever is retried, refused, raced or restarted, unless a
\* connection error ends its task, or a deletion takes it in hand: that cancels the task
\* and may be ended by such an error before the record is gone.
Pending == IF up THEN Active /\ ~NoTask
                 ELSE disk # None /\ disk.status = "active"
Over == IF up THEN ~Active ELSE disk = None \/ disk.status = "ended"
DueGiveawaysEnd == due /\ Pending ~> Over \/ task = "broken" \/ delete = "deleting"
==============================================================================
