--------------------------- MODULE GiveawaysProofs ---------------------------
(***************************************************************************)
(* What the cog owes its members holds for any number of members, winners, *)
(* rerolls and crashes.                                                    *)
(*                                                                         *)
(* The argument: a coroutine in the middle of something holds a record,    *)
(* and the bot is up (ShapeOK). Nobody has been told of a result while the *)
(* record, in memory or in the file, is active, and a finish that has      *)
(* drawn is the first to announce (StageOK). Winners are only ever added:  *)
(* whoever was told to have won, or is about to be, is a winner wherever   *)
(* the record is kept (WinnersOK), and so with entries (EntriesOK).        *)
(***************************************************************************)
EXTENDS Giveaways, TLAPS

Coming ==
    \/ finish.at # "idle" \/ create \in {"sending", "saving"}
    \/ \E u \in Users : entry[u] # "idle"
    \/ \E r \in Rerolls : reroll[r].at # "idle"

ShapeOK ==
    /\ listed => rec # None
    /\ Coming => rec # None
    /\ rec # None => up
    /\ create = "none" =>
          /\ rec = None /\ disk = None
          /\ results = 0 /\ announced = {} /\ told = [u \in Users |-> "nothing"]

Undecided == results = 0 /\ announced = {}

\* Which stages of the coroutines go with which status of the record.
StageOK ==
    /\ results <= 1
    /\ rec # None /\ rec.status = "active" => Undecided
    /\ disk # None /\ disk.status = "active" => Undecided
    /\ finish.at \in {"fetching", "collecting"} => rec.status = "active"
    /\ finish.at \in {"saving", "announcing"} => rec.status = "ended" /\ results = 0
    /\ \A r \in Rerolls : reroll[r].at # "idle" => rec.status = "ended"
    /\ finish.at = "announcing" \/ (\E r \in Rerolls : reroll[r].at = "announcing") =>
          disk = None \/ disk.status = "ended"

\* Those who have won by every record there is.
Won(ws) ==
    /\ rec # None => ws \subseteq rec.winners
    /\ disk # None => ws \subseteq disk.winners

WinnersOK ==
    /\ Won(announced)
    /\ finish.at = "saving" => finish.who \subseteq rec.winners
    /\ finish.at = "announcing" => Won(finish.who)
    /\ \A r \in Rerolls : /\ reroll[r].at = "saving" => reroll[r].picked \subseteq rec.winners
                          /\ reroll[r].at = "announcing" => Won(reroll[r].picked)

Agrees(record) ==
    \A u \in Users : /\ told[u] = "entered" => u \in record.entrants
                     /\ told[u] = "removed" => u \notin record.entrants

EntriesOK ==
    /\ rec # None => Agrees(rec)
    /\ disk # None => Agrees(disk)

IInv == TypeOK /\ ShapeOK /\ StageOK /\ WinnersOK /\ EntriesOK

------------------------------------------------------------------------------
(* The operators of the model *)

\* A record that is there is a record.
LEMMA RecordsThere ==
    ASSUME TypeOK
    PROVE  /\ rec # None => rec \in Record
           /\ disk # None => disk \in Record
BY DEF TypeOK

\* Nobody is drawn who is not present, nor one who is excluded while others are there.
LEMMA DrawnArePresent ==
    ASSUME NEW present, NEW count, NEW excluded, NEW ws \in Draws(present, count, excluded)
    PROVE  /\ ws \subseteq present
           /\ ~(present \subseteq excluded) => ws \cap excluded = {}
BY DEF Draws, Candidates, kSubset

\* remove_giveaway() and its like: the record leaves the list, and leaves the
\* memory once no coroutine is in the middle of something.
LEMMA Unlisting ==
    ASSUME Unlisted, UNCHANGED <<entry, reroll>>
    PROVE  /\ listed' = FALSE
           /\ rec' \in {rec, None}
           /\ Coming' => rec' = rec
BY DEF Unlisted, InUse, Coming

------------------------------------------------------------------------------
(* Every variable keeps its type. *)

LEMMA IdleTyped == NoFinish \in Finish /\ NoReroll \in Reroll
BY DEF NoFinish, Finish, NoReroll, Reroll

LEMMA MemoryTyped ==
    ASSUME TypeOK
    PROVE  Memory \in Record \cup {None}
BY DEF TypeOK, Memory

LEMMA TypeCreating ==
    ASSUME IInv, Create \/ Creating
    PROVE  TypeOK'
<1> USE DEF TypeOK, process, memory, commands, discord, history
<1>1. TypeOK BY DEF IInv
<1>2. CASE Create BY <1>1, <1>2 DEF Create, NewRecord, Record
<1>3. CASE SendMessage
  <2>1. rec \in Record BY <1>3, RecordsThere DEF SendMessage, IInv, ShapeOK, Coming
  <2>2. [rec EXCEPT !.posted = TRUE] \in Record BY <2>1 DEF Record
  <2> QED BY <1>1, <1>3, <2>2 DEF SendMessage
<1>4. CASE SendFails BY <1>1, <1>4 DEF SendFails, Unlisted
<1>5. CASE CreateSaved BY <1>1, <1>5, MemoryTyped DEF CreateSaved, Save, TaskStarted
<1>6. CASE SendBreaksOff \/ CreateNotSaved BY <1>1, <1>6 DEF SendBreaksOff, CreateNotSaved
<1> QED BY <1>2, <1>3, <1>4, <1>5, <1>6 DEF Creating

LEMMA TypeEntering ==
    ASSUME IInv, PressLate \/ \E u \in Users : Entering(u)
    PROVE  TypeOK'
<1> USE DEF TypeOK, process, memory, commands, discord, history
<1>1. TypeOK BY DEF IInv
<1>2. CASE PressLate BY <1>1, <1>2 DEF PressLate, TaskStarted
<1>3. ASSUME NEW u \in Users, Press(u) PROVE TypeOK'
  <2>1. rec \in Record
      BY <1>3, RecordsThere DEF Press, Pressable, Active, IInv, ShapeOK
  <2>2. [rec EXCEPT !.entrants = IF u \in @ THEN @ \ {u} ELSE @ \cup {u}] \in Record
      BY <2>1 DEF Record
  <2> QED BY <1>1, <1>3, <2>2 DEF Press
<1>4. ASSUME NEW u \in Users, EntrySaved(u) PROVE TypeOK'
    BY <1>1, <1>4, MemoryTyped DEF EntrySaved, Save, Heard
<1>5. ASSUME NEW u \in Users, EntryNotSaved(u) PROVE TypeOK'
    BY <1>1, <1>5 DEF EntryNotSaved
<1> QED BY <1>2, <1>3, <1>4, <1>5 DEF Entering

LEMMA TypeFinishing ==
    ASSUME IInv,
           \/ \E by \in {"task", "command"} : BeginFinish(by)
           \/ TaskEnds \/ Fetched \/ FetchGone \/ FetchForbidden \/ FetchFails
           \/ FinishBreaksOff
    PROVE  TypeOK'
<1> USE DEF TypeOK, process, memory, commands, discord, history
<1>1. TypeOK BY DEF IInv
<1>2. ASSUME NEW by \in {"task", "command"}, BeginFinish(by) PROVE TypeOK'
    BY <1>1, <1>2 DEF BeginFinish, Finish
<1>3. CASE TaskEnds BY <1>1, <1>3 DEF TaskEnds
<1>4. CASE Fetched
  <2>1. rec.entrants \in SUBSET Users BY <1>4, RecordsThere, <1>1 DEF Fetched, Readable, Record
  <2>2. [finish EXCEPT !.at = "collecting", !.who = rec.entrants] \in Finish
      BY <1>1, <2>1 DEF Finish
  <2> QED BY <1>1, <1>4, <2>2 DEF Fetched
<1>5. CASE FetchGone \/ FetchForbidden
  <2>1. RemovedByFinish BY <1>5 DEF FetchGone, FetchForbidden
  <2>2. UNCHANGED <<entry, reroll>> BY <2>1 DEF RemovedByFinish
  <2>3. finish' = NoFinish /\ task' \in {"none", task} BY <2>1 DEF RemovedByFinish, FinishLeft
  <2>4. listed' = FALSE /\ rec' \in {rec, None} /\ disk' \in {None, disk}
      BY <2>1, <2>2, Unlisting DEF RemovedByFinish, Removed
  <2> QED BY <1>1, <2>1, <2>3, <2>4, IdleTyped DEF RemovedByFinish
<1>6. CASE FetchFails \/ FinishBreaksOff
    BY <1>1, <1>6, IdleTyped DEF FetchFails, FinishBreaksOff, FinishLeft
<1> QED BY <1>2, <1>3, <1>4, <1>5, <1>6

LEMMA TypeConcluding ==
    ASSUME IInv, Concluding
    PROVE  TypeOK'
<1> USE DEF TypeOK, process, memory, commands, discord, history
<1>1. TypeOK BY DEF IInv
<1>2. CASE DrawWinners
  <2>1. rec \in Record BY <1>2, RecordsThere DEF DrawWinners, IInv, ShapeOK, Coming
  <2>2. finish.who \subseteq Users BY <1>1 DEF Finish
  <2>3. PICK present \in SUBSET finish.who : \E winners \in Draws(present, WinnerCount, {}) :
           /\ rec' = [rec EXCEPT !.status = "ended", !.winners = winners]
           /\ finish' = [finish EXCEPT !.at = "saving", !.who = winners]
      BY <1>2 DEF DrawWinners
  <2>. PICK winners \in Draws(present, WinnerCount, {}) :
           /\ rec' = [rec EXCEPT !.status = "ended", !.winners = winners]
           /\ finish' = [finish EXCEPT !.at = "saving", !.who = winners]
      BY <2>3
  <2>4. winners \subseteq Users BY <2>2, DrawnArePresent
  <2>5. rec' \in Record BY <2>1, <2>3, <2>4 DEF Record
  <2>6. finish' \in Finish BY <1>1, <2>3, <2>4 DEF Finish
  <2> QED BY <1>1, <1>2, <2>5, <2>6 DEF DrawWinners
<1>3. CASE ResultSaved
  <2>1. [finish EXCEPT !.at = "announcing"] \in Finish BY <1>1 DEF Finish
  <2> QED BY <1>1, <1>3, <2>1, MemoryTyped DEF ResultSaved, Save
<1>4. CASE ResultNotSaved BY <1>1, <1>4, IdleTyped DEF ResultNotSaved, FinishLeft
<1>5. CASE Announce
  <2>1. finish.who \subseteq Users BY <1>1 DEF Finish
  <2> QED BY <1>1, <1>5, <2>1, IdleTyped DEF Announce, FinishLeft
<1> QED BY <1>2, <1>3, <1>4, <1>5 DEF Concluding

LEMMA TypeRemoving ==
    ASSUME IInv, BeginDelete \/ DropRecord \/ DeleteBreaksOff \/ PlaceDeleted \/ SaveOther
    PROVE  TypeOK'
<1> USE DEF TypeOK, process, memory, commands, discord, history
<1>1. TypeOK BY DEF IInv
<1>2. CASE BeginDelete BY <1>1, <1>2, IdleTyped DEF BeginDelete, TaskCancelled
<1>3. CASE DropRecord BY <1>1, <1>3 DEF DropRecord, Removed, Unlisted
<1>4. CASE PlaceDeleted
  <2>1. CASE listed
    <3>1. task' = "none" /\ finish' \in {NoFinish, finish}
        BY <1>4, <2>1 DEF PlaceDeleted, TaskCancelled
    <3>2. listed' = FALSE /\ rec' \in {rec, None} /\ disk' \in {None, disk}
        BY <1>4, <2>1, Unlisting DEF PlaceDeleted, Removed
    <3> QED BY <1>1, <1>4, <3>1, <3>2, IdleTyped DEF PlaceDeleted
  <2>2. CASE ~listed BY <1>1, <1>4, <2>2 DEF PlaceDeleted
  <2> QED BY <2>1, <2>2
<1>5. CASE SaveOther BY <1>1, <1>5, MemoryTyped DEF SaveOther, Save
<1>6. CASE DeleteBreaksOff BY <1>1, <1>6 DEF DeleteBreaksOff
<1> QED BY <1>2, <1>3, <1>4, <1>5, <1>6

LEMMA TypeRerolling ==
    ASSUME IInv, NEW r \in Rerolls, Rerolling(r)
    PROVE  TypeOK'
<1> USE DEF TypeOK, process, memory, commands, discord, history
<1>1. TypeOK BY DEF IInv
<1>2. reroll[r] \in Reroll BY <1>1
<1>3. CASE BeginReroll(r)
  <2>1. [reroll[r] EXCEPT !.at = "fetching"] \in Reroll BY <1>2 DEF Reroll
  <2> QED BY <1>1, <1>3, <2>1 DEF BeginReroll
<1>4. CASE RerollInVain(r) \/ RerollNotSaved(r)
    BY <1>1, <1>4, IdleTyped DEF RerollInVain, RerollNotSaved
<1>5. ASSUME NEW present \in SUBSET Users, PickWinners(r, present) PROVE TypeOK'
  <2>1. rec \in Record BY <1>1, <1>5, RecordsThere DEF PickWinners, Readable
  <2>2. PICK picked \in Draws(present, 1, rec.winners) \ {{}} :
           /\ rec' = [rec EXCEPT !.winners = @ \cup picked]
           /\ reroll' = [reroll EXCEPT ![r] = [at |-> "saving", picked |-> picked]]
      BY <1>5 DEF PickWinners
  <2>3. picked \subseteq Users BY <2>2, DrawnArePresent
  <2>4. rec' \in Record BY <2>1, <2>2, <2>3 DEF Record
  <2>5. reroll' \in [Rerolls -> Reroll] BY <1>1, <2>2, <2>3 DEF Reroll
  <2> QED BY <1>1, <1>5, <2>4, <2>5 DEF PickWinners
<1>6. CASE RerollSaved(r)
  <2>1. [reroll[r] EXCEPT !.at = "announcing"] \in Reroll BY <1>2 DEF Reroll
  <2> QED BY <1>1, <1>6, <2>1, MemoryTyped DEF RerollSaved, Save
<1>7. CASE AnnounceReroll(r)
  <2>1. reroll[r].picked \subseteq Users BY <1>2 DEF Reroll
  <2> QED BY <1>1, <1>7, <2>1, IdleTyped DEF AnnounceReroll
<1> QED BY <1>3, <1>4, <1>5, <1>6, <1>7 DEF Rerolling

LEMMA TypeProcess ==
    ASSUME IInv, Crash \/ Restart \/ Resume \/ Deadline \/ MessageDeleted
    PROVE  TypeOK'
<1> USE DEF TypeOK, process, memory, commands, discord, history
<1>1. TypeOK BY DEF IInv
<1>2. CASE Crash
  <2>1. crashes' \in 0..MaxCrashes BY <1>1, <1>2, GiveawayAssumption DEF Crash
  <2>2. reroll' \in [Rerolls -> Reroll] BY <1>2, IdleTyped DEF Crash
  <2>3. finish' \in Finish BY <1>2, IdleTyped DEF Crash
  <2>4. create' \in {"none", "done"} BY <1>2 DEF Crash
  <2> QED BY <1>1, <1>2, <2>1, <2>2, <2>3, <2>4 DEF Crash
<1>3. CASE Restart BY <1>1, <1>3 DEF Restart
<1>4. CASE Resume BY <1>1, <1>4 DEF Resume, TaskStarted
<1>5. CASE Deadline \/ MessageDeleted BY <1>1, <1>5 DEF Deadline, MessageDeleted
<1> QED BY <1>2, <1>3, <1>4, <1>5

LEMMA TypeStep ==
    ASSUME IInv, Next
    PROVE  TypeOK'
BY TypeCreating, TypeEntering, TypeFinishing, TypeConcluding, TypeRemoving, TypeRerolling,
   TypeProcess DEF Next

------------------------------------------------------------------------------
(* The rest of the invariant *)

Sound == ShapeOK /\ StageOK /\ WinnersOK /\ EntriesOK

\* Most steps only go back: a coroutine lets go of the record, the record leaves
\* the memory or the file, or the file takes the record of the memory.
Retreat ==
    /\ UNCHANGED history
    /\ rec' \in {rec, None} /\ disk' \in {disk, rec, None}
    /\ listed' => listed /\ rec' = rec
    /\ rec' # None => up'
    /\ create' = "none" => create = "none"
    /\ Coming' => Coming /\ rec' = rec
    /\ finish' \in {finish, NoFinish}
    /\ \A r \in Rerolls : reroll'[r] \in {reroll[r], NoReroll}

LEMMA RetreatSound ==
    ASSUME TypeOK, Sound, Retreat
    PROVE  Sound'
<1>1. /\ UNCHANGED <<told, announced, results>>
      /\ rec' \in {rec, None} /\ disk' \in {disk, rec, None}
      /\ Coming' => rec # None /\ rec' = rec
      /\ finish' = finish \/ finish'.at = "idle"
      /\ \A r \in Rerolls : reroll'[r] = reroll[r] \/ reroll'[r].at = "idle"
    BY DEF Retreat, Sound, ShapeOK, history, NoFinish, NoReroll
<1>2. ShapeOK'
  <2>1. listed' => rec' # None BY DEF Retreat, Sound, ShapeOK
  <2>2. Coming' => rec' # None BY <1>1
  <2>3. rec' # None => up' BY DEF Retreat
  <2>4. ASSUME create' = "none"
        PROVE  /\ rec' = None /\ disk' = None
               /\ results' = 0 /\ announced' = {} /\ told' = [u \in Users |-> "nothing"]
      BY <1>1, <2>4 DEF Retreat, Sound, ShapeOK
  <2> QED BY <2>1, <2>2, <2>3, <2>4 DEF ShapeOK
<1>3. finish'.at # "idle" => finish' = finish /\ rec # None /\ rec' = rec BY <1>1 DEF Coming
<1>4. \A r \in Rerolls : reroll'[r].at # "idle" => reroll'[r] = reroll[r] /\ rec # None /\ rec' = rec
    BY <1>1 DEF Coming
<1>5. StageOK'
  <2>1. results' <= 1 BY <1>1 DEF Sound, StageOK
  <2>2. /\ rec' # None /\ rec'.status = "active" => Undecided'
        /\ disk' # None /\ disk'.status = "active" => Undecided'
      BY <1>1 DEF Sound, StageOK, Undecided
  <2>3. /\ finish'.at \in {"fetching", "collecting"} => rec'.status = "active"
        /\ finish'.at \in {"saving", "announcing"} => rec'.status = "ended" /\ results' = 0
      BY <1>1, <1>3 DEF Sound, StageOK
  <2>4. \A r \in Rerolls : reroll'[r].at # "idle" => rec'.status = "ended"
      BY <1>4 DEF Sound, StageOK
  <2>5. finish'.at = "announcing" \/ (\E r \in Rerolls : reroll'[r].at = "announcing") =>
            disk' = None \/ disk'.status = "ended"
      BY <1>1, <1>3, <1>4 DEF Sound, StageOK
  <2> QED BY <2>1, <2>2, <2>3, <2>4, <2>5 DEF StageOK
<1>6. \A ws : Won(ws) => /\ rec' # None => ws \subseteq rec'.winners
                         /\ disk' # None => ws \subseteq disk'.winners
    BY <1>1 DEF Won
<1>7. WinnersOK'
  <2>1. Won(announced)' BY <1>1, <1>6 DEF Sound, WinnersOK, Won
  <2>2. finish'.at = "saving" => finish'.who \subseteq rec'.winners
      BY <1>3 DEF Sound, WinnersOK
  <2>3. finish'.at = "announcing" => Won(finish.who)' BY <1>3, <1>6 DEF Sound, WinnersOK, Won
  <2>4. ASSUME NEW r \in Rerolls
        PROVE  /\ reroll'[r].at = "saving" => reroll'[r].picked \subseteq rec'.winners
               /\ reroll'[r].at = "announcing" => Won(reroll[r].picked)'
      BY <1>4, <1>6 DEF Sound, WinnersOK, Won
  <2> QED BY <2>1, <2>2, <2>3, <2>4 DEF WinnersOK
<1>8. EntriesOK' BY <1>1 DEF Sound, EntriesOK, Agrees
<1> QED BY <1>2, <1>5, <1>7, <1>8 DEF Sound

\* The steps that change nothing of the record, nor of those who are at it.
LEMMA QuietRetreats ==
    ASSUME IInv,
           \/ PressLate \/ TaskEnds \/ BeginDelete \/ DeleteBreaksOff \/ Resume \/ Deadline
           \/ MessageDeleted
    PROVE  Retreat
<1>1. UNCHANGED <<up, rec, listed, disk, entry, create, reroll, history>>
    BY DEF PressLate, TaskEnds, BeginDelete, DeleteBreaksOff, Resume, Deadline, MessageDeleted,
           process, memory, commands, discord
<1>2. finish' \in {finish, NoFinish}
    BY DEF PressLate, TaskEnds, BeginDelete, DeleteBreaksOff, TaskCancelled, Resume, Deadline,
           MessageDeleted
<1>3. Coming' => Coming BY <1>1, <1>2 DEF Coming, NoFinish
<1> QED BY <1>1, <1>2, <1>3 DEF Retreat, IInv, ShapeOK

\* The steps of a coroutine that gives up.
LEMMA GivingUpRetreats ==
    ASSUME IInv,
           \/ SendBreaksOff \/ CreateNotSaved \/ FetchFails \/ FinishBreaksOff \/ ResultNotSaved
           \/ \E u \in Users : EntryNotSaved(u)
           \/ \E r \in Rerolls : RerollInVain(r) \/ RerollNotSaved(r)
    PROVE  Retreat
<1>1. UNCHANGED <<up, rec, listed, disk, history>>
    BY DEF SendBreaksOff, CreateNotSaved, FetchFails, FinishBreaksOff, ResultNotSaved,
           EntryNotSaved, RerollInVain, RerollNotSaved, process, memory
<1>2. finish' \in {finish, NoFinish}
    BY DEF SendBreaksOff, CreateNotSaved, FetchFails, FinishBreaksOff, ResultNotSaved,
           EntryNotSaved, RerollInVain, RerollNotSaved, FinishLeft
<1>3. create' \in {create, "done"}
    BY DEF SendBreaksOff, CreateNotSaved, FetchFails, FinishBreaksOff, ResultNotSaved,
           EntryNotSaved, RerollInVain, RerollNotSaved, commands
<1>4. \A u \in Users : entry'[u] \in {entry[u], "idle"}
    BY DEF SendBreaksOff, CreateNotSaved, FetchFails, FinishBreaksOff, ResultNotSaved,
           EntryNotSaved, RerollInVain, RerollNotSaved, IInv, TypeOK
<1>5. \A r \in Rerolls : reroll'[r] \in {reroll[r], NoReroll}
    BY DEF SendBreaksOff, CreateNotSaved, FetchFails, FinishBreaksOff, ResultNotSaved,
           EntryNotSaved, RerollInVain, RerollNotSaved, IInv, TypeOK, commands
<1>6. Coming' => Coming BY <1>2, <1>3, <1>4, <1>5 DEF Coming, NoFinish, NoReroll
<1> QED BY <1>1, <1>2, <1>3, <1>5, <1>6 DEF Retreat, IInv, ShapeOK

\* The steps that remove the record, and a crash.
LEMMA RemovalRetreats ==
    ASSUME IInv, SendFails \/ FetchGone \/ FetchForbidden \/ DropRecord \/ PlaceDeleted \/ Crash
    PROVE  Retreat
<1>1. CASE Crash
  <2>1. rec' = None /\ listed' = FALSE /\ UNCHANGED <<disk, history>> BY <1>1 DEF Crash
  <2>2. finish' = NoFinish /\ \A r \in Rerolls : reroll'[r] = NoReroll BY <1>1 DEF Crash
  <2>3. create' \in {"none", "done"} /\ (create' = "none" => create = "none") BY <1>1 DEF Crash
  <2>4. \A u \in Users : entry'[u] = "idle" BY <1>1 DEF Crash
  <2>5. ~Coming' BY <2>2, <2>3, <2>4 DEF Coming, NoFinish, NoReroll
  <2> QED BY <2>1, <2>2, <2>3, <2>5 DEF Retreat
<1>2. CASE ~Crash /\ (PlaceDeleted => listed)
  <2>1. UNCHANGED <<up, history, entry, reroll>>
      BY <1>2 DEF SendFails, FetchGone, FetchForbidden, RemovedByFinish, DropRecord, PlaceDeleted,
                  process, commands
  <2>2. Unlisted /\ disk' \in {None, disk}
      BY <1>2 DEF SendFails, FetchGone, FetchForbidden, RemovedByFinish, DropRecord, PlaceDeleted,
                  Removed
  <2>3. finish' \in {finish, NoFinish}
      BY <1>2 DEF SendFails, FetchGone, FetchForbidden, RemovedByFinish, DropRecord, PlaceDeleted,
                  FinishLeft, TaskCancelled
  <2>4. create' \in {create, "done"}
      BY <1>2 DEF SendFails, FetchGone, FetchForbidden, RemovedByFinish, DropRecord, PlaceDeleted,
                  commands
  <2>5. listed' = FALSE /\ rec' \in {rec, None} /\ (Coming' => rec' = rec)
      BY <2>1, <2>2, Unlisting
  <2>6. Coming' => Coming BY <2>1, <2>3, <2>4 DEF Coming, NoFinish
  <2> QED BY <2>1, <2>2, <2>3, <2>4, <2>5, <2>6 DEF Retreat, IInv, ShapeOK
<1>3. CASE PlaceDeleted /\ ~listed
  <2>1. UNCHANGED <<up, rec, listed, disk, finish, entry, create, reroll, history>>
      BY <1>3 DEF PlaceDeleted, process, memory, commands
  <2> QED BY <2>1 DEF Retreat, Coming, IInv, ShapeOK
<1> QED BY <1>1, <1>2, <1>3

\* The saves that nobody announces.
LEMMA SaveRetreats ==
    ASSUME IInv, CreateSaved \/ SaveOther
    PROVE  Retreat
<1>1. UNCHANGED <<up, rec, listed, finish, entry, reroll, history>>
    BY DEF CreateSaved, SaveOther, process, memory, commands
<1>2. disk' \in {rec, None} BY DEF CreateSaved, SaveOther, Save, Memory
<1>3. create' \in {create, "done"} BY DEF CreateSaved, SaveOther, commands
<1>4. Coming' => Coming BY <1>1, <1>3 DEF Coming
<1> QED BY <1>1, <1>2, <1>3, <1>4 DEF Retreat, IInv, ShapeOK

------------------------------------------------------------------------------
(* The steps that go on, one by one. *)

LEMMA CreateSound ==
    ASSUME IInv, Create
    PROVE  Sound'
<1>1. /\ up' /\ rec' = NewRecord /\ create' = "sending"
      /\ UNCHANGED <<disk, finish, entry, reroll, told, announced, results>>
    BY DEF Create, process, history
<1>2. create = "none" BY DEF Create
<1>3. /\ rec = None /\ disk = None /\ ~Coming
      /\ results = 0 /\ announced = {} /\ told = [u \in Users |-> "nothing"]
    BY <1>2 DEF IInv, ShapeOK
<1>4. /\ finish.at = "idle" /\ \A r \in Rerolls : reroll[r].at = "idle"
    BY <1>3 DEF Coming
<1>5. rec' # None
  <2>1. NewRecord \in Record BY DEF NewRecord, Record
  <2> QED BY <1>1, <2>1, NoneAssumption
<1>6. ShapeOK' BY <1>1, <1>5 DEF ShapeOK
<1>7. StageOK' BY <1>1, <1>3, <1>4 DEF StageOK, Undecided
<1>8. WinnersOK' BY <1>1, <1>3, <1>4 DEF WinnersOK, Won
<1>9. EntriesOK' BY <1>1, <1>3 DEF EntriesOK, Agrees
<1> QED BY <1>6, <1>7, <1>8, <1>9 DEF Sound

LEMMA SendMessageSound ==
    ASSUME IInv, SendMessage, TypeOK'
    PROVE  Sound'
<1>1. /\ rec' = [rec EXCEPT !.posted = TRUE] /\ create' = "saving"
      /\ UNCHANGED <<up, listed, disk, finish, entry, reroll, told, announced, results>>
    BY DEF SendMessage, process, history
<1>2. rec # None /\ rec \in Record /\ up
    BY RecordsThere DEF SendMessage, IInv, ShapeOK, Coming
<1>3. /\ rec'.status = rec.status /\ rec'.winners = rec.winners
      /\ rec'.entrants = rec.entrants /\ rec' \in Record
    BY <1>1, <1>2 DEF Record
<1>4. rec' # None BY <1>3, NoneAssumption
<1>5. ShapeOK' BY <1>1, <1>2, <1>4 DEF ShapeOK
<1>6. StageOK' BY <1>1, <1>2, <1>3 DEF IInv, StageOK, Undecided
<1>7. WinnersOK' BY <1>1, <1>2, <1>3 DEF IInv, WinnersOK, Won
<1>8. EntriesOK' BY <1>1, <1>2, <1>3 DEF IInv, EntriesOK, Agrees
<1> QED BY <1>5, <1>6, <1>7, <1>8 DEF Sound

\* A press forgets what its member was told; the record in the file stays as it is.
LEMMA PressSound ==
    ASSUME IInv, NEW u \in Users, Press(u)
    PROVE  Sound'
<1>1. /\ rec' = [rec EXCEPT !.entrants = IF u \in @ THEN @ \ {u} ELSE @ \cup {u}]
      /\ told' = [told EXCEPT ![u] = "nothing"]
      /\ UNCHANGED <<up, listed, disk, finish, create, reroll, announced, results>>
    BY DEF Press, process, commands
<1>2. up /\ rec # None /\ rec \in Record /\ rec.status = "active"
    BY RecordsThere DEF Press, Pressable, Active, IInv, ShapeOK
<1>3. /\ rec'.status = rec.status /\ rec'.winners = rec.winners /\ rec' \in Record
      /\ \A w \in Users \ {u} : w \in rec'.entrants <=> w \in rec.entrants
    BY <1>1, <1>2 DEF Record
<1>4. rec' # None BY <1>3, NoneAssumption
<1>5. create # "none" BY <1>2 DEF IInv, ShapeOK
<1>6. ShapeOK' BY <1>1, <1>2, <1>4, <1>5 DEF ShapeOK
<1>7. StageOK' BY <1>1, <1>2, <1>3 DEF IInv, StageOK, Undecided
<1>8. WinnersOK' BY <1>1, <1>2, <1>3 DEF IInv, WinnersOK, Won
<1>9. told \in [Users -> {"nothing", "entered", "removed"}] BY DEF IInv, TypeOK
<1>10. \A w \in Users : told'[w] # "nothing" => w # u /\ told'[w] = told[w] BY <1>1, <1>9
<1>11. EntriesOK' BY <1>1, <1>2, <1>3, <1>10 DEF IInv, EntriesOK, Agrees
<1> QED BY <1>6, <1>7, <1>8, <1>11 DEF Sound

\* What a member hears of their press has just been saved, or the record is gone.
LEMMA EntrySavedSound ==
    ASSUME IInv, NEW u \in Users, EntrySaved(u)
    PROVE  Sound'
<1>1. /\ disk' = rec \/ disk' = None
      /\ entry' = [entry EXCEPT ![u] = "idle"]
      /\ UNCHANGED <<up, rec, listed, finish, create, reroll, announced, results>>
    BY DEF EntrySaved, Save, Memory, process, memory, commands
<1>2. rec # None /\ up BY DEF EntrySaved, IInv, ShapeOK, Coming
<1>3. create # "none" BY <1>2 DEF IInv, ShapeOK
<1>4. ShapeOK' BY <1>1, <1>2, <1>3 DEF IInv, ShapeOK
<1>5. StageOK' BY <1>1, <1>2 DEF IInv, StageOK, Undecided
<1>6. WinnersOK' BY <1>1, <1>2 DEF IInv, WinnersOK, Won
<1>7. told \in [Users -> {"nothing", "entered", "removed"}] BY DEF IInv, TypeOK
<1>8. Agrees(rec) BY <1>2 DEF IInv, EntriesOK
<1>9. \A w \in Users : \/ told'[w] = told[w]
                       \/ w = u /\ told'[w] = IF u \in rec.entrants THEN "entered" ELSE "removed"
    BY <1>7 DEF EntrySaved, Heard
<1>10. \A w \in Users : /\ told'[w] = "entered" => w \in rec.entrants
                        /\ told'[w] = "removed" => w \notin rec.entrants
    BY <1>8, <1>9 DEF Agrees
<1>11. EntriesOK' BY <1>1, <1>10 DEF EntriesOK, Agrees
<1> QED BY <1>4, <1>5, <1>6, <1>11 DEF Sound

LEMMA BeginFinishSound ==
    ASSUME IInv, NEW by \in {"task", "command"}, BeginFinish(by)
    PROVE  Sound'
<1>1. /\ finish' = [at |-> "fetching", by |-> by, who |-> {}]
      /\ UNCHANGED <<up, rec, listed, disk, entry, create, reroll, told, announced, results>>
    BY DEF BeginFinish, process, memory, commands, history
<1>2. up /\ rec # None /\ rec.status = "active"
    BY DEF BeginFinish, Active, IInv, ShapeOK
<1>3. create # "none" BY <1>2 DEF IInv, ShapeOK
<1>4. ShapeOK' BY <1>1, <1>2, <1>3 DEF ShapeOK
<1>5. StageOK' BY <1>1, <1>2 DEF IInv, StageOK, Undecided
<1>6. WinnersOK' BY <1>1 DEF IInv, WinnersOK, Won
<1>7. EntriesOK' BY <1>1 DEF IInv, EntriesOK, Agrees
<1> QED BY <1>4, <1>5, <1>6, <1>7 DEF Sound

LEMMA FetchedSound ==
    ASSUME IInv, Fetched
    PROVE  Sound'
<1>1. UNCHANGED <<up, rec, listed, disk, entry, create, reroll, told, announced, results>>
    BY DEF Fetched, process, memory, commands, history
<1>2. finish.at = "fetching" /\ finish'.at = "collecting"
    BY DEF Fetched, IInv, TypeOK, Finish
<1>3. rec # None BY DEF Fetched, Readable
<1>4. create # "none" BY <1>3 DEF IInv, ShapeOK
<1>5. ShapeOK' BY <1>1, <1>3, <1>4 DEF IInv, ShapeOK
<1>6. StageOK' BY <1>1, <1>2 DEF IInv, StageOK, Undecided
<1>7. WinnersOK' BY <1>1, <1>2 DEF IInv, WinnersOK, Won
<1>8. EntriesOK' BY <1>1 DEF IInv, EntriesOK, Agrees
<1> QED BY <1>5, <1>6, <1>7, <1>8 DEF Sound

\* The draw finds an active record: nobody has been told to have won.
LEMMA DrawWinnersSound ==
    ASSUME IInv, DrawWinners
    PROVE  Sound'
<1>1. UNCHANGED <<up, listed, disk, entry, create, reroll, told, announced, results>>
    BY DEF DrawWinners, process, commands, history
<1>2. finish.at = "collecting" BY DEF DrawWinners
<1>3. rec # None /\ up /\ rec \in Record /\ rec.status = "active"
    BY <1>2, RecordsThere DEF IInv, ShapeOK, Coming, StageOK
<1>4. results = 0 /\ announced = {} /\ \A r \in Rerolls : reroll[r].at = "idle"
    BY <1>3 DEF IInv, StageOK, Undecided
<1>5. PICK winners :
         /\ rec' = [rec EXCEPT !.status = "ended", !.winners = winners]
         /\ finish' = [finish EXCEPT !.at = "saving", !.who = winners]
    BY DEF DrawWinners
<1>6. finish \in Finish BY DEF IInv, TypeOK
<1>7. finish'.at = "saving" /\ finish'.who = winners BY <1>5, <1>6 DEF Finish
<1>8. /\ rec'.status = "ended" /\ rec'.winners = winners
      /\ rec'.entrants = rec.entrants
    BY <1>3, <1>5 DEF Record
<1>9. rec' # None
  <2>1. winners \in SUBSET Users
    <3>1. PICK present \in SUBSET finish.who : \E ws \in Draws(present, WinnerCount, {}) :
             rec' = [rec EXCEPT !.status = "ended", !.winners = ws]
        BY DEF DrawWinners
    <3>2. PICK ws \in Draws(present, WinnerCount, {}) :
             rec' = [rec EXCEPT !.status = "ended", !.winners = ws]
        BY <3>1
    <3>3. ws \subseteq Users BY <1>6, DrawnArePresent DEF Finish
    <3> QED BY <1>3, <1>8, <3>2, <3>3 DEF Record
  <2>2. rec' \in Record BY <1>3, <1>5, <2>1 DEF Record
  <2> QED BY <2>2, NoneAssumption
<1>10. create # "none" BY <1>3 DEF IInv, ShapeOK
<1>11. ShapeOK' BY <1>1, <1>3, <1>9, <1>10 DEF ShapeOK
<1>12. StageOK' BY <1>1, <1>4, <1>7, <1>8 DEF IInv, StageOK, Undecided
<1>13. WinnersOK' BY <1>1, <1>4, <1>7, <1>8 DEF WinnersOK, Won
<1>14. EntriesOK' BY <1>1, <1>3, <1>8 DEF IInv, EntriesOK, Agrees
<1> QED BY <1>11, <1>12, <1>13, <1>14 DEF Sound

\* Once the result is saved, the file and the memory name the same winners, or
\* the record is gone: what is announced next is true of both.
LEMMA ResultSavedSound ==
    ASSUME IInv, ResultSaved
    PROVE  Sound'
<1>1. /\ disk' = rec \/ disk' = None
      /\ UNCHANGED <<up, rec, listed, entry, create, reroll, told, announced, results>>
    BY DEF ResultSaved, Save, Memory, process, memory, commands, history
<1>2. finish.at = "saving" BY DEF ResultSaved
<1>3. finish'.at = "announcing" /\ finish'.who = finish.who
    BY DEF ResultSaved, IInv, TypeOK, Finish
<1>4. rec # None /\ up BY <1>2 DEF IInv, ShapeOK, Coming
<1>5. create # "none" BY <1>4 DEF IInv, ShapeOK
<1>6. ShapeOK' BY <1>1, <1>4, <1>5 DEF IInv, ShapeOK
<1>7. StageOK' BY <1>1, <1>2, <1>3, <1>4 DEF IInv, StageOK, Undecided
<1>8. WinnersOK' BY <1>1, <1>2, <1>3, <1>4 DEF IInv, WinnersOK, Won
<1>9. EntriesOK' BY <1>1, <1>4 DEF IInv, EntriesOK, Agrees
<1> QED BY <1>6, <1>7, <1>8, <1>9 DEF Sound

\* The finish is the first to announce: it has found no result, and held the lock.
LEMMA AnnounceSound ==
    ASSUME IInv, Announce
    PROVE  Sound'
<1>1. UNCHANGED <<up, rec, listed, disk, entry, create, reroll, told>>
    BY DEF Announce, process, memory, commands
<1>2. finish.at = "announcing" /\ finish'.at = "idle" BY DEF Announce, FinishLeft, NoFinish
<1>3. results' \in {0, 1} /\ announced' \in {announced, announced \cup finish.who}
    BY <1>2 DEF Announce, IInv, StageOK
<1>4. /\ rec # None /\ up /\ rec.status = "ended" /\ (disk = None \/ disk.status = "ended")
      /\ Won(finish.who) /\ Won(announced)
    BY <1>2 DEF IInv, ShapeOK, Coming, StageOK, WinnersOK
<1>5. create # "none" BY <1>4 DEF IInv, ShapeOK
<1>6. ShapeOK' BY <1>1, <1>4, <1>5 DEF IInv, ShapeOK
<1>7. StageOK' BY <1>1, <1>2, <1>3, <1>4 DEF IInv, StageOK, Undecided
<1>8. Won(announced)' BY <1>1, <1>3, <1>4 DEF Won
<1>9. WinnersOK' BY <1>1, <1>2, <1>8 DEF IInv, WinnersOK, Won
<1>10. EntriesOK' BY <1>1 DEF IInv, EntriesOK, Agrees
<1> QED BY <1>6, <1>7, <1>9, <1>10 DEF Sound

LEMMA BeginRerollSound ==
    ASSUME IInv, NEW r \in Rerolls, BeginReroll(r)
    PROVE  Sound'
<1>1. UNCHANGED <<up, rec, listed, disk, finish, entry, create, told, announced, results>>
    BY DEF BeginReroll, process, memory, history
<1>2. reroll \in [Rerolls -> Reroll] BY DEF IInv, TypeOK
<1>3. reroll'[r].at = "fetching" /\ \A q \in Rerolls \ {r} : reroll'[q] = reroll[q]
    BY <1>2 DEF BeginReroll, Reroll
<1>4. up /\ rec # None /\ rec.status = "ended" BY DEF BeginReroll, IInv, ShapeOK
<1>5. create # "none" BY <1>4 DEF IInv, ShapeOK
<1>6. ShapeOK' BY <1>1, <1>4, <1>5 DEF ShapeOK
<1>7. StageOK'
  <2>1. \A q \in Rerolls : reroll'[q].at = "announcing" => reroll[q].at = "announcing"
      BY <1>3
  <2> QED BY <1>1, <1>4, <2>1 DEF IInv, StageOK, Undecided
<1>8. WinnersOK'
  <2>1. \A q \in Rerolls : reroll'[q].at \in {"saving", "announcing"} => reroll'[q] = reroll[q]
      BY <1>3
  <2> QED BY <1>1, <2>1 DEF IInv, WinnersOK, Won
<1>9. EntriesOK' BY <1>1 DEF IInv, EntriesOK, Agrees
<1> QED BY <1>6, <1>7, <1>8, <1>9 DEF Sound

\* A reroll adds to the winners, and takes nobody away.
LEMMA PickWinnersSound ==
    ASSUME IInv, NEW r \in Rerolls, NEW present \in SUBSET Users, PickWinners(r, present)
    PROVE  Sound'
<1>1. UNCHANGED <<up, listed, disk, finish, entry, create, told, announced, results>>
    BY DEF PickWinners, process, history
<1>2. reroll \in [Rerolls -> Reroll] BY DEF IInv, TypeOK
<1>3. reroll[r].at = "fetching" /\ rec # None /\ rec \in Record
    BY RecordsThere DEF PickWinners, Readable, IInv
<1>4. up /\ rec.status = "ended" BY <1>3 DEF IInv, ShapeOK, StageOK
<1>5. PICK picked \in Draws(present, 1, rec.winners) :
         /\ rec' = [rec EXCEPT !.winners = @ \cup picked]
         /\ reroll' = [reroll EXCEPT ![r] = [at |-> "saving", picked |-> picked]]
    BY DEF PickWinners
<1>6. /\ rec'.status = "ended" /\ rec'.entrants = rec.entrants
      /\ rec.winners \subseteq rec'.winners /\ picked \subseteq rec'.winners
    BY <1>3, <1>4, <1>5 DEF Record
<1>7. picked \subseteq Users BY DrawnArePresent
<1>8. rec' # None
  <2>1. rec' \in Record BY <1>3, <1>5, <1>7 DEF Record
  <2> QED BY <2>1, NoneAssumption
<1>9. /\ reroll'[r] = [at |-> "saving", picked |-> picked]
      /\ \A q \in Rerolls \ {r} : reroll'[q] = reroll[q]
    BY <1>2, <1>5
<1>10. create # "none" BY <1>3 DEF IInv, ShapeOK
<1>11. ShapeOK' BY <1>1, <1>4, <1>8, <1>10 DEF ShapeOK
<1>12. StageOK'
  <2>1. finish.at \notin {"fetching", "collecting"} BY <1>4 DEF IInv, StageOK
  <2>2. \A q \in Rerolls : reroll'[q].at = "announcing" => reroll[q].at = "announcing"
      BY <1>9
  <2> QED BY <1>1, <1>6, <2>1, <2>2 DEF IInv, StageOK, Undecided
<1>13. \A ws : Won(ws) => Won(ws)' BY <1>1, <1>3, <1>6 DEF Won
<1>14. WinnersOK'
  <2>1. Won(announced)' BY <1>1, <1>13 DEF IInv, WinnersOK
  <2>2. /\ finish'.at = "saving" => finish'.who \subseteq rec'.winners
        /\ finish'.at = "announcing" => Won(finish.who)'
      BY <1>1, <1>6, <1>13 DEF IInv, WinnersOK
  <2>3. ASSUME NEW q \in Rerolls
        PROVE  /\ reroll'[q].at = "saving" => reroll'[q].picked \subseteq rec'.winners
               /\ reroll'[q].at = "announcing" => Won(reroll[q].picked)'
    <3>1. CASE q = r BY <1>6, <1>9, <3>1
    <3>2. CASE q # r BY <1>6, <1>9, <1>13, <3>2 DEF IInv, WinnersOK, Won
    <3> QED BY <3>1, <3>2
  <2> QED BY <2>1, <2>2, <2>3 DEF WinnersOK
<1>15. EntriesOK' BY <1>1, <1>3, <1>6 DEF IInv, EntriesOK, Agrees
<1> QED BY <1>11, <1>12, <1>14, <1>15 DEF Sound

LEMMA RerollSavedSound ==
    ASSUME IInv, NEW r \in Rerolls, RerollSaved(r)
    PROVE  Sound'
<1>1. /\ disk' = rec \/ disk' = None
      /\ UNCHANGED <<up, rec, listed, finish, entry, create, told, announced, results>>
    BY DEF RerollSaved, Save, Memory, process, memory, history
<1>2. reroll \in [Rerolls -> Reroll] BY DEF IInv, TypeOK
<1>3. /\ reroll[r].at = "saving"
      /\ reroll'[r].at = "announcing" /\ reroll'[r].picked = reroll[r].picked
      /\ \A q \in Rerolls \ {r} : reroll'[q] = reroll[q]
    BY <1>2 DEF RerollSaved, Reroll
<1>4. rec # None /\ up /\ rec.status = "ended"
    BY <1>3 DEF IInv, ShapeOK, Coming, StageOK
<1>5. create # "none" BY <1>4 DEF IInv, ShapeOK
<1>6. ShapeOK' BY <1>1, <1>4, <1>5 DEF IInv, ShapeOK
<1>7. StageOK' BY <1>1, <1>3, <1>4 DEF IInv, StageOK, Undecided
<1>8. \A ws : Won(ws) \/ ws \subseteq rec.winners => Won(ws)' BY <1>1, <1>4 DEF Won
<1>9. WinnersOK'
  <2>1. Won(announced)' BY <1>1, <1>8 DEF IInv, WinnersOK
  <2>2. /\ finish'.at = "saving" => finish'.who \subseteq rec'.winners
        /\ finish'.at = "announcing" => Won(finish.who)'
      BY <1>1, <1>8 DEF IInv, WinnersOK
  <2>3. ASSUME NEW q \in Rerolls
        PROVE  /\ reroll'[q].at = "saving" => reroll'[q].picked \subseteq rec'.winners
               /\ reroll'[q].at = "announcing" => Won(reroll[q].picked)'
    <3>1. CASE q = r BY <1>1, <1>3, <1>4, <3>1 DEF IInv, WinnersOK, Won
    <3>2. CASE q # r BY <1>1, <1>3, <1>4, <3>2 DEF IInv, WinnersOK, Won
    <3> QED BY <3>1, <3>2
  <2> QED BY <2>1, <2>2, <2>3 DEF WinnersOK
<1>10. EntriesOK' BY <1>1, <1>4 DEF IInv, EntriesOK, Agrees
<1> QED BY <1>6, <1>7, <1>9, <1>10 DEF Sound

LEMMA AnnounceRerollSound ==
    ASSUME IInv, NEW r \in Rerolls, AnnounceReroll(r)
    PROVE  Sound'
<1>1. /\ UNCHANGED <<up, rec, listed, disk, finish, entry, create, told, results>>
      /\ announced' \in {announced, announced \cup reroll[r].picked}
    BY DEF AnnounceReroll, process, memory
<1>2. reroll \in [Rerolls -> Reroll] BY DEF IInv, TypeOK
<1>3. /\ reroll[r].at = "announcing" /\ reroll'[r].at = "idle"
      /\ \A q \in Rerolls \ {r} : reroll'[q] = reroll[q]
    BY <1>2 DEF AnnounceReroll, NoReroll
<1>4. /\ rec # None /\ up /\ rec.status = "ended" /\ (disk = None \/ disk.status = "ended")
      /\ Won(reroll[r].picked) /\ Won(announced)
    BY <1>3 DEF IInv, ShapeOK, Coming, StageOK, WinnersOK
<1>5. create # "none" BY <1>4 DEF IInv, ShapeOK
<1>6. ShapeOK' BY <1>1, <1>4, <1>5 DEF IInv, ShapeOK
<1>7. StageOK' BY <1>1, <1>3, <1>4 DEF IInv, StageOK, Undecided
<1>8. Won(announced)' BY <1>1, <1>4 DEF Won
<1>9. WinnersOK'
  <2>1. \A q \in Rerolls : reroll'[q].at \in {"saving", "announcing"} => reroll'[q] = reroll[q]
      BY <1>3
  <2> QED BY <1>1, <1>8, <2>1 DEF IInv, WinnersOK, Won
<1>10. EntriesOK' BY <1>1 DEF IInv, EntriesOK, Agrees
<1> QED BY <1>6, <1>7, <1>9, <1>10 DEF Sound

\* While the bot is down no coroutine is in the middle of something.
LEMMA RestartSound ==
    ASSUME IInv, Restart
    PROVE  Sound'
<1>1. /\ up' /\ disk' \in {disk, None} /\ rec' = disk' /\ listed' = (disk' # None)
      /\ UNCHANGED <<finish, entry, create, reroll, told, announced, results>>
    BY DEF Restart, commands, history
<1>2. rec = None /\ ~Coming BY DEF Restart, IInv, ShapeOK
<1>3. ~Coming' BY <1>1, <1>2 DEF Coming
<1>4. finish'.at = "idle" /\ \A r \in Rerolls : reroll'[r].at = "idle"
    BY <1>3 DEF Coming
<1>5. ShapeOK' BY <1>1, <1>2, <1>3 DEF IInv, ShapeOK
<1>6. StageOK' BY <1>1, <1>4 DEF IInv, StageOK, Undecided
<1>7. WinnersOK' BY <1>1, <1>4 DEF IInv, WinnersOK, Won
<1>8. EntriesOK' BY <1>1 DEF IInv, EntriesOK, Agrees
<1> QED BY <1>5, <1>6, <1>7, <1>8 DEF Sound

------------------------------------------------------------------------------
(* The invariant, and what follows from it *)

LEMMA InitIInv == Init => IInv
<1> SUFFICES ASSUME Init PROVE IInv OBVIOUS
<1> USE DEF Init
<1>1. TypeOK
  <2>1. reroll \in [Rerolls -> Reroll] /\ finish \in Finish BY IdleTyped
  <2>2. crashes \in 0..MaxCrashes BY GiveawayAssumption
  <2>3. results \in 0..2 /\ announced \subseteq Users OBVIOUS
  <2>4. /\ entry \in [Users -> {"idle", "saving"}]
        /\ told \in [Users -> {"nothing", "entered", "removed"}]
      OBVIOUS
  <2>5. /\ up \in BOOLEAN /\ listed \in BOOLEAN /\ due \in BOOLEAN
        /\ rec \in Record \cup {None} /\ disk \in Record \cup {None}
        /\ task \in {"none", "broken", "asleep", "finishing"} /\ msg \in {"none", "shown", "gone"}
        /\ create \in {"none", "sending", "saving", "done"} /\ delete \in {"idle", "deleting"}
      OBVIOUS
  <2> QED BY <2>1, <2>2, <2>3, <2>4, <2>5 DEF TypeOK
<1>2. ShapeOK BY DEF ShapeOK, Coming, NoFinish, NoReroll
<1>3. StageOK BY DEF StageOK, NoFinish, NoReroll
<1>4. WinnersOK BY DEF WinnersOK, Won, NoFinish, NoReroll
<1>5. EntriesOK BY DEF EntriesOK
<1> QED BY <1>1, <1>2, <1>3, <1>4, <1>5 DEF IInv

LEMMA NextSound ==
    ASSUME IInv, Next
    PROVE  Sound'
<1>1. TypeOK /\ Sound /\ TypeOK' BY TypeStep DEF IInv, Sound
<1>2. CASE Create \/ Creating
    BY <1>1, <1>2, CreateSound, SendMessageSound, RemovalRetreats, SaveRetreats, GivingUpRetreats,
       RetreatSound DEF Creating
<1>3. CASE \E u \in Users : Entering(u)
    BY <1>1, <1>3, PressSound, EntrySavedSound, GivingUpRetreats, RetreatSound DEF Entering
<1>4. CASE Concluding
    BY <1>1, <1>4, DrawWinnersSound, ResultSavedSound, AnnounceSound, GivingUpRetreats,
       RetreatSound DEF Concluding
<1>5. CASE \E r \in Rerolls : Rerolling(r)
    BY <1>1, <1>5, BeginRerollSound, PickWinnersSound, RerollSavedSound, AnnounceRerollSound,
       GivingUpRetreats, RetreatSound DEF Rerolling
<1>6. CASE \/ \E by \in {"task", "command"} : BeginFinish(by)
           \/ Fetched \/ FetchGone \/ FetchForbidden \/ FetchFails \/ FinishBreaksOff
    BY <1>1, <1>6, BeginFinishSound, FetchedSound, RemovalRetreats, GivingUpRetreats, RetreatSound
<1>7. CASE \/ PressLate \/ TaskEnds \/ BeginDelete \/ DropRecord \/ DeleteBreaksOff
           \/ PlaceDeleted \/ SaveOther
    BY <1>1, <1>7, QuietRetreats, RemovalRetreats, SaveRetreats, RetreatSound
<1>8. CASE Crash \/ Restart \/ Resume \/ Deadline \/ MessageDeleted
    BY <1>1, <1>8, RestartSound, QuietRetreats, RemovalRetreats, RetreatSound
<1> QED BY <1>2, <1>3, <1>4, <1>5, <1>6, <1>7, <1>8 DEF Next

LEMMA StepIInv == IInv /\ [Next]_vars => IInv'
<1> SUFFICES ASSUME IInv, [Next]_vars PROVE IInv' OBVIOUS
<1>1. CASE Next BY <1>1, TypeStep, NextSound DEF IInv, Sound
<1>2. CASE UNCHANGED vars
  <2>1. TypeOK'
      BY <1>2 DEF IInv, TypeOK, vars, process, memory, commands, discord, history
  <2>2. UNCHANGED <<up, rec, listed, disk, finish, entry, create, reroll, history>>
      BY <1>2 DEF vars, process, memory, commands
  <2>3. Retreat BY <2>2 DEF Retreat, Coming, IInv, ShapeOK
  <2> QED BY <2>1, <2>3, RetreatSound DEF IInv, Sound
<1> QED BY <1>1, <1>2

\* The record, the stages of its coroutines and what Discord shows are well formed
\* after any interleaving, crash and restart.
THEOREM TypeCorrect == Spec => []TypeOK
<1>1. IInv => TypeOK BY DEF IInv
<1> QED BY InitIInv, StepIInv, <1>1, PTL DEF Spec

\* The finish lock and the status looked at under it let one finish announce, and
\* a result is saved before it is told: no restart draws somebody else.
THEOREM OneResult == Spec => []AnnouncedOnce
<1>1. IInv => AnnouncedOnce BY DEF IInv, StageOK, WinnersOK, Won, AnnouncedOnce
<1> QED BY InitIInv, StepIInv, <1>1, PTL DEF Spec

\* A member is told of an entry that was saved, and no save takes it back.
THEOREM EntriesAreKept == Spec => []ToldEntriesAreStored
<1>1. IInv => ToldEntriesAreStored BY DEF IInv, EntriesOK, Agrees, ToldEntriesAreStored
<1> QED BY InitIInv, StepIInv, <1>1, PTL DEF Spec

\* Whoever was told to have won is a winner of the record that a reroll excludes.
THEOREM RerollsSpareWinners == Spec => RerollsAreFresh
<1>1. ASSUME IInv, NEW r \in Rerolls, NEW present \in SUBSET Users, PickWinners(r, present),
             (reroll'[r].picked \ reroll[r].picked) \cap announced # {}
      PROVE  present \subseteq rec.winners
  <2>1. announced \subseteq rec.winners
      BY <1>1 DEF PickWinners, Readable, IInv, WinnersOK, Won
  <2>2. PICK picked \in Draws(present, 1, rec.winners) :
           reroll' = [reroll EXCEPT ![r] = [at |-> "saving", picked |-> picked]]
      BY <1>1 DEF PickWinners
  <2>3. reroll'[r].picked = picked BY <1>1, <2>2 DEF IInv, TypeOK
  <2>4. picked \cap rec.winners # {} BY <1>1, <2>1, <2>3
  <2> QED BY <2>4, DrawnArePresent
<1>2. IInv /\ Next =>
         \A r \in Rerolls :
            (reroll'[r].picked \ reroll[r].picked) \cap announced # {} =>
                \A present \in SUBSET Users : PickWinners(r, present) => present \subseteq rec.winners
    BY <1>1
<1> QED BY <1>2, InitIInv, StepIInv, PTL DEF Spec, RerollsAreFresh

\* Every step leaves the file, or writes the removal or what self.data holds: a
\* coroutine's own record is never written, nor brought back by a restart.
THEOREM RemovedStaysRemoved == Spec => RemovedForGood
<1>1. ASSUME Next, ~listed, disk = None PROVE disk' = None
  <2>1. Memory = None BY <1>1 DEF Memory
  <2>2. CASE Create \/ Creating
      BY <1>1, <2>1, <2>2 DEF Create, Creating, SendMessage, SendFails, SendBreaksOff, CreateSaved,
                              CreateNotSaved, Save
  <2>3. CASE \E u \in Users : Entering(u)
      BY <1>1, <2>1, <2>3 DEF Entering, Press, EntrySaved, EntryNotSaved, Save
  <2>4. CASE Concluding
      BY <1>1, <2>1, <2>4 DEF Concluding, DrawWinners, ResultSaved, ResultNotSaved, Announce, Save
  <2>5. CASE \E r \in Rerolls : Rerolling(r)
      BY <1>1, <2>1, <2>5 DEF Rerolling, BeginReroll, RerollInVain, PickWinners, RerollSaved,
                              RerollNotSaved, AnnounceReroll, Save
  <2>6. CASE \/ \E by \in {"task", "command"} : BeginFinish(by)
             \/ TaskEnds \/ Fetched \/ FetchGone \/ FetchForbidden \/ FetchFails
             \/ FinishBreaksOff
      BY <1>1, <2>6 DEF BeginFinish, TaskEnds, Fetched, FetchGone, FetchForbidden, RemovedByFinish,
                        Removed, FetchFails, FinishBreaksOff
  <2>7. CASE PressLate \/ BeginDelete \/ DropRecord \/ DeleteBreaksOff \/ PlaceDeleted \/ SaveOther
      BY <1>1, <2>1, <2>7 DEF PressLate, BeginDelete, DropRecord, DeleteBreaksOff, PlaceDeleted,
                              Removed, SaveOther, Save
  <2>8. CASE Crash \/ Restart \/ Resume \/ Deadline \/ MessageDeleted
      BY <1>1, <2>8 DEF Crash, Restart, Resume, Deadline, MessageDeleted
  <2> QED BY <1>1, <2>2, <2>3, <2>4, <2>5, <2>6, <2>7, <2>8 DEF Next
<1> QED BY <1>1, PTL DEF Spec, RemovedForGood
=============================================================================
