------------------------------- MODULE AntiRaid -------------------------------
(***************************************************************************)
(* The raid lockdowns of one server: the join handler, the containment of  *)
(* joiners by temporary bans, the release by timer, join, command or       *)
(* setting, and the recovery after a restart (cogs/moderation/             *)
(* anti_raid.py).                                                          *)
(*                                                                         *)
(* One lock serialises the join handlers and nothing else: a release runs  *)
(* beside them and beside other releases. A configuration is an object:    *)
(* replace_config() puts a new one in the cache while tasks still hold the *)
(* old. Every await ends a step. Lockdowns are numbered, and a number      *)
(* stands for the time at which its lockdown ends; times pass in any       *)
(* order, since the duration is a setting.                                 *)
(*                                                                         *)
(* Left to choice: which recent joins a protection counts (a subset of     *)
(* those since the start), and whether it is enabled. Left out: trusted    *)
(* members, who are never counted, moderators who ban or unban the same    *)
(* members, the cut of the list at 1000, and the cache below flush(),      *)
(* which ConfigCache models (the prefix Raid tells the names apart).       *)
(***************************************************************************)
EXTENDS Naturals, Sequences, FiniteSets

CONSTANTS Members,
          Threshold,       \* joins that make a raid
          \* bounds
          MaxQueued,       \* joins that wait for the lock
          MaxEdits,        \* changes of settings
          MaxEvents        \* lockdowns, refused unbans, failed saves and crashes together

ASSUME RaidAssumption ==
    /\ Threshold \in Nat \ {0}
    /\ {MaxQueued, MaxEdits, MaxEvents} \subseteq Nat

Never == 0
Lockdowns == 1..MaxEvents
Modes == {"off", "observe", "enforce"}     \* enabled and mode in one
Configs == [mode : Modes, until : {Never} \cup Lockdowns, bans : SUBSET Members]
Versions == 1..(MaxEdits + 1)
Releasers == {"timer", "join", "edit", "boot"}

VARIABLES
    docs, live,          \* configuration objects; the one the cache holds
    stored,              \* the configuration in MongoDB
    guild, banned,       \* Discord: members; those AntiRaid has banned
    window,              \* join_windows: who joined since the start
    joins,               \* joins whose handler waits for the guild's lock
    handler,             \* the handler with the lock
    release,             \* per task: its unlock_guild()
    editor,              \* the command or page that changes a setting
    timer,               \* unlock_tasks: the lockdown whose end is awaited
    boot,                \* _restore_lockdowns() waits until the bot is ready
    started, lapsed,     \* lockdowns begun; those whose time is over
    edits, faults,       \* counters of the bounds
    trouble              \* history: what has gone wrong, for the properties

counters == <<edits, faults>>
discord == <<guild, banned>>
config == <<docs, live, stored>>
raidVars == <<docs, live, stored, guild, banned, window, joins, handler, release, editor,
          timer, boot, started, lapsed, edits, faults, trouble>>

NoHandler == [pc |-> "idle", doc |-> 1, lockdown |-> Never, todo |-> {}, bans |-> {}]
NoRelease == [pc |-> "idle", doc |-> 1, todo |-> {}]
NoEditor == [pc |-> "idle", doc |-> 1]

Troubles == {"unarmed",    \* the save of a new lockdown failed: no timer
             "broken",     \* a connection error ended a release: no timer, no lift
             "swapped",    \* a configuration replaced under a task that holds it
             "lost"}       \* a release met a containment, Discord refused an unban,
                           \* or the list of the bans just made was not kept

\* What leaves a lockdown without its timer, until the next restart.
Untimed == {"unarmed", "broken"}

RaidTypeOK ==
    /\ docs \in [Versions -> Configs] /\ live \in Versions /\ stored \in Configs
    /\ guild \subseteq Members /\ banned \subseteq Members /\ window \subseteq Members
    /\ joins \in Seq(Members)
    /\ handler \in [pc : {"idle", "releasing", "activating", "containing", "saving"},
                    doc : Versions, lockdown : {Never} \cup Lockdowns,
                    todo : SUBSET Members, bans : SUBSET Members]
    /\ release \in [Releasers -> [pc : {"idle", "unbanning", "saving"},
                                  doc : Versions, todo : SUBSET Members]]
    /\ editor \in [pc : {"idle", "replacing", "switching", "releasing", "disabling",
                         "saving"}, doc : Versions]
    /\ timer \in {Never} \cup Lockdowns
    /\ boot \in BOOLEAN
    /\ started \in 0..MaxEvents /\ lapsed \subseteq Lockdowns
    /\ trouble \subseteq Troubles

RaidInit ==
    /\ \E mode \in Modes :
        docs = [v \in Versions |-> [mode |-> mode, until |-> Never, bans |-> {}]]
    /\ live = 1 /\ stored = docs[1]
    /\ guild = {} /\ banned = {} /\ window = {} /\ joins = <<>>
    /\ handler = NoHandler /\ editor = NoEditor
    /\ release = [t \in Releasers |-> NoRelease]
    /\ timer = Never /\ boot = FALSE
    /\ started = 0 /\ lapsed = {}
    /\ edits = 0 /\ faults = 0 /\ trouble = {}

InForce(n) == n # Never /\ n \notin lapsed
Containing == handler.pc \in {"containing", "saving"}
Releasing(t) == release[t].pc # "idle"

\* flush(): what the cache holds reaches MongoDB; or it raises.
Spare == started + faults < MaxEvents
Fault == Spare /\ faults' = faults + 1 /\ UNCHANGED edits
Saved == stored' = docs[live] /\ UNCHANGED counters
NotSaved == Fault /\ UNCHANGED stored

------------------------------------------------------------------------------
(* unlock_guild(), as a part of whoever calls it. *)

\* Mutant: the list is emptied and the lockdown left.
ListCleared(c) == [c EXCEPT !.bans = {}]

Cleared(c) == [c EXCEPT !.until = Never, !.bans = {}]

\* It forgets the timer, and walks a copy of the list of the moment.
BeginRelease(t) ==
    /\ timer' = Never
    /\ IF docs[live].bans = {}
       THEN /\ docs' = [docs EXCEPT ![live] = Cleared(@)]
            /\ release' = [release EXCEPT ![t] =
                               [pc |-> "saving", doc |-> live, todo |-> {}]]
       ELSE /\ UNCHANGED docs
            /\ release' = [release EXCEPT ![t] =
                             [pc |-> "unbanning", doc |-> live, todo |-> docs[live].bans]]
    /\ trouble' = IF Containing THEN trouble \cup {"lost"} ELSE trouble

\* One unban is answered; after the last, the lockdown and the list are reset.
Unban(t, m) ==
    /\ release[t].pc = "unbanning" /\ m \in release[t].todo
    /\ \/ banned' = banned \ {m} /\ UNCHANGED <<counters, trouble>>
       \/ /\ Fault
          /\ trouble' = trouble \cup {"lost"}
          /\ UNCHANGED banned
    /\ LET rest == release[t].todo \ {m}
       IN IF rest = {}
          THEN /\ docs' = [docs EXCEPT ![release[t].doc] = Cleared(@)]
               /\ release' = [release EXCEPT ![t].pc = "saving", ![t].todo = {}]
          ELSE /\ UNCHANGED docs
               /\ release' = [release EXCEPT ![t].todo = rest]
    /\ UNCHANGED <<live, stored, guild, window, joins, handler, editor, timer, boot,
                   started, lapsed>>

\* Another error than Discord's own (the connection, a timeout) leaves unlock_guild()
\* at once, whether the unban was done or not, and ends the task that called it: the
\* timer is forgotten, the lockdown and the list stay as they are.
UnbanBreaksOff(t, m) ==
    /\ release[t].pc = "unbanning" /\ m \in release[t].todo
    /\ Fault
    /\ banned' \in {banned, banned \ {m}}
    /\ release' = [release EXCEPT ![t] = NoRelease]
    /\ handler' = IF t = "join" THEN NoHandler ELSE handler
    /\ editor' = IF t = "edit" THEN NoEditor ELSE editor
    /\ trouble' = trouble \cup {"broken"}
    /\ UNCHANGED <<config, guild, window, joins, timer, boot, started, lapsed>>

\* Mutant: the finished task is kept.
KeepRelease(t) == release[t].pc = "saving" /\ release' = [release EXCEPT ![t].pc = "done"]

\* Its last save ends it; the alert is nobody's concern.
EndRelease(t) == release[t].pc = "saving" /\ release' = [release EXCEPT ![t] = NoRelease]

EndOwnRelease(t) ==
    /\ t \in {"timer", "boot"}
    /\ EndRelease(t)
    /\ Saved \/ NotSaved
    /\ UNCHANGED <<docs, live, discord, window, joins, handler, editor, timer, boot,
                   started, lapsed, trouble>>

\* The timer of a lockdown: bound: not while the release of an earlier one goes on.
TimerFires ==
    /\ timer \in lapsed
    /\ ~Releasing("timer")
    /\ BeginRelease("timer")
    /\ UNCHANGED <<live, stored, discord, window, joins, handler, editor, boot,
                   started, lapsed, counters>>

------------------------------------------------------------------------------
(* Joins. *)

\* A member joins; with AntiRaid enabled the handler queues for the lock.
Join(m) ==
    /\ m \notin guild \cup banned
    /\ Len(joins) < MaxQueued
    /\ guild' = guild \cup {m}
    /\ joins' = IF docs[live].mode = "off" THEN joins ELSE Append(joins, m)
    /\ UNCHANGED <<config, banned, window, handler, release, editor, timer, boot,
                   started, lapsed, counters, trouble>>

NextLockdown == started + 1

\* Mutant: the list starts anew with each containment.
ContainAnew(d, members) ==
    handler' = IF members = {} THEN NoHandler
               ELSE [pc |-> "containing", doc |-> d, lockdown |-> Never,
                     todo |-> members, bans |-> {}]

\* The joiner or the candidates are to be contained: the list is copied first.
Contain(d, members) ==
    handler' = IF members = {} THEN NoHandler
               ELSE [pc |-> "containing", doc |-> d, lockdown |-> Never,
                     todo |-> members, bans |-> docs[d].bans]

\* No lockdown holds: do enough of the recent joins make a raid? The handler has found
\* AntiRaid enabled and does not ask again after a release.
NoRaid == handler' = NoHandler /\ UNCHANGED <<docs, started>>
Raid(d, recent) ==
    /\ docs[d].mode # "observe"
    /\ Spare
    /\ \E c \in SUBSET recent :
        /\ Cardinality(c) >= Threshold
        /\ started' = NextLockdown
        /\ docs' = [docs EXCEPT ![d].until = NextLockdown]
        /\ handler' = [pc |-> "activating", doc |-> d, lockdown |-> NextLockdown,
                       todo |-> c \cap guild, bans |-> {}]

\* The handler gets the lock and reads the configuration again.
LockGranted(m) ==
    /\ handler.pc = "idle" /\ joins # <<>> /\ m = Head(joins)
    /\ joins' = Tail(joins)
    /\ UNCHANGED <<live, stored, discord, editor, boot, lapsed, counters>>

JoinIgnored(m) ==
    /\ LockGranted(m)
    /\ docs[live].mode = "off"
    /\ UNCHANGED <<docs, window, handler, release, timer, started, trouble>>

JoinInLockdown(m) ==
    /\ LockGranted(m)
    /\ docs[live].mode # "off" /\ InForce(docs[live].until)
    /\ window' = window \cup {m}
    /\ IF docs[live].mode = "enforce"
       THEN /\ Contain(live, {m})
            /\ trouble' = IF \E t \in Releasers : Releasing(t)
                          THEN trouble \cup {"lost"} ELSE trouble
       ELSE UNCHANGED <<handler, trouble>>
    /\ UNCHANGED <<docs, release, timer, started>>

\* A lockdown whose time is over is released first.
JoinReleases(m) ==
    /\ LockGranted(m)
    /\ docs[live].mode # "off" /\ ~InForce(docs[live].until)
    /\ docs[live].until # Never \/ docs[live].bans # {}
    /\ window' = window \cup {m}
    /\ BeginRelease("join")
    /\ handler' = [NoHandler EXCEPT !.pc = "releasing"]
    /\ UNCHANGED started

JoinCounted(m) ==
    /\ LockGranted(m)
    /\ docs[live].mode # "off"
    /\ docs[live].until = Never /\ docs[live].bans = {}
    /\ window' = window \cup {m}
    /\ NoRaid \/ Raid(live, window')
    /\ UNCHANGED <<release, timer, trouble>>

JoinReleased ==
    /\ handler.pc = "releasing"
    /\ EndRelease("join")
    /\ \/ Saved /\ (NoRaid \/ Raid(live, window))
       \/ NotSaved /\ NoRaid
    /\ UNCHANGED <<live, discord, window, joins, editor, timer, boot, lapsed, trouble>>

\* The new lockdown is saved: its timer starts, and the candidates are contained.
Activated ==
    /\ handler.pc = "activating"
    /\ Saved
    /\ timer' = handler.lockdown
    /\ Contain(handler.doc, handler.todo)
    /\ trouble' = IF handler.todo # {} /\ \E t \in Releasers : Releasing(t)
                  THEN trouble \cup {"lost"} ELSE trouble
    /\ UNCHANGED <<docs, live, discord, window, joins, release, editor, boot, started,
                   lapsed>>

ActivationFails ==
    /\ handler.pc = "activating"
    /\ NotSaved
    /\ handler' = NoHandler
    /\ trouble' = trouble \cup {"unarmed"}
    /\ UNCHANGED <<docs, live, discord, window, joins, release, editor, timer, boot,
                   started, lapsed>>

\* One member is banned; or kicked, or refused. After the last, the list is written
\* to the configuration the handler holds, if it differs.
ContainMember(m) ==
    /\ handler.pc = "containing" /\ m \in handler.todo
    /\ \E isBanned \in BOOLEAN :
        LET rest == handler.todo \ {m}
            bans == IF isBanned THEN handler.bans \cup {m} ELSE handler.bans
            d == handler.doc
        IN /\ banned' = IF isBanned THEN banned \cup {m} ELSE banned
           /\ guild' \in IF isBanned THEN {guild \ {m}} ELSE {guild, guild \ {m}}
           /\ IF rest # {}
              THEN /\ handler' = [handler EXCEPT !.todo = rest, !.bans = bans]
                   /\ UNCHANGED docs
              ELSE /\ docs' = [docs EXCEPT ![d].bans = bans]
                   /\ handler' = IF bans = docs[d].bans THEN NoHandler
                                 ELSE [handler EXCEPT !.pc = "saving", !.todo = {},
                                                      !.bans = bans]
    /\ UNCHANGED <<live, stored, window, joins, release, editor, timer, boot, started,
                   lapsed, counters, trouble>>

\* A connection error out of the ban, the kick or the message before it ends the
\* handler: the list of the bans made so far is dropped.
ContainBreaksOff(m) ==
    /\ handler.pc = "containing" /\ m \in handler.todo
    /\ Fault
    /\ banned' \in {banned, banned \cup {m}}
    /\ guild' \in IF banned' = banned THEN {guild, guild \ {m}} ELSE {guild \ {m}}
    /\ handler' = NoHandler
    /\ trouble' = trouble \cup {"lost"}
    /\ UNCHANGED <<config, window, joins, release, editor, timer, boot, started, lapsed>>

Contained ==
    /\ handler.pc = "saving"
    /\ \/ Saved /\ UNCHANGED trouble
       \/ NotSaved /\ trouble' = trouble \cup {"lost"}
    /\ handler' = NoHandler
    /\ UNCHANGED <<docs, live, discord, window, joins, release, editor, timer, boot,
                   started, lapsed>>

------------------------------------------------------------------------------
(* Settings. Bound: one change at a time. *)

BeginEdit ==
    /\ editor.pc = "idle"
    /\ edits < MaxEdits /\ edits' = edits + 1 /\ UNCHANGED faults
    /\ UNCHANGED <<stored, discord, window, joins, handler, boot, started, lapsed>>

\* replace_config(): a new object with a copy of the lockdown and the list.
Replace(mode) ==
    /\ BeginEdit
    /\ live' = live + 1
    /\ docs' = [docs EXCEPT ![live + 1] = [docs[live] EXCEPT !.mode = mode]]
    /\ editor' = [pc |-> "replacing", doc |-> live + 1]
    /\ trouble' = IF handler.pc # "idle" \/ \E t \in Releasers : Releasing(t)
                  THEN trouble \cup {"swapped"} ELSE trouble
    /\ UNCHANGED <<release, timer>>

\* Enabling, the rollout mode and disabling change the live object.
Enable(mode) ==
    /\ BeginEdit
    /\ mode # "off" /\ docs[live].mode = "off"
    /\ docs' = [docs EXCEPT ![live].mode = mode]
    /\ editor' = [pc |-> "saving", doc |-> live]
    /\ UNCHANGED <<live, release, timer, trouble>>

SetMode(mode) ==
    /\ BeginEdit
    /\ {mode, docs[live].mode} \subseteq Modes \ {"off"}
    /\ docs' = [docs EXCEPT ![live].mode = mode]
    /\ editor' = [pc |-> "switching", doc |-> live]
    /\ UNCHANGED <<live, release, timer, trouble>>

Disable ==
    /\ BeginEdit
    /\ BeginRelease("edit")
    /\ editor' = [pc |-> "disabling", doc |-> live]
    /\ UNCHANGED live

UnlockCommand ==
    /\ BeginEdit
    /\ docs[live].until # Never
    /\ BeginRelease("edit")
    /\ editor' = [pc |-> "releasing", doc |-> live]
    /\ UNCHANGED live

\* A saved setting that ends containment releases; a saved lockdown gets its timer.
EditSaved ==
    LET mode == docs[editor.doc].mode
        ends == \/ editor.pc = "replacing" /\ mode # "enforce"
                \/ editor.pc = "switching" /\ mode = "observe"
    IN /\ editor.pc \in {"replacing", "switching", "saving"}
       /\ Saved
       /\ IF ends
          THEN BeginRelease("edit") /\ editor' = [editor EXCEPT !.pc = "releasing"]
          ELSE /\ timer' = IF editor.pc = "replacing" /\ InForce(docs[editor.doc].until)
                           THEN docs[editor.doc].until ELSE timer
               /\ editor' = NoEditor
               /\ UNCHANGED <<docs, release, trouble>>
       /\ UNCHANGED <<live, discord, window, joins, handler, boot, started, lapsed>>

EditFails ==
    /\ editor.pc \in {"replacing", "switching", "saving"}
    /\ NotSaved
    /\ editor' = NoEditor
    /\ UNCHANGED <<docs, live, discord, window, joins, handler, release, timer, boot,
                   started, lapsed, trouble>>

\* The release of a setting ends; disabling goes on with the live object.
EditReleased ==
    /\ editor.pc \in {"releasing", "disabling"}
    /\ EndRelease("edit")
    /\ \/ /\ Saved
          /\ IF editor.pc = "disabling"
             THEN /\ docs' = [docs EXCEPT ![live].mode = "off"]
                  /\ editor' = [pc |-> "saving", doc |-> live]
             ELSE UNCHANGED docs /\ editor' = NoEditor
       \/ NotSaved /\ editor' = NoEditor /\ UNCHANGED docs
    /\ UNCHANGED <<live, discord, window, joins, handler, timer, boot, started, lapsed, trouble>>

------------------------------------------------------------------------------
(* Time, crashes and restarts. *)

Lapse(n) ==
    /\ n \in 1..started \ lapsed
    /\ lapsed' = lapsed \cup {n}
    /\ UNCHANGED <<config, discord, window, joins, handler, release, editor, timer, boot,
                   started, counters, trouble>>

\* The process dies and starts again: the cache is read from MongoDB, and a lockdown
\* that had lost its timer is to get one again.
Crash ==
    /\ Fault
    /\ docs' = [v \in Versions |-> stored] /\ live' = 1
    /\ window' = {} /\ joins' = <<>>
    /\ handler' = NoHandler /\ editor' = NoEditor
    /\ release' = [t \in Releasers |-> NoRelease]
    /\ timer' = Never /\ boot' = TRUE
    /\ trouble' = (IF Containing THEN trouble \cup {"lost"} ELSE trouble)
                       \ Untimed
    /\ UNCHANGED <<stored, discord, started, lapsed>>

\* Mutant: a lockdown that is still in force is left alone.
RestorePast ==
    /\ boot
    /\ boot' = FALSE
    /\ IF ~InForce(docs[live].until) /\ (docs[live].until # Never \/ docs[live].bans # {})
       THEN BeginRelease("boot") ELSE UNCHANGED <<docs, release, timer, trouble>>
    /\ UNCHANGED <<live, stored, discord, window, joins, handler, editor, started, lapsed,
                   counters>>

\* _restore_lockdowns(): a lockdown in force gets its timer, a past one is released.
Restore ==
    /\ boot
    /\ boot' = FALSE
    /\ \/ /\ InForce(docs[live].until)
          /\ timer' = docs[live].until
          /\ UNCHANGED <<docs, release, trouble>>
       \/ /\ ~InForce(docs[live].until)
          /\ docs[live].until # Never \/ docs[live].bans # {}
          /\ BeginRelease("boot")
       \/ /\ docs[live].until = Never /\ docs[live].bans = {}
          /\ UNCHANGED <<docs, release, timer, trouble>>
    /\ UNCHANGED <<live, stored, discord, window, joins, handler, editor, started, lapsed,
                   counters>>

------------------------------------------------------------------------------
\* What is under way: each task goes on when its call is answered.
Task == \/ JoinReleased \/ Activated \/ ActivationFails
        \/ EditSaved \/ EditFails \/ EditReleased \/ TimerFires \/ Restore
        \/ \E t \in Releasers : EndOwnRelease(t) \/ \E m \in Members : Unban(t, m)

Joiner == \/ Contained
          \/ \E m \in Members : \/ Join(m) \/ JoinIgnored(m) \/ JoinInLockdown(m)
                                \/ JoinReleases(m) \/ JoinCounted(m) \/ ContainMember(m)

Setting == \/ Disable \/ UnlockCommand
           \/ \E mode \in Modes : Replace(mode) \/ Enable(mode) \/ SetMode(mode)

BreakOff == \E m \in Members : \/ ContainBreaksOff(m)
                               \/ \E t \in Releasers : UnbanBreaksOff(t, m)

RaidNext == Task \/ Joiner \/ Setting \/ BreakOff \/ Crash \/ \E n \in Lockdowns : Lapse(n)

RaidSpec == RaidInit /\ [][RaidNext]_raidVars

\* The event loop runs what it can, and Discord and MongoDB answer each call. Nothing is
\* asked of members, of administrators, or of time.
FairRaidSpec == RaidSpec /\ WF_raidVars(Task)

------------------------------------------------------------------------------
(* Properties. *)

Quiet == /\ handler.pc = "idle" /\ editor.pc = "idle"
         /\ \A t \in Releasers : ~Releasing(t)

\* A lockdown in force has its own timer armed, whatever releases, settings, restarts
\* and earlier lockdowns came before: what _schedule_unlock(), unlock_guild() and
\* _restore_lockdowns() together keep true. Two faults leave one without a timer, and
\* only until the next restart: the save of its activation failed, or a connection error
\* ended its release by a setting or command, which had taken the timer first.
LockdownHasTimer ==
    Quiet /\ ~boot /\ InForce(docs[live].until) /\ trouble \cap Untimed = {}
        => timer = docs[live].until

\* When no task is at work, every member AntiRaid has banned is on the list in memory
\* and in MongoDB, and so a restart will lift the ban, after a release that broke off as
\* well: as long as no release met a containment, no object was replaced under a task,
\* no unban was refused, and no containment failed to keep its list.
AwaitingAreListed ==
    Quiet /\ trouble \subseteq Untimed
        => banned \subseteq docs[live].bans \cap stored.bans

\* A lockdown whose time is over is lifted without another join, by its timer or by the
\* recovery after a restart. The exceptions: since the last start its activation could not
\* be saved or a connection error ended its release, the timer gone in both cases; or
\* replace_config() copied it while its release was under way.
LockdownEnds ==
    docs[live].until \in lapsed
        ~> \/ docs[live].until \notin lapsed
           \/ trouble \cap (Untimed \cup {"swapped"}) # {}

\* The comment at botutils/antiraid.py:84-85: members awaiting an automatic unban are
\* not forgotten. Stated without the exceptions of AwaitingAreListed.
NobodyForgotten == Quiet => banned \subseteq docs[live].bans \cup stored.bans
===============================================================================
