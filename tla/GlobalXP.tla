------------------------------ MODULE GlobalXP ------------------------------
(***************************************************************************)
(* Global XP: class GlobalXPGuard of botutils/global_xp_guard.py, with the *)
(* part of Activity.observe that its storage protocol depends on. Messages *)
(* earn XP in memory; every flush writes awards, activity checkpoints and  *)
(* penalties in one transaction with a receipt, and is retried with the    *)
(* same receipt when it is not known to have been committed.               *)
(*                                                                         *)
(* Time is counted in ticks of ten seconds, the account-wide cooldown: it  *)
(* leaves a user one award per tick, and so several in a minute, which is  *)
(* what a row of global_monthly counts. The two heuristics of observe()    *)
(* are a free choice: any message may raise a flag.                        *)
(***************************************************************************)
EXTENDS Integers, Sequences, FiniteSets, FiniteSetsExt

CONSTANTS Users,
          MaxTime,      \* bound: ticks the model lasts
          PerMinute,    \* ticks in a minute: six
          MaxBatches,   \* bound: batches that get an identity
          Fresh,        \* age up to which a message, or its replay, is looked at
          Window,       \* what a flag takes back: a day
          Month,        \* age from which minutes are deleted: 30 days
          Pauses,       \* lengths of the first, second, ... pause
          Decay,        \* a flag counts as a repeat for 30 days
          Expire,       \* idle checkpoints are deleted after 35 days
          Retention,    \* receipts and audit records after 90 days
          None

\* 35 days are longer than a message is fresh, and than the longest pause, a week. A
\* day is longer than a minute.
ASSUME XPAssumption ==
    /\ {MaxTime, PerMinute, MaxBatches, Window, Month, Decay, Expire, Retention}
          \subseteq Nat \ {0}
    /\ PerMinute <= Window
    /\ Fresh \in 0..Expire
    /\ Pauses \in Seq(1..Expire) /\ Pauses # <<>>

Ticks == 1..MaxTime

\* The minute of a time, by its first tick: the column "timeframe".
Slot(t) == (t \div PerMinute) * PerMinute
Minutes == {Slot(t) : t \in Ticks}

VARIABLES
    now,
    states, dirty, awards, flags, batch,   \* the guard's fields of those names
    loading,                               \* per user: a checkpoint read, not yet kept
    flushing,                              \* the round of the flush() under way, or 0
    total, monthly, activity, receipts, audit,   \* the five tables
    nextId,
    credited,                              \* history: times a message was credited
    lifted,                                \* history: flags raised before a release
    expired                                \* history: XP of minutes deleted for their age

memory == <<states, dirty, awards, flags, batch, loading, flushing>>
tables == <<total, monthly, activity, receipts, audit>>
history == <<credited, lifted, expired>>
vars == <<now, memory, tables, nextId, history>>

\* Message identifiers grow with time; 0 is "never".
Activity == [last : 0..MaxTime, award : 0..MaxTime, blocked : Nat,
             flagged : 0..MaxTime, strikes : 0..Len(Pauses)]
NewActivity == [last |-> 0, award |-> 0, blocked |-> 0, flagged |-> 0, strikes |-> 0]

\* The guard counts the awards of a user and minute; each is known by its message.
Award == [user : Users, message : Ticks, slot : Minutes]
Flag == [user : Users, at : Ticks, until : Nat]
Checkpoint == [state : Activity, at : Ticks]
Batch == [id : 1..MaxBatches, time : Ticks, states : [Users -> Activity \cup {None}],
          awards : SUBSET Award, flags : SUBSET Flag]

ASSUME NoneAssumption == None \notin Activity \cup Checkpoint \cup Batch

TypeOK ==
    /\ now \in Ticks
    /\ states \in [Users -> Activity \cup {None}]
    /\ dirty \subseteq Users
    /\ awards \subseteq Award
    /\ flags \subseteq Flag
    /\ batch \in Batch \cup {None}
    /\ loading \in [Users -> Activity \cup {None}]
    /\ flushing \in 0..2
    /\ total \in [Users -> Nat]
    /\ monthly \in [Users -> [Minutes -> Nat]]
    /\ activity \in [Users -> Checkpoint \cup {None}]
    /\ receipts \subseteq [id : 1..MaxBatches, at : Ticks]
    /\ audit \subseteq Flag
    /\ nextId \in 1..(MaxBatches + 1)
    /\ credited \in [Users -> [Ticks -> Nat]]
    /\ lifted \subseteq Flag
    /\ expired \in [Users -> [Minutes -> Nat]]

Init ==
    /\ now = 1
    /\ states = [u \in Users |-> None]
    /\ dirty = {} /\ awards = {} /\ flags = {}
    /\ batch = None
    /\ loading = [u \in Users |-> None]
    /\ flushing = 0
    /\ total = [u \in Users |-> 0]
    /\ monthly = [u \in Users |-> [m \in Minutes |-> 0]]
    /\ activity = [u \in Users |-> None]
    /\ receipts = {} /\ audit = {}
    /\ nextId = 1
    /\ credited = [u \in Users |-> [m \in Ticks |-> 0]]
    /\ lifted = {}
    /\ expired = [u \in Users |-> [m \in Minutes |-> 0]]

------------------------------------------------------------------------------
(* state(): a checkpoint is read under the user's lock, then kept. *)

BeginLoad(u) ==
    /\ states[u] = None /\ loading[u] = None
    /\ loading' = [loading EXCEPT ![u] =
                      IF activity[u] = None THEN NewActivity ELSE activity[u].state]
    /\ UNCHANGED <<now, states, dirty, awards, flags, batch, flushing, tables, nextId, history>>

EndLoad(u) ==
    /\ loading[u] # None
    /\ states' = [states EXCEPT ![u] = loading[u]]
    /\ loading' = [loading EXCEPT ![u] = None]
    /\ UNCHANGED <<now, dirty, awards, flags, batch, flushing, tables, nextId, history>>

------------------------------------------------------------------------------
(* observe(): no await between the evaluation and the enqueueing. *)

\* A fresh message of u, new or delivered again, that is neither paused, known
\* nor within the cooldown.
Counts(u, m) ==
    LET a == states[u] IN
    /\ a # None
    /\ m <= now /\ now - m <= Fresh
    /\ now >= a.blocked
    /\ m > a.last
    /\ now > a.award

Earn(u, m) ==
    /\ Counts(u, m)
    /\ states' = [states EXCEPT ![u].last = m, ![u].award = now]
    /\ dirty' = dirty \cup {u}
    /\ awards' = awards \cup {[user |-> u, message |-> m, slot |-> Slot(now)]}
    /\ UNCHANGED <<now, flags, batch, loading, flushing, tables, nextId, history>>

Repeats(a) == a.flagged > 0 /\ now - a.flagged < Decay
LastPause(strikes) == IF strikes < Len(Pauses) THEN strikes ELSE Len(Pauses)

\* The message that completes a suspicious pattern earns nothing.
RaiseFlag(u, m) ==
    /\ Counts(u, m)
    /\ LET a == states[u]
           strikes == LastPause(IF Repeats(a) THEN a.strikes + 1 ELSE 1)
           until == now + Pauses[strikes]
       IN  /\ states' = [states EXCEPT ![u] =
                  [last |-> m, award |-> now, blocked |-> until,
                   flagged |-> now, strikes |-> strikes]]
           /\ flags' = flags \cup {[user |-> u, at |-> now, until |-> until]}
    /\ dirty' = dirty \cup {u}
    /\ UNCHANGED <<now, awards, batch, loading, flushing, tables, nextId, history>>

\* release(), which then calls flush(): the steps from BeginFlush on, which are
\* possible whenever something is dirty.
Release(u) ==
    /\ states[u] # None /\ states[u].strikes > 0
    /\ states' = [states EXCEPT ![u].blocked = 0, ![u].strikes = 0]
    /\ dirty' = dirty \cup {u}
    /\ lifted' = lifted \cup {f \in audit \cup flags : f.user = u}
                        \cup (IF batch = None THEN {} ELSE {f \in batch.flags : f.user = u})
    /\ UNCHANGED <<now, awards, flags, batch, loading, flushing, tables, nextId,
                   credited, expired>>

------------------------------------------------------------------------------
(* flush() *)

CanSnapshot == dirty # {} /\ nextId <= MaxBatches

DirtyStates == [u \in Users |-> IF u \in dirty THEN states[u] ELSE None]

\* The snapshot empties the fields it copies.
Snapshot ==
    /\ batch' = [id |-> nextId, time |-> now,
                 states |-> DirtyStates,
                 awards |-> awards, flags |-> flags]
    /\ dirty' = {} /\ awards' = {} /\ flags' = {}
    /\ nextId' = nextId + 1

\* The batch left by a failed write goes first.
BeginFlush ==
    /\ flushing = 0
    /\ flushing' = 1
    /\ \/ batch # None /\ UNCHANGED <<dirty, awards, flags, batch, nextId>>
       \/ batch = None /\ CanSnapshot /\ Snapshot
    /\ UNCHANGED <<now, states, loading, tables, history>>

MaxOf(x, y) == IF x > y THEN x ELSE y
SumOf(f) == FoldSet(LAMBDA m, sum : f[m] + sum, 0, DOMAIN f)

Earned(b, u) == {a \in b.awards : a.user = u}
Added(b, u) == [m \in Minutes |->
    monthly[u][m] + Cardinality({a \in Earned(b, u) : a.slot = m})]

\* Mutant of Cleared: the minute of the flag itself is not over, and stays.
ClearedBefore(f) == {m \in Minutes : f.at - Window <= m /\ m + PerMinute <= f.at}

\* The minutes a flag clears: those that begin within the window before it, its own
\* among them.
Cleared(f) == {m \in Minutes : f.at - Window <= m /\ m <= f.at}

\* Mutant of Kept: a flag books the cleared minutes as negative XP.
KeptNegative(b, u) == [m \in Minutes |->
    IF \E f \in b.flags : f.user = u /\ m \in Cleared(f) THEN -Added(b, u)[m] ELSE Added(b, u)[m]]

\* Awards first, then each flag takes the user's recent minutes away.
Kept(b, u) == [m \in Minutes |->
    IF \E f \in b.flags : f.user = u /\ m \in Cleared(f) THEN 0 ELSE Added(b, u)[m]]

\* Mutant of NewTotal: what a flag takes back stays in the all-time total.
TotalWithoutPenalty(b, u) == total[u] + Cardinality(Earned(b, u))

NewTotal(b, u) == MaxOf(0, total[u] + Cardinality(Earned(b, u))
                               - (SumOf(Added(b, u)) - SumOf(Kept(b, u))))

\* The transaction of write_batch(). With its receipt there already it is empty.
Transaction(b) ==
    \/ (\E r \in receipts : r.id = b.id) /\ UNCHANGED <<tables, credited>>
    \/ /\ \A r \in receipts : r.id # b.id
       /\ receipts' = receipts \cup {[id |-> b.id, at |-> b.time]}
       /\ monthly' = [u \in Users |-> Kept(b, u)]
       /\ total' = [u \in Users |-> NewTotal(b, u)]
       /\ audit' = audit \cup b.flags
       /\ activity' = [u \in Users |->
             IF b.states[u] = None THEN activity[u]
                                   ELSE [state |-> b.states[u], at |-> b.time]]
       /\ credited' = [u \in Users |-> [m \in Ticks |->
             credited[u][m] + Cardinality({a \in Earned(b, u) : a.message = m})]]

\* Users idle for two hours are forgotten, unless something of theirs is still
\* to be written.
Evictable == {u \in Users : states[u] # None /\ loading[u] = None /\ u \notin dirty}

Evict == \E idle \in SUBSET Evictable :
    states' = [u \in Users |-> IF u \in idle THEN None ELSE states[u]]

\* A flush() that finds nothing to write forgets idle users all the same.
FlushNothing ==
    /\ flushing = 0 /\ batch = None /\ dirty = {}
    /\ Evict
    /\ UNCHANGED <<now, dirty, awards, flags, batch, loading, flushing, tables, nextId, history>>

\* The commit is acknowledged. After the first round a second one writes what
\* came meanwhile; evict() ends the flush.
Acknowledged ==
    /\ flushing > 0
    /\ Transaction(batch)
    /\ \/ /\ flushing = 1 /\ CanSnapshot
          /\ Snapshot
          /\ flushing' = 2
          /\ UNCHANGED states
       \/ /\ flushing = 2 \/ ~CanSnapshot
          /\ batch' = None
          /\ flushing' = 0
          /\ Evict
          /\ UNCHANGED <<dirty, awards, flags, nextId>>
    /\ UNCHANGED <<now, loading, lifted, expired>>

\* The commit happens and its response is lost: flush() raises and keeps the batch.
ResponseLost ==
    /\ flushing > 0
    /\ Transaction(batch)
    /\ flushing' = 0
    /\ UNCHANGED <<now, states, dirty, awards, flags, batch, loading, nextId, lifted, expired>>

\* Mutant of WriteFails: the batch is dropped.
WriteDropped ==
    /\ flushing > 0
    /\ flushing' = 0 /\ batch' = None
    /\ UNCHANGED <<now, states, dirty, awards, flags, loading, tables, nextId, history>>

\* MySQL refuses or rolls back, or the task is cancelled.
WriteFails ==
    /\ flushing > 0
    /\ flushing' = 0
    /\ UNCHANGED <<now, states, dirty, awards, flags, batch, loading, tables, nextId, history>>

------------------------------------------------------------------------------
\* Mutant of LastingReceipts: the receipt of the pending batch is deleted too.
RecentReceipts == {r \in receipts : now - r.at <= Retention}

LastingReceipts == {r \in receipts : now - r.at <= Retention
                                     \/ (batch # None /\ r.id = batch.id)}

\* cleanup(), under the flush lock: old receipts but the pending one, old audit
\* records and idle checkpoints are deleted.
Cleanup ==
    /\ flushing = 0
    /\ receipts' = LastingReceipts
    /\ audit' = {f \in audit : now - f.at <= Retention}
    /\ activity' = [u \in Users |->
          IF activity[u] # None /\ now - activity[u].at > Expire THEN None ELSE activity[u]]
    /\ <<receipts, audit, activity>>' # <<receipts, audit, activity>>
    /\ UNCHANGED <<now, memory, total, monthly, nextId, history>>

\* monthly_cleanup_task() of the ranking cog, before it calls cleanup() and without the
\* flush lock: old minutes are deleted, and the all-time totals stay. Its statements of
\* 5000 rows each are one step.
Recent(u) == [m \in Minutes |-> IF m < now - Month THEN 0 ELSE monthly[u][m]]

DeleteOldMinutes ==
    /\ monthly' = [u \in Users |-> Recent(u)]
    /\ expired' = [u \in Users |-> [m \in Minutes |->
          expired[u][m] + monthly[u][m] - Recent(u)[m]]]
    /\ monthly' # monthly
    /\ UNCHANGED <<now, memory, total, activity, receipts, audit, nextId, credited, lifted>>

\* A hard crash loses the memory and rolls an open transaction back.
Crash ==
    /\ states # [u \in Users |-> None] \/ batch # None
    /\ states' = [u \in Users |-> None]
    /\ dirty' = {} /\ awards' = {} /\ flags' = {}
    /\ batch' = None
    /\ loading' = [u \in Users |-> None]
    /\ flushing' = 0
    /\ UNCHANGED <<now, tables, nextId, history>>

Tick ==
    /\ now < MaxTime
    /\ now' = now + 1
    /\ UNCHANGED <<memory, tables, nextId, history>>

Next ==
    \/ \E u \in Users :
          \/ BeginLoad(u) \/ EndLoad(u) \/ Release(u)
          \/ \E m \in Ticks : Earn(u, m) \/ RaiseFlag(u, m)
    \/ BeginFlush \/ FlushNothing \/ Acknowledged \/ ResponseLost \/ WriteFails
    \/ Cleanup \/ DeleteOldMinutes \/ Crash \/ Tick

Spec == Init /\ [][Next]_vars

------------------------------------------------------------------------------
(* What the guard promises. *)

\* The all-time total and the per-minute table agree, but for the minutes that were
\* deleted for their age: no award and no rollback reaches one without the other, and
\* nothing is taken back twice, not even by a flag that is written after the minutes
\* of its window have been deleted.
TotalsAgree == \A u \in Users : total[u] = SumOf(monthly[u]) + SumOf(expired[u])

\* From the minute of a recorded flag to the end of a pause that nobody lifted no XP is
\* recorded, what was earned in that minute before the flag included, though the
\* account's checkpoint is evicted, reloaded and restored after crashes. The minute in
\* which the pause ends may hold XP again.
Paused(f, m) == Slot(f.at) <= m /\ m + PerMinute <= f.until
NoXPWhilePaused ==
    \A f \in audit \ lifted : \A m \in Minutes : Paused(f, m) => monthly[f.user][m] = 0

\* What is in memory and neither dirty nor in the pending batch is what the
\* table holds (or held, before an idle checkpoint expired): forgetting it
\* loses nothing.
CleanIsStored ==
    \A u \in Users :
        /\ states[u] # None /\ u \notin dirty
        /\ batch # None => batch.states[u] = None
        => activity[u] = None \/ activity[u].state = states[u]

\* The all-time totals are an account as Ledger describes it: whatever is
\* retried, lost, replayed or taken back, they grow only by messages that were
\* never counted before.
Counted == [u \in Users |-> {m \in Ticks : credited[u][m] > 0}]

TheLedger == INSTANCE Ledger WITH
    Messages <- Ticks, counted <- Counted, balance <- total

ImplementsLedger == TheLedger!Spec
==============================================================================
