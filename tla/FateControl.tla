----------------------------- MODULE FateControl -----------------------------
(***************************************************************************)
(* The supervisor of the bot process: class FateController of              *)
(* apps/FateControl/server.py. HTTP handlers (start, stop, restart) and    *)
(* the monitor are coroutines of one event loop that share desired_running *)
(* and self.process and take turns on an asyncio.Lock; the code between    *)
(* two awaits is one step. Bot processes also come and go by themselves.   *)
(***************************************************************************)
EXTENDS Naturals, Sequences

CONSTANTS Clients,     \* HTTP handlers that can be under way at once
          Ops,         \* the operations they may ask for
          Procs,       \* process slots, free again when no one refers to them
          Monitor,     \* the monitor task
          None,
          External     \* a process not under this controller that has shown itself

ASSUME ControlAssumption ==
    /\ Ops \subseteq {"start", "stop", "restart"}
    /\ Monitor \notin Clients
    /\ None \notin Procs /\ External \notin Procs /\ None # External

Tasks == Clients \cup {Monitor}

VARIABLES
    desired,           \* self.desired_running
    child,             \* self.process, alive or not yet reaped, or None
    queue,             \* self.lock: its holder, then its waiters in order
    pc,                \* per task: where it is
    op,                \* per task: what it stops for, or took a process over for
    found,             \* per task: the fate.py process it knows of
    alive,             \* the live fate.py processes of this checkout
    ours               \* those of them that this controller has spawned

control == <<desired, child, queue, pc, op, found>>
vars == <<control, alive, ours>>

Holding == {"startStatus", "startScan", "spawn", "stopStatus", "stopWait"}
Queued == {"startQueued", "stopQueued"}
Restarting == {"restartScan", "restartScanned", "restartKill"}
Resting == {"idle", "failed"}   \* a handler that has answered, or has raised
Watching == {"sleep", "status", "backoff"}

TypeOK ==
    /\ desired \in BOOLEAN
    /\ child \in Procs \cup {None}
    /\ queue \in Seq(Tasks)
    /\ pc \in [Tasks -> Holding \cup Queued \cup Restarting \cup Resting
                          \cup Watching \cup {"off"}]
    /\ op \in [Tasks -> {"none", "stop", "restart", "takeover"}]
    /\ found \in [Tasks -> Procs \cup {None, External}]
    /\ alive \subseteq Procs
    /\ ours \subseteq alive

\* A controller that has just started: desired_running is the configured
\* autostart. startup()'s own start_bot() is one of the requests.
FreshPc == [t \in Tasks |-> IF t = Monitor THEN "sleep" ELSE "idle"]
FreshOp == [t \in Tasks |-> "none"]
FreshFound == [t \in Tasks |-> None]

Init ==
    /\ desired \in BOOLEAN
    /\ child = None
    /\ queue = <<>>
    /\ pc = FreshPc
    /\ op = FreshOp
    /\ found = FreshFound
    /\ alive = {}
    /\ ours = {}

OwnsRunning == child \in alive

\* bot_status(): a live bot answers, or does not: still starting, closing, slow.
Status == IF alive = {} THEN {FALSE} ELSE BOOLEAN

\* _bot_process(): the child while it runs, else any fate.py process.
Scan == CASE OwnsRunning -> {child}
          [] alive = {}  -> {None}
          [] OTHER       -> alive

Goto(t, label) == pc' = [pc EXCEPT ![t] = label]
GoOn(t, label) == Goto(t, label) /\ UNCHANGED <<op, found>>

\* Mutant of End: an exception of start_bot() ends the monitor task.
EndForGood(t, result, q) ==
    /\ Goto(t, IF t = Monitor /\ result # "failed" THEN "sleep" ELSE result)
    /\ op' = [op EXCEPT ![t] = "none"]
    /\ found' = [found EXCEPT ![t] = None]
    /\ queue' = q

\* What t was doing ends, with an answer or an exception, and leaves q as the
\* lock's queue. The monitor looks at the answer of a start_bot() no further.
End(t, result, q) ==
    /\ Goto(t, IF t = Monitor THEN "sleep" ELSE result)
    /\ op' = [op EXCEPT ![t] = "none"]
    /\ found' = [found EXCEPT ![t] = None]
    /\ queue' = q

------------------------------------------------------------------------------
(* start_bot() *)

\* With the lock, up to the first await. `running` says whether the child runs then.
StartLocked(t, q, running) ==
    /\ desired' = TRUE
    /\ \/ running /\ End(t, "idle", Tail(q))
       \/ /\ ~running
          /\ Goto(t, "startStatus") /\ queue' = q
          /\ found' = [found EXCEPT ![t] = None]
          /\ UNCHANGED op

\* Mutant of CallStart: start_bot() does not take the lock.
StartUnlocked(t, q, wanted, running) == StartLocked(t, Append(q, t), running)

\* A call of start_bot(): with a free lock it runs on without a pause. `wanted`
\* is desired_running as the caller leaves it.
CallStart(t, q, wanted, running) ==
    \/ q = <<>> /\ StartLocked(t, <<t>>, running)
    \/ /\ q # <<>>
       /\ GoOn(t, "startQueued") /\ queue' = Append(q, t)
       /\ desired' = wanted

StartGranted(t) ==
    /\ pc[t] = "startQueued" /\ Head(queue) = t
    /\ StartLocked(t, queue, OwnsRunning)
    /\ UNCHANGED <<child, alive, ours>>

StartStatus(t) ==
    /\ pc[t] = "startStatus"
    /\ \E answer \in Status :
          found' = [found EXCEPT ![t] = IF answer THEN External ELSE None]
    /\ Goto(t, "startScan")
    /\ UNCHANGED <<desired, child, queue, op, alive, ours>>

StartScan(t) ==
    /\ pc[t] = "startScan"
    /\ found' = [found EXCEPT ![t] = IF alive = {} THEN @ ELSE External]
    /\ Goto(t, "spawn")
    /\ UNCHANGED <<desired, child, queue, op, alive, ours>>

\* A restart that took a process over reports the conflict.
LeaveExternal(t) ==
    /\ pc[t] = "spawn" /\ found[t] = External
    /\ End(t, IF op[t] = "takeover" THEN "failed" ELSE "idle", Tail(queue))
    /\ UNCHANGED <<desired, child, alive, ours>>

\* A slot no one refers to is a process nobody has seen yet.
Unused(p) == p \notin alive \cup {child} /\ \A t \in Tasks : found[t] # p

Spawn(t, p) ==
    /\ pc[t] = "spawn" /\ found[t] = None
    /\ Unused(p)
    /\ child' = p
    /\ alive' = alive \cup {p}
    /\ ours' = ours \cup {p}
    /\ End(t, "idle", Tail(queue))
    /\ UNCHANGED desired

\* Popen raises: the answer is "service unavailable".
SpawnFails(t) ==
    /\ pc[t] = "spawn" /\ found[t] = None
    /\ End(t, "failed", Tail(queue))
    /\ UNCHANGED <<desired, child, alive, ours>>

------------------------------------------------------------------------------
(* stop_bot() *)

\* Mutant of Kill: a dead process is still counted as this controller's.
KillUncounted(p) == alive' = alive \ {p} /\ UNCHANGED ours

Kill(p) == alive' = alive \ {p} /\ ours' = ours \ {p}

\* With the lock, up to the first await: a running child is sent SIGTERM.
StopLocked(t, q) ==
    /\ desired' = FALSE
    /\ queue' = q
    /\ Goto(t, IF OwnsRunning THEN "stopWait" ELSE "stopStatus")

CallStop(t) ==
    \/ queue = <<>> /\ StopLocked(t, <<t>>)
    \/ /\ queue # <<>>
       /\ Goto(t, "stopQueued") /\ queue' = Append(queue, t)
       /\ UNCHANGED desired

StopGranted(t) ==
    /\ pc[t] = "stopQueued" /\ Head(queue) = t
    /\ StopLocked(t, queue)
    /\ UNCHANGED <<child, op, found, alive, ours>>

\* stop_bot() returns, and no child runs: a plain stop answers, a restart goes on
\* to start_bot().
Stopped(t) ==
    \/ op[t] = "stop" /\ End(t, "idle", Tail(queue)) /\ UNCHANGED desired
    \/ op[t] = "restart" /\ CallStart(t, Tail(queue), TRUE, FALSE)

\* Fate still answers, so it is running outside the controller: a conflict.
StopStatus(t) ==
    /\ pc[t] = "stopStatus"
    /\ \E answer \in Status :
          \/ answer /\ End(t, "failed", Tail(queue)) /\ UNCHANGED desired
          \/ ~answer /\ Stopped(t)
    /\ UNCHANGED <<child, alive, ours>>

\* Mutant of StopReaped: a child that does not heed SIGTERM is not killed.
StopGently(t) ==
    /\ pc[t] = "stopWait" /\ child # None
    /\ child' = None
    /\ Stopped(t)
    /\ UNCHANGED <<alive, ours>>

\* The wait in the thread is over: the child has died of SIGTERM, of itself
\* (a Die step) or, after fifteen seconds, of SIGKILL.
StopReaped(t) ==
    /\ pc[t] = "stopWait" /\ child # None
    /\ child' = None
    /\ Stopped(t)
    /\ Kill(child)

\* The monitor reaped the child first: self.process.returncode raises.
StopRaises(t) ==
    /\ pc[t] = "stopWait" /\ child = None
    /\ End(t, "failed", Tail(queue))
    /\ UNCHANGED <<desired, child, alive, ours>>

------------------------------------------------------------------------------
(* restart_bot() and the requests *)

RequestStart(t) ==
    /\ pc[t] \in Resting /\ "start" \in Ops
    /\ CallStart(t, queue, desired, OwnsRunning)
    /\ UNCHANGED <<child, alive, ours>>

RequestStop(t) ==
    /\ pc[t] \in Resting /\ "stop" \in Ops
    /\ op' = [op EXCEPT ![t] = "stop"]
    /\ CallStop(t)
    /\ UNCHANGED <<child, found, alive, ours>>

\* A running child is stopped; otherwise a process from elsewhere is looked for.
RequestRestart(t) ==
    /\ pc[t] \in Resting /\ "restart" \in Ops
    /\ op' = [op EXCEPT ![t] = "restart"]
    /\ \/ OwnsRunning /\ CallStop(t)
       \/ /\ ~OwnsRunning /\ Goto(t, "restartScan")
          /\ UNCHANGED <<desired, queue>>
    /\ UNCHANGED <<child, found, alive, ours>>

RestartScan(t) ==
    /\ pc[t] = "restartScan"
    /\ \E p \in Scan : found' = [found EXCEPT ![t] = p]
    /\ Goto(t, "restartScanned")
    /\ UNCHANGED <<desired, child, queue, op, alive, ours>>

RestartStops(t) ==
    /\ pc[t] = "restartScanned" /\ found[t] = None
    /\ CallStop(t)
    /\ UNCHANGED <<child, op, found, alive, ours>>

RestartTakesOver(t) ==
    /\ pc[t] = "restartScanned" /\ found[t] # None
    /\ desired' = FALSE
    /\ op' = [op EXCEPT ![t] = "takeover"]
    /\ Goto(t, "restartKill")
    /\ UNCHANGED <<child, queue, found, alive, ours>>

\* The process has been terminated, or was gone when terminate() came; a death
\* well before the coroutine goes on is a Die step.
TakenOver(t) ==
    /\ pc[t] = "restartKill"
    /\ Kill(found[t])
    /\ CallStart(t, queue, TRUE, child \in alive \ {found[t]})
    /\ UNCHANGED child

\* The scanned process is gone or may not be signalled: a RuntimeError.
TakeoverRefused(t) ==
    /\ pc[t] = "restartKill"
    /\ desired' = TRUE
    /\ End(t, "failed", queue)
    /\ UNCHANGED <<child, alive, ours>>

\* kill() is denied, or the process outlives it by five seconds: the handler of
\* TimeoutExpired is not itself guarded, and restart_bot() catches RuntimeError.
TakeoverRaises(t) ==
    /\ pc[t] = "restartKill" /\ found[t] \in alive
    /\ End(t, "failed", queue)
    /\ UNCHANGED <<desired, child, alive, ours>>

------------------------------------------------------------------------------
(* monitor() *)

\* A dead child is reaped without the lock.
Tick ==
    /\ pc[Monitor] = "sleep" /\ ~OwnsRunning
    /\ child' = None
    /\ Goto(Monitor, IF desired THEN "status" ELSE "sleep")
    /\ UNCHANGED <<desired, queue, op, found, alive, ours>>

MonitorStatus ==
    /\ pc[Monitor] = "status"
    /\ \E answer \in Status : Goto(Monitor, IF answer THEN "sleep" ELSE "backoff")
    /\ UNCHANGED <<desired, child, queue, op, found, alive, ours>>

\* After the backoff: the stop that may have come is looked for once.
Retry ==
    /\ pc[Monitor] = "backoff"
    /\ \/ desired /\ CallStart(Monitor, queue, TRUE, OwnsRunning)
       \/ ~desired /\ GoOn(Monitor, "sleep") /\ UNCHANGED <<desired, queue>>
    /\ UNCHANGED <<child, alive, ours>>

------------------------------------------------------------------------------
(* The controller itself, and the world. *)

Off == pc[Monitor] = "off"

\* cleanup(), once no handler is under way: the monitor is cancelled wherever
\* it is and the child is stopped.
CleanUp ==
    /\ ~Off /\ \A t \in Clients : pc[t] \in Resting
    /\ desired' = FALSE
    /\ Kill(child)
    /\ child' = None
    /\ queue' = <<>>
    /\ pc' = [t \in Tasks |-> "off"]
    /\ op' = FreshOp /\ found' = FreshFound

\* The controller is killed: its child lives on as an external process.
ControllerCrash ==
    /\ ~Off
    /\ child' = None
    /\ queue' = <<>>
    /\ ours' = {}
    /\ pc' = [t \in Tasks |-> "off"]
    /\ op' = FreshOp /\ found' = FreshFound
    /\ UNCHANGED <<desired, alive>>

Boot ==
    /\ Off
    /\ desired' \in BOOLEAN
    /\ pc' = FreshPc
    /\ ours' = {}
    /\ UNCHANGED <<child, queue, op, found, alive>>

Launch(p) ==
    /\ Unused(p)
    /\ alive' = alive \cup {p}
    /\ UNCHANGED <<control, ours>>

Die(p) ==
    /\ p \in alive
    /\ Kill(p)
    /\ UNCHANGED control

Step(t) ==
    \/ StartGranted(t) \/ StartStatus(t) \/ StartScan(t) \/ LeaveExternal(t)
    \/ (\E p \in Procs : Spawn(t, p)) \/ SpawnFails(t)
    \/ StopGranted(t) \/ StopStatus(t) \/ StopReaped(t) \/ StopRaises(t)
    \/ RestartScan(t) \/ RestartStops(t) \/ RestartTakesOver(t)
    \/ TakenOver(t) \/ TakeoverRefused(t) \/ TakeoverRaises(t)

Watch == Tick \/ MonitorStatus \/ Retry
Request == \E t \in Clients : RequestStart(t) \/ RequestStop(t) \/ RequestRestart(t)
World == \E p \in Procs : Launch(p) \/ Die(p)

Next == Request \/ (\E t \in Tasks : Step(t)) \/ Watch
        \/ CleanUp \/ ControllerCrash \/ Boot \/ World

Spec == Init /\ [][Next]_vars

\* The event loop runs every ready coroutine, threads finish, and Popen does
\* not fail for ever. Nobody has to ask for anything, and nothing has to die.
FairSpec == /\ Spec
            /\ \A t \in Tasks : WF_vars(Step(t)) /\ SF_vars(\E p \in Procs : Spawn(t, p))
            /\ WF_vars(Watch)
            /\ WF_vars(Boot)

------------------------------------------------------------------------------
(* What supervision promises. *)

\* The controller knows every live process it has spawned: no order of starts,
\* stops, restarts, reaps and deaths overwrites or drops the handle of one,
\* and its own shutdown leaves none behind.
NoLostChild == \A p \in ours : child = p

\* A Stop answered with success has left no process of this controller alive,
\* though starts and the monitor were at work while it waited for the lock.
StopLeavesNoChild ==
    [][\A t \in Clients : op[t] = "stop" /\ pc'[t] = "idle" => ours' = {}]_vars

\* No task waits behind a holder that is gone: the head of the lock's queue is
\* about to run or runs with the lock, and the others wait.
LockHeld ==
    /\ \A i \in 1..Len(queue) :
           pc[queue[i]] \in IF i = 1 THEN Holding \cup Queued ELSE Queued
    /\ \A t \in Tasks : pc[t] \in Holding => queue # <<>> /\ Head(queue) = t

\* Once the controller stays up and Fate stays wanted, Fate comes back however
\* often it dies, is launched by others or cannot be spawned.
WantedFateRuns == <>[](desired /\ ~Off) => []<>(alive # {})

\* "Do not let the monitor undo an intentional stop by calling start_bot": with
\* no request under way and none refused, desired_running is false because a
\* client's stop was the last request and was answered with success (or since
\* the controller's start); it does not become true again by the monitor's doing.
MonitorKeepsStop ==
    [][(\A t \in Clients : pc[t] = "idle") /\ ~desired /\ desired'
         => pc'[Monitor] = pc[Monitor] \/ Off]_vars
==============================================================================
