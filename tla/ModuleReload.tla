----------------------------- MODULE ModuleReload -----------------------------
(***************************************************************************)
(* Reloading the bot's modules from FateControl: botutils/module_reload.py *)
(* with its two users, FateController.reload_modules() and the task        *)
(* watch_status_server_controls() of fate.py.                              *)
(*                                                                         *)
(* One file holds the last job. The controller reads it and writes a new   *)
(* one; the bot reads it and writes the job's progress. Each replaces the  *)
(* file in one step and neither locks it. The controller's own lock admits *)
(* one request at a time, from the status it asks for to the answer.       *)
(***************************************************************************)
EXTENDS Naturals, Sequences

CONSTANTS MaxRuntimes,   \* bound: processes of the bot
          MaxJobs,       \* bound: jobs written by the controller
          MaxFaults,     \* bound: failing writes
          None

ASSUME ModuleReloadAssumption ==
    MaxRuntimes \in Nat \ {0} /\ MaxJobs \in Nat \ {0} /\ MaxFaults \in Nat

VARIABLES
    file,        \* the job in self.path
    aged,        \* requested_at of that job is more than 60 s ago
    runtime,     \* self.runtime_id of the bot's newest process
    bot, job,    \* its task, and the job of execute_pending()
    lock,        \* bot._extension_operation_lock
    request,     \* reload_modules(): where it is, and the runtime_id it was told
    jobs, faults,
    reloads,     \* history: the reloads that have begun
    lost         \* history: the jobs whose outcome nobody is left to write

controller == <<request, jobs>>
history == <<reloads, lost>>
vars == <<file, aged, runtime, bot, job, lock, controller, faults, history>>

Job == [id : 1..MaxJobs, runtime : 1..MaxRuntimes,
        state : {"pending", "running", "completed", "failed"}]
ASSUME NoneAssumption == None \notin Job \cup 1..MaxRuntimes
NoRequest == [at |-> "idle", runtime |-> None]

TypeOK ==
    /\ file \in Job \cup {None} /\ job \in Job \cup {None}
    /\ aged \in BOOLEAN /\ lost \subseteq 1..MaxJobs
    /\ runtime \in 0..MaxRuntimes
    /\ bot \in {"down", "polling", "accepting", "waiting", "reloading", "settling",
                "interrupted"}
    /\ job = None <=> bot \in {"down", "polling"}
    /\ lock \in {"free", "command", "control"}
    /\ lock = "control" <=> bot = "reloading"
    /\ request = NoRequest \/ request \in [at : {"asked", "writing"}, runtime : 1..MaxRuntimes]
    /\ jobs \in 0..MaxJobs /\ faults \in 0..MaxFaults
    /\ reloads \in Seq([id : 1..MaxJobs, runtime : 1..MaxRuntimes, by : 1..MaxRuntimes])

Init ==
    /\ file = None /\ aged = FALSE /\ runtime = 0
    /\ bot = "down" /\ job = None /\ lock = "free"
    /\ request = NoRequest /\ jobs = 0 /\ faults = 0
    /\ reloads = <<>> /\ lost = {}

Expired == file.state = "pending" /\ aged

\* Mutant of Seen: whoever asks, the job counts as its own.
SeenByAnybody(reader) ==
    IF file = None THEN "idle" ELSE IF Expired THEN "failed" ELSE file.state

\* read(): what the file says to a reader that knows a runtime_id, or None. The
\* file itself keeps what it says.
Seen(reader) ==
    LET orphaned == /\ file.state \in {"pending", "running"}
                    /\ reader # None /\ file.runtime # reader
    IN IF file = None THEN "idle" ELSE IF orphaned \/ Expired THEN "failed" ELSE file.state

Age ==
    /\ file # None /\ file.state = "pending" /\ ~aged
    /\ aged' = TRUE
    /\ UNCHANGED <<file, runtime, bot, job, lock, controller, faults, history>>

MayFail == faults < MaxFaults /\ faults' = faults + 1
------------------------------------------------------------------------------
(* reload_modules(), of FateControl. *)

\* The bot is online and tells its runtime_id.
Ask ==
    /\ request = NoRequest /\ bot # "down"
    /\ request' = [at |-> "asked", runtime |-> runtime]
    /\ UNCHANGED <<file, aged, runtime, bot, job, lock, jobs, faults, history>>

\* queue(): a job under way is the answer,
Share ==
    /\ request.at = "asked" /\ Seen(request.runtime) \in {"pending", "running"}
    /\ request' = NoRequest
    /\ UNCHANGED <<file, aged, runtime, bot, job, lock, jobs, faults, history>>

\* and otherwise there will be a new one.
FindFree ==
    /\ request.at = "asked" /\ Seen(request.runtime) \notin {"pending", "running"}
    /\ request' = [request EXCEPT !.at = "writing"]
    /\ UNCHANGED <<file, aged, runtime, bot, job, lock, jobs, faults, history>>

Queue ==
    /\ request.at = "writing" /\ jobs < MaxJobs
    /\ jobs' = jobs + 1
    /\ file' = [id |-> jobs + 1, runtime |-> request.runtime, state |-> "pending"]
    /\ aged' = FALSE
    /\ request' = NoRequest
    /\ UNCHANGED <<runtime, bot, job, lock, faults, history>>

\* The file cannot be read or written, or the controller is restarted.
RequestFails ==
    /\ request # NoRequest
    /\ request' = NoRequest
    /\ UNCHANGED <<file, aged, runtime, bot, job, lock, jobs, faults, history>>

------------------------------------------------------------------------------
(* execute_pending(), every quarter of a second. *)

Goto(at, held) == bot' = at /\ job' = held

Start ==
    /\ bot = "down" /\ runtime < MaxRuntimes
    /\ runtime' = runtime + 1
    /\ bot' = "polling"
    /\ UNCHANGED <<file, aged, job, lock, controller, faults, history>>

Pick ==
    /\ bot = "polling" /\ Seen(runtime) = "pending"
    /\ Goto("accepting", [file EXCEPT !.state = "running"])
    /\ UNCHANGED <<file, aged, runtime, lock, controller, faults, history>>

\* Whatever the file says by now, it is replaced.
Accept ==
    /\ bot = "accepting"
    /\ file' = job
    /\ Goto("waiting", job)
    /\ UNCHANGED <<aged, runtime, lock, controller, faults, history>>

\* The error is logged and the task polls again.
AcceptFails ==
    /\ bot = "accepting" /\ MayFail
    /\ Goto("polling", None)
    /\ UNCHANGED <<file, aged, runtime, lock, controller, history>>

\* reload_from_control()
Begin ==
    /\ bot = "waiting" /\ lock = "free"
    /\ lock' = "control" /\ Goto("reloading", job)
    /\ reloads' = Append(reloads, [id |-> job.id, runtime |-> job.runtime, by |-> runtime])
    /\ UNCHANGED <<file, aged, runtime, controller, faults, lost>>

\* The Reload cog is not loaded.
NoLoader ==
    /\ bot = "waiting"
    /\ Goto("settling", [job EXCEPT !.state = "failed"])
    /\ UNCHANGED <<file, aged, runtime, lock, controller, faults, history>>

\* Mutant of Reloaded: an exception of the reload is left to the task, which polls on.
ReloadedOrForgotten ==
    /\ bot = "reloading" /\ lock' = "free"
    /\ \/ Goto("settling", [job EXCEPT !.state = "completed"])
       \/ Goto("polling", None)
    /\ UNCHANGED <<file, aged, runtime, controller, faults, history>>

\* All modules were reloaded, or some failed, or the reload raised.
Reloaded ==
    /\ bot = "reloading" /\ lock' = "free"
    /\ \E state \in {"completed", "failed"} : Goto("settling", [job EXCEPT !.state = state])
    /\ UNCHANGED <<file, aged, runtime, controller, faults, history>>

Settle ==
    /\ bot = "settling"
    /\ file' = job
    /\ Goto("polling", None)
    /\ UNCHANGED <<aged, runtime, lock, controller, faults, history>>

SettleFails ==
    /\ bot = "settling" /\ MayFail
    /\ lost' = lost \cup {job.id}
    /\ Goto("polling", None)
    /\ UNCHANGED <<file, aged, runtime, lock, controller, reloads>>

\* Mutant of Interrupt: the lock is not given back.
InterruptLocked ==
    /\ bot \in {"waiting", "reloading"}
    /\ Goto("interrupted", [job EXCEPT !.state = "failed"])
    /\ UNCHANGED <<file, aged, runtime, lock, controller, faults, history>>

\* close() cancels the task while it waits for the lock or reloads,
Interrupt ==
    /\ bot \in {"waiting", "reloading"}
    /\ Goto("interrupted", [job EXCEPT !.state = "failed"])
    /\ lock' = IF bot = "reloading" THEN "free" ELSE lock
    /\ UNCHANGED <<file, aged, runtime, controller, faults, history>>

\* The job that a file leaves as running.
Unfinished(f) == {j.id : j \in {k \in {f} \ {None} : k.state = "running"}}

RecordInterruption ==
    /\ bot = "interrupted"
    /\ file' = job /\ lock' = "free"
    /\ Goto("down", None)
    /\ UNCHANGED <<aged, runtime, controller, faults, history>>

\* The error takes the place of the cancellation: the task goes on, and close()
\* waits for it.
RecordFails ==
    /\ bot = "interrupted" /\ MayFail
    /\ lost' = lost \cup {job.id}
    /\ Goto("polling", None)
    /\ UNCHANGED <<file, aged, runtime, lock, controller, reloads>>

\* or elsewhere: a write that has begun is completed by its thread, or was never begun.
Close ==
    /\ bot \in {"polling", "accepting", "settling"}
    /\ file' \in IF bot = "polling" THEN {file} ELSE {file, job}
    /\ lost' = lost \cup Unfinished(file')
    /\ lock' = "free"
    /\ Goto("down", None)
    /\ UNCHANGED <<aged, runtime, controller, faults, reloads>>

Kill ==
    /\ bot # "down"
    /\ lost' = lost \cup Unfinished(file)
    /\ lock' = "free"
    /\ Goto("down", None)
    /\ UNCHANGED <<file, aged, runtime, controller, faults, reloads>>

\* The owner's commands reload, unload and publish under the same lock.
CommandBegins ==
    /\ bot # "down" /\ lock = "free" /\ lock' = "command"
    /\ UNCHANGED <<file, aged, runtime, bot, job, controller, faults, history>>

CommandEnds ==
    /\ lock = "command" /\ lock' = "free"
    /\ UNCHANGED <<file, aged, runtime, bot, job, controller, faults, history>>
------------------------------------------------------------------------------
Request == Ask \/ Share \/ FindFree \/ Queue \/ RequestFails

Task ==
    \/ Pick \/ Accept \/ AcceptFails \/ NoLoader \/ Reloaded
    \/ Settle \/ SettleFails \/ RecordInterruption \/ RecordFails

Next ==
    \/ Request \/ Age
    \/ Task \/ Begin
    \/ Start \/ Interrupt \/ Close \/ Kill
    \/ CommandBegins \/ CommandEnds

Spec == Init /\ [][Next]_vars

\* The event loop goes on, and time. The lock is granted in the order in which it
\* was asked for, hence the strong fairness. Nobody has to start the bot again.
FairSpec ==
    /\ Spec
    /\ WF_vars(Task) /\ SF_vars(Begin) /\ WF_vars(CommandEnds) /\ WF_vars(Age)
------------------------------------------------------------------------------
(* What the file promises. *)

\* A job is executed at most once, and by the process it was meant for, although
\* bot and controller write over each other's jobs and either may die between any
\* two writes. (execute_pending(), lines 59-67)
ReloadedOnce ==
    /\ \A i, k \in DOMAIN reloads : reloads[i].id = reloads[k].id => i = k
    /\ \A i \in DOMAIN reloads : reloads[i].by = reloads[i].runtime

\* A status page shows the job as under way.
Busy(id) ==
    /\ file # None /\ file.id = id
    /\ Seen(IF bot = "down" THEN None ELSE runtime) \in {"pending", "running"}

\* No job stays under way, which would turn every later request away (line 50): it
\* is executed, fails, expires or is replaced, also when the bot closes and nobody
\* starts it again. Excepted is a running job whose process was killed, or closed
\* between two writes, or could not write the outcome.
BusyEnds == \A id \in 1..MaxJobs : Busy(id) ~> ~Busy(id) \/ id \in lost
==============================================================================
