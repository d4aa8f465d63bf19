-------------------------- MODULE ModuleReloadProofs --------------------------
(***************************************************************************)
(* A reload job runs at most once, in the process it was meant for, for    *)
(* any number of processes, jobs and failing writes.                       *)
(*                                                                         *)
(* The argument: only the controller writes a pending job, and with an id  *)
(* nobody has seen (Numbered), so the bot never puts one back. A job that  *)
(* the bot has accepted is pending nowhere when its reload begins          *)
(* (Accepted), and a job that is pending, or about to be accepted, has not *)
(* been reloaded (NotYetReloaded). The bot holds jobs of its own process   *)
(* only (OwnJob).                                                          *)
(***************************************************************************)
EXTENDS ModuleReload, TLAPS

\* Jobs are numbered as the controller writes them.
Numbered ==
    /\ file # None => file.id <= jobs
    /\ job # None => job.id <= jobs
    /\ \A i \in DOMAIN reloads : reloads[i].id <= jobs

\* The bot holds a job of its own process, and no pending one.
OwnJob ==
    /\ bot # "down" => runtime >= 1
    /\ job # None => job.runtime = runtime /\ job.state # "pending"

Pending(id) == file # None /\ file.id = id /\ file.state = "pending"

\* The file that said "pending" has been replaced when the job waits for its turn.
Accepted == bot = "waiting" => ~Pending(job.id)

NotYetReloaded ==
    \A i \in DOMAIN reloads :
        /\ ~Pending(reloads[i].id)
        /\ bot \in {"accepting", "waiting"} => job.id # reloads[i].id

IInv == TypeOK /\ Numbered /\ OwnJob /\ Accepted /\ NotYetReloaded /\ ReloadedOnce

USE ModuleReloadAssumption, NoneAssumption

LEMMA InitIInv == Init => IInv
<1> SUFFICES ASSUME Init PROVE IInv OBVIOUS
<1>1. reloads = <<>> /\ DOMAIN reloads = {} BY DEF Init
<1>2. TypeOK
  <2>1. 0 \in 0..MaxRuntimes /\ 0 \in 0..MaxJobs /\ 0 \in 0..MaxFaults
      BY ModuleReloadAssumption
  <2>2. reloads \in Seq([id : 1..MaxJobs, runtime : 1..MaxRuntimes, by : 1..MaxRuntimes])
      BY <1>1
  <2>3. lost \subseteq 1..MaxJobs /\ aged \in BOOLEAN BY DEF Init
  <2> QED BY <2>1, <2>2, <2>3 DEF Init, TypeOK
<1>3. Numbered /\ OwnJob /\ Accepted /\ NotYetReloaded /\ ReloadedOnce
    BY <1>1 DEF Init, Numbered, OwnJob, Accepted, NotYetReloaded, ReloadedOnce
<1> QED BY <1>2, <1>3 DEF IInv

\* The outcomes Seen tells a process about a pending job of its own.
LEMMA SeenPending ==
    ASSUME IInv, bot # "down", Seen(runtime) = "pending"
    PROVE  file # None /\ file.state = "pending" /\ file.runtime = runtime
<1>1. runtime # None BY DEF IInv, TypeOK, OwnJob
<1> QED BY <1>1 DEF Seen, Expired

Reload == [id : 1..MaxJobs, runtime : 1..MaxRuntimes, by : 1..MaxRuntimes]

\* What the other parts of IInv use of the types.
LEMMA TypeStep == IInv /\ [Next]_vars => TypeOK'
<1> SUFFICES ASSUME IInv, [Next]_vars PROVE TypeOK' OBVIOUS
<1> USE DEF IInv, TypeOK, NoRequest, Goto
<1>1. CASE UNCHANGED vars
    BY <1>1 DEF vars, controller, history
<1>2. CASE Age BY <1>2 DEF Age, controller, history
<1>3. CASE Request
  <2>1. CASE Ask BY <2>1 DEF Ask, history, OwnJob
  <2>2. CASE Share \/ RequestFails BY <2>2 DEF Share, RequestFails, history
  <2>3. CASE FindFree
    <3>1. request \in [at : {"asked", "writing"}, runtime : 1..MaxRuntimes]
        BY <2>3 DEF FindFree
    <3> QED BY <2>3, <3>1 DEF FindFree, history
  <2>4. CASE Queue
    <3>1. request \in [at : {"asked", "writing"}, runtime : 1..MaxRuntimes]
        BY <2>4 DEF Queue
    <3>2. jobs + 1 \in 1..MaxJobs BY <2>4 DEF Queue
    <3>3. file' \in Job BY <2>4, <3>1, <3>2 DEF Queue, Job
    <3>4. jobs + 1 \in 0..MaxJobs /\ file' # None BY <3>2, <3>3
    <3> QED BY <2>4, <3>3, <3>4 DEF Queue, history
  <2> QED BY <1>3, <2>1, <2>2, <2>3, <2>4 DEF Request
<1>4. CASE Task
  <2>1. CASE Pick
    <3>1. file \in Job /\ file # None BY <2>1, SeenPending DEF Pick
    <3>2. [file EXCEPT !.state = "running"] \in Job BY <3>1 DEF Job
    <3> QED BY <2>1, <3>2, NoneAssumption DEF Pick, controller, history
  <2>2. CASE Accept BY <2>2 DEF Accept, controller, history
  <2>3. CASE AcceptFails BY <2>3 DEF AcceptFails, MayFail, controller, history
  <2>4. CASE NoLoader
    <3>1. job \in Job BY <2>4 DEF NoLoader
    <3>2. [job EXCEPT !.state = "failed"] \in Job BY <3>1 DEF Job
    <3> QED BY <2>4, <3>2, NoneAssumption DEF NoLoader, controller, history
  <2>5. CASE Reloaded
    <3>1. job \in Job BY <2>5 DEF Reloaded
    <3>2. \A state \in {"completed", "failed"} : [job EXCEPT !.state = state] \in Job
        BY <3>1 DEF Job
    <3> QED BY <2>5, <3>2, NoneAssumption DEF Reloaded, controller, history
  <2>6. CASE Settle BY <2>6 DEF Settle, controller, history
  <2>7. CASE SettleFails \/ RecordFails
    <3>1. job \in Job BY <2>7 DEF SettleFails, RecordFails
    <3>2. job.id \in 1..MaxJobs BY <3>1 DEF Job
    <3>3. faults' \in 0..MaxFaults BY <2>7 DEF SettleFails, RecordFails, MayFail
    <3>4. lost' \subseteq 1..MaxJobs BY <2>7, <3>2 DEF SettleFails, RecordFails
    <3> QED BY <2>7, <3>3, <3>4 DEF SettleFails, RecordFails, controller
  <2>8. CASE RecordInterruption BY <2>8 DEF RecordInterruption, controller, history
  <2> QED BY <1>4, <2>1, <2>2, <2>3, <2>4, <2>5, <2>6, <2>7, <2>8 DEF Task
<1>5. CASE Begin
  <2>1. job \in Job BY <1>5 DEF Begin
  <2>2. [id |-> job.id, runtime |-> job.runtime, by |-> runtime] \in Reload
      BY <1>5, <2>1 DEF Begin, Job, OwnJob, Reload
  <2>3. reloads' \in Seq(Reload) BY <1>5, <2>2 DEF Begin, Reload
  <2> QED BY <1>5, <2>3 DEF Begin, controller, Reload
<1>6. CASE Start BY <1>6 DEF Start, controller, history
<1>7. CASE Interrupt
  <2>1. job \in Job BY <1>7 DEF Interrupt
  <2>2. [job EXCEPT !.state = "failed"] \in Job BY <2>1 DEF Job
  <2> QED BY <1>7, <2>2, NoneAssumption DEF Interrupt, controller, history
<1>8. CASE Close \/ Kill
  <2>1. file' \in Job \cup {None} BY <1>8 DEF Close, Kill
  <2>2. Unfinished(file) \subseteq 1..MaxJobs BY DEF Unfinished, Job
  <2>3. Unfinished(file') \subseteq 1..MaxJobs BY <2>1 DEF Unfinished, Job
  <2>4. CASE Close BY <2>1, <2>3, <2>4 DEF Close, controller
  <2>5. CASE Kill BY <2>2, <2>5 DEF Kill, controller
  <2> QED BY <1>8, <2>4, <2>5
<1>9. CASE CommandBegins \/ CommandEnds
    BY <1>9 DEF CommandBegins, CommandEnds, controller, history
<1> QED BY <1>1, <1>2, <1>3, <1>4, <1>5, <1>6, <1>7, <1>8, <1>9 DEF Next

\* A step that begins no reload, changes neither the process nor the numbering, and
\* leaves in the file and in the bot's hands nothing that was not there before, but
\* for the state of the job, which is not "pending".
LEMMA QuietStep ==
    ASSUME IInv, TypeOK', UNCHANGED <<runtime, reloads>>, jobs \in Nat,
           jobs' = jobs,
           bot' # "down" => bot # "down",
           \/ file' = file
           \/ /\ file' = job /\ job # None
              /\ bot' \notin {"accepting"},
           \/ job' = None
           \/ job' = job /\ bot' = bot
           \/ /\ job # None /\ job' # None
              /\ job'.id = job.id /\ job'.runtime = job.runtime /\ job'.state # "pending"
              /\ bot' \notin {"accepting", "waiting"},
           bot' = "waiting" => job' # None
    PROVE  IInv'
<1> USE DEF IInv
<1>1. Numbered' BY DEF Numbered
<1>2. OwnJob' BY DEF OwnJob
<1>3. \A id : Pending(id)' => Pending(id) BY DEF Pending, OwnJob
<1>4. Accepted' BY <1>3, NoneAssumption DEF Accepted, TypeOK
<1>5. NotYetReloaded' BY <1>3, NoneAssumption DEF NotYetReloaded, TypeOK
<1>6. ReloadedOnce' BY DEF ReloadedOnce
<1> QED BY <1>1, <1>2, <1>4, <1>5, <1>6

LEMMA InvStep == IInv /\ [Next]_vars => IInv'
<1> SUFFICES ASSUME IInv, [Next]_vars PROVE IInv' OBVIOUS
<1>0. TypeOK /\ TypeOK' /\ jobs \in Nat BY TypeStep DEF IInv, TypeOK
<1>00. reloads \in Seq(Reload) BY <1>0 DEF TypeOK, Reload
<1> USE DEF Goto
<1>1. CASE \/ UNCHANGED vars \/ Age
           \/ Ask \/ Share \/ FindFree \/ RequestFails
           \/ CommandBegins \/ CommandEnds
  <2>1. UNCHANGED <<file, job, bot, runtime, reloads, jobs>>
      BY <1>1 DEF vars, controller, history, Age, Ask, Share, FindFree, RequestFails,
         CommandBegins, CommandEnds
  <2>2. bot = "waiting" => job # None BY <1>0 DEF TypeOK
  <2> QED BY <1>0, <2>1, <2>2, QuietStep
<1>2. CASE Queue
  <2>1. /\ jobs' = jobs + 1 /\ file' # None /\ file'.id = jobs + 1
        /\ UNCHANGED <<runtime, bot, job, reloads>>
    <3>1. request.runtime \in 1..MaxRuntimes BY <1>0, <1>2 DEF Queue, TypeOK, NoRequest
    <3>2. jobs + 1 \in 1..MaxJobs BY <1>0, <1>2 DEF Queue
    <3>3. file' \in Job BY <1>2, <3>1, <3>2 DEF Queue, Job
    <3> QED BY <1>2, <3>3, NoneAssumption DEF Queue, history
  <2>2. \A i \in DOMAIN reloads : reloads[i].id \in Nat
    <3>1. \A i \in DOMAIN reloads : reloads[i] \in Reload BY <1>00
    <3> QED BY <3>1 DEF Reload
  <2>3. job # None => job.id \in Nat BY <1>0 DEF TypeOK, Job
  <2>4. Numbered' BY <1>0, <2>1, <2>2, <2>3 DEF IInv, Numbered
  <2>5. \A id : Pending(id)' => id = jobs + 1 BY <2>1 DEF Pending
  <2>6. OwnJob' /\ ReloadedOnce' BY <2>1 DEF IInv, OwnJob, ReloadedOnce
  <2>7. Accepted' /\ NotYetReloaded'
    <3>1. bot = "waiting" => job # None BY <1>0 DEF TypeOK
    <3> QED BY <1>0, <2>1, <2>2, <2>3, <2>5, <3>1
        DEF IInv, Numbered, Accepted, NotYetReloaded
  <2> QED BY <1>0, <2>4, <2>6, <2>7 DEF IInv
<1>3. CASE Start
  <2>1. job = None /\ UNCHANGED <<file, job, jobs, reloads>>
        /\ bot' = "polling" /\ runtime' = runtime + 1 /\ runtime \in Nat
      BY <1>0, <1>3 DEF Start, TypeOK, controller, history
  <2> QED BY <1>0, <2>1 DEF IInv, Numbered, OwnJob, Accepted, NotYetReloaded,
      ReloadedOnce, Pending
<1>4. CASE Pick
  <2>1. file # None /\ file.state = "pending" /\ file.runtime = runtime /\ file \in Job
      BY <1>0, <1>4, SeenPending DEF Pick, TypeOK
  <2>2. /\ job'.id = file.id /\ job'.runtime = runtime /\ job'.state = "running"
        /\ bot' = "accepting"
      BY <1>4, <2>1 DEF Pick, Job
  <2>3. UNCHANGED <<file, runtime, jobs, reloads>> /\ bot # "down"
      BY <1>4 DEF Pick, controller, history
  <2>4. Numbered' /\ OwnJob' /\ Accepted' /\ ReloadedOnce'
      BY <2>1, <2>2, <2>3 DEF IInv, Numbered, OwnJob, Accepted, ReloadedOnce
  <2>5. NotYetReloaded' BY <2>1, <2>2, <2>3 DEF IInv, NotYetReloaded, Pending
  <2> QED BY <1>0, <2>4, <2>5 DEF IInv
<1>5. CASE Accept
  <2>1. /\ file' = job /\ job # None /\ job' = job /\ bot' = "waiting"
        /\ bot = "accepting" /\ UNCHANGED <<runtime, jobs, reloads>>
      BY <1>0, <1>5 DEF Accept, controller, history, TypeOK
  <2>2. \A id : ~Pending(id)' BY <2>1 DEF IInv, OwnJob, Pending
  <2> QED BY <1>0, <2>1, <2>2 DEF IInv, Numbered, OwnJob, Accepted, NotYetReloaded,
      ReloadedOnce
<1>6. CASE Begin
  <2> DEFINE r == [id |-> job.id, runtime |-> job.runtime, by |-> runtime]
  <2>1. /\ bot = "waiting" /\ job # None /\ bot' = "reloading"
        /\ reloads' = Append(reloads, r)
        /\ UNCHANGED <<file, job, runtime, jobs>>
      BY <1>0, <1>6 DEF Begin, controller, TypeOK
  <2>2. /\ DOMAIN reloads' = 1..(Len(reloads) + 1) /\ Len(reloads) \in Nat
        /\ DOMAIN reloads = 1..Len(reloads)
        /\ reloads'[Len(reloads) + 1] = r
        /\ \A i \in DOMAIN reloads : reloads'[i] = reloads[i]
    <3> HIDE DEF r
    <3> QED BY <1>00, <2>1
  <2>3. \A i \in DOMAIN reloads' : i \in DOMAIN reloads \/ i = Len(reloads) + 1
      BY <2>2
  <2>4. Numbered' BY <2>1, <2>2, <2>3 DEF IInv, Numbered
  <2>5. OwnJob' /\ Accepted' BY <2>1 DEF IInv, OwnJob, Accepted
  <2>6. NotYetReloaded'
    <3>1. \A id : Pending(id)' <=> Pending(id) BY <2>1 DEF Pending
    <3>2. ~Pending(r.id) BY <2>1 DEF IInv, Accepted
    <3> QED BY <2>1, <2>2, <2>3, <3>1, <3>2 DEF IInv, NotYetReloaded
  <2>7. ReloadedOnce'
    <3>1. \A i \in DOMAIN reloads : reloads[i].id # r.id
        BY <2>1 DEF IInv, NotYetReloaded
    <3>2. r.by = r.runtime BY <2>1 DEF IInv, OwnJob
    <3> QED BY <2>2, <2>3, <3>1, <3>2 DEF IInv, ReloadedOnce
  <2> QED BY <1>0, <2>4, <2>5, <2>6, <2>7 DEF IInv
<1>7. CASE NoLoader \/ Reloaded \/ Interrupt
  <2>1. job # None /\ job \in Job BY <1>0, <1>7 DEF NoLoader, Reloaded, Interrupt, TypeOK
  <2>2. \A state \in {"completed", "failed"} :
            LET outcome == [job EXCEPT !.state = state] IN
            /\ outcome \in Job /\ outcome.id = job.id
            /\ outcome.runtime = job.runtime /\ outcome.state # "pending"
      BY <2>1 DEF Job
  <2>3. /\ job' # None /\ job'.id = job.id /\ job'.runtime = job.runtime
        /\ job'.state # "pending" /\ bot' \in {"settling", "interrupted"}
      BY <1>7, <2>2, NoneAssumption DEF NoLoader, Reloaded, Interrupt
  <2>4. UNCHANGED <<file, runtime, reloads, jobs>> /\ bot # "down"
      BY <1>7 DEF NoLoader, Reloaded, Interrupt, controller, history
  <2> QED BY <1>0, <2>1, <2>3, <2>4, QuietStep
<1>8. CASE AcceptFails \/ Settle \/ SettleFails \/ RecordInterruption \/ RecordFails
           \/ Close \/ Kill
  <2>1. /\ job' = None /\ bot' \in {"polling", "down"} /\ bot # "down"
        /\ file' = file \/ (file' = job /\ job # None)
        /\ UNCHANGED <<runtime, reloads, jobs>>
      BY <1>0, <1>8 DEF AcceptFails, Settle, SettleFails, RecordInterruption, RecordFails,
         Close, Kill, controller, history, TypeOK
  <2> QED BY <1>0, <2>1, QuietStep
<1> QED BY <1>1, <1>2, <1>3, <1>4, <1>5, <1>6, <1>7, <1>8 DEF Next, Request, Task

LEMMA IInvHolds == Spec => []IInv
  BY InitIInv, InvStep, PTL DEF Spec

\* The variables keep their types.
THEOREM TypeCorrect == Spec => []TypeOK
  BY IInvHolds, PTL DEF IInv

\* For any number of processes, requests and failing writes, no job is reloaded twice
\* or by another process than the one that was asked.
THEOREM NeverReplayed == Spec => []ReloadedOnce
  BY IInvHolds, PTL DEF IInv
==============================================================================
