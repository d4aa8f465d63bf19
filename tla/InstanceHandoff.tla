--------------------------- MODULE InstanceHandoff ---------------------------
(***************************************************************************)
(* The single-instance lease of the bot: botutils/instance_handoff.py and  *)
(* the part of fate.py that claims it before bot.run(), watches it while   *)
(* the bot runs, and releases it in the `finally` of the main program.     *)
(*                                                                         *)
(* A process is one incarnation: its pid, start time and nonce together.   *)
(* Processes are natural numbers in the order of process_started_at.       *)
(* _process_matches compares pid and start time to within a second, so it  *)
(* is modelled as "that incarnation is alive".                             *)
(***************************************************************************)
EXTENDS Naturals

CONSTANTS Procs,       \* the incarnations of fate.py that are ever launched
          None         \* the absence of an owner, of a lock holder

ASSUME ProcsAssumption == Procs \subseteq Nat /\ None \notin Procs

VARIABLES pc,          \* where each process is in fate.py's main program
          lock,        \* holder of the OS lock on *.lock
          owner,       \* the owner file: the incarnation it names, or None
          request,     \* the handoff file: target and requester
          noticed      \* the request a watcher has read, per process

vars == <<pc, lock, owner, request, noticed>>

NoRequest == [target |-> None, requester |-> None]
Requests == [target : Procs, requester : Procs] \cup {NoRequest}

\* claim(): before the lock, reading the owner file, about to write one file
\* or the other, and between two polls.
Claiming == {"claiming", "reading", "taking", "asking", "waiting"}

\* After a successful claim: not yet watching, watching, looking at a request,
\* closing, left with a failed close(), and the two halves of release().
Claimed == {"starting", "running", "checking", "closing", "stuck",
            "releasing", "unlocking"}

\* Done with the lease, the interpreter not yet shut down: after a TimeoutError,
\* and after release().
Leaving == {"timedOut", "released"}

States == Claiming \cup Claimed \cup Leaving \cup {"absent", "exited"}

\* psutil finds the incarnation: _process_matches.
Alive(p) == pc[p] \notin {"absent", "exited"}

TypeOK ==
    /\ pc \in [Procs -> States]
    /\ lock \in Procs \cup {None}
    /\ owner \in Procs \cup {None}
    /\ request \in Requests
    /\ noticed \in [Procs -> Requests]

Init ==
    /\ pc = [p \in Procs |-> "absent"]
    /\ lock = None
    /\ owner = None
    /\ request = NoRequest
    /\ noticed = [p \in Procs |-> NoRequest]

Goto(p, state) == pc' = [pc EXCEPT ![p] = state]

\* Processes are numbered by start time.
Launch(p) ==
    /\ pc[p] = "absent"
    /\ \A q \in Procs : q < p => pc[q] # "absent"
    /\ Goto(p, "claiming")
    /\ UNCHANGED <<lock, owner, request, noticed>>

------------------------------------------------------------------------------
(* claim() *)

\* Mutant of LockForClaim: the lock file is opened and not locked.
ClaimUnlocked(p) ==
    /\ pc[p] = "claiming"
    /\ lock' = p
    /\ Goto(p, "reading")
    /\ UNCHANGED <<owner, request, noticed>>

LockForClaim(p) ==
    /\ pc[p] = "claiming"
    /\ lock = None
    /\ lock' = p
    /\ Goto(p, "reading")
    /\ UNCHANGED <<owner, request, noticed>>

\* Mutant of LeaseFree: a missing owner file is taken for an owner.
NeedsAnOwner(p) == owner = p \/ (owner # None /\ ~Alive(owner))

\* Mutant of LeaseFree: an owner that was asked counts as gone.
FreeOnceAsked(p) ==
    owner \notin {None, p} => ~Alive(owner) \/ request = [target |-> owner, requester |-> p]

\* Under the lock: a missing, dead or own owner leaves the lease to p.
LeaseFree(p) == owner \notin {None, p} => ~Alive(owner)

FindFree(p) ==
    /\ pc[p] = "reading"
    /\ LeaseFree(p)
    /\ Goto(p, "taking")
    /\ UNCHANGED <<lock, owner, request, noticed>>

FindOwned(p) ==
    /\ pc[p] = "reading"
    /\ ~LeaseFree(p)
    /\ Goto(p, "asking")
    /\ UNCHANGED <<lock, owner, request, noticed>>

TakeLease(p) ==
    /\ pc[p] = "taking"
    /\ owner' = p
    /\ lock' = None
    /\ Goto(p, "starting")
    /\ UNCHANGED <<request, noticed>>

\* Mutant of AskOwner: the lock is kept while waiting.
AskWithLock(p) ==
    /\ pc[p] = "asking"
    /\ request' = [target |-> owner, requester |-> p]
    /\ Goto(p, "waiting")
    /\ UNCHANGED <<lock, owner, noticed>>

\* The owner file cannot have changed since it was read: p holds the lock.
AskOwner(p) ==
    /\ pc[p] = "asking"
    /\ request' = [target |-> owner, requester |-> p]
    /\ lock' = None
    /\ Goto(p, "waiting")
    /\ UNCHANGED <<owner, noticed>>

Poll(p) ==
    /\ pc[p] = "waiting"
    /\ Goto(p, "claiming")
    /\ UNCHANGED <<lock, owner, request, noticed>>

\* TimeoutError: _claimed is False, so release() does nothing. The request stays,
\* and psutil finds its requester until the interpreter has shut down.
TimeOut(p) ==
    /\ pc[p] = "waiting"
    /\ Goto(p, "timedOut")
    /\ UNCHANGED <<lock, owner, request, noticed>>

Exit(p) ==
    /\ pc[p] \in Leaving
    /\ Goto(p, "exited")
    /\ UNCHANGED <<lock, owner, request, noticed>>

------------------------------------------------------------------------------
(* The bot runs. watch_for_replacement() reads the request without the lock. *)

StartWatching(p) ==
    /\ pc[p] = "starting"
    /\ Goto(p, "running")
    /\ UNCHANGED <<lock, owner, request, noticed>>

\* A login failure or another error before setup_hook reaches the watcher.
StartupFails(p) ==
    /\ pc[p] = "starting"
    /\ Goto(p, "releasing")
    /\ UNCHANGED <<lock, owner, request, noticed>>

ReadRequest(p) ==
    /\ pc[p] = "running"
    /\ request.target = p /\ request.requester # p
    /\ noticed' = [noticed EXCEPT ![p] = request]
    /\ Goto(p, "checking")
    /\ UNCHANGED <<lock, owner, request>>

\* Mutant of Yield: any request makes the bot close.
YieldBlindly(p) ==
    /\ pc[p] = "checking"
    /\ Goto(p, "closing")
    /\ UNCHANGED <<lock, owner, request, noticed>>

\* The liveness test of the requester follows the read of the file.
Yield(p) ==
    /\ pc[p] = "checking"
    /\ Alive(noticed[p].requester)
    /\ Goto(p, "closing")
    /\ UNCHANGED <<lock, owner, request, noticed>>

IgnoreRequest(p) ==
    /\ pc[p] = "checking"
    /\ ~Alive(noticed[p].requester)
    /\ Goto(p, "running")
    /\ UNCHANGED <<lock, owner, request, noticed>>

\* close() for another reason: an owner command, an interrupt.
ShutDown(p) ==
    /\ pc[p] \in {"running", "checking"}
    /\ Goto(p, "closing")
    /\ UNCHANGED <<lock, owner, request, noticed>>

\* close() has ended, bot.run() returns and the main program's finally runs.
CloseDone(p) ==
    /\ pc[p] = "closing"
    /\ Goto(p, "releasing")
    /\ UNCHANGED <<lock, owner, request, noticed>>

\* An exception of a resource's close() ends the watcher task, and no other
\* task watches the lease of a process that goes on running.
CloseFails(p) ==
    /\ pc[p] = "closing"
    /\ Goto(p, "stuck")
    /\ UNCHANGED <<lock, owner, request, noticed>>

------------------------------------------------------------------------------
(* release(): two files, deleted one after the other under the lock. *)

LockForRelease(p) ==
    /\ pc[p] = "releasing"
    /\ lock = None
    /\ lock' = p
    /\ owner' = IF owner = p THEN None ELSE owner
    /\ Goto(p, "unlocking")
    /\ UNCHANGED <<request, noticed>>

FinishRelease(p) ==
    /\ pc[p] = "unlocking"
    /\ request' = IF request.target = p THEN NoRequest ELSE request
    /\ lock' = None
    /\ Goto(p, "released")
    /\ UNCHANGED <<owner, noticed>>

\* A kill or a crash at any point: the OS drops the lock, the files stay.
Crash(p) ==
    /\ Alive(p)
    /\ lock' = IF lock = p THEN None ELSE lock
    /\ Goto(p, "exited")
    /\ UNCHANGED <<owner, request, noticed>>

------------------------------------------------------------------------------
Claim(p) == LockForClaim(p) \/ FindFree(p) \/ FindOwned(p) \/ TakeLease(p)
            \/ AskOwner(p) \/ Poll(p)
Watch(p) == StartWatching(p) \/ ReadRequest(p) \/ Yield(p) \/ IgnoreRequest(p)
Release(p) == LockForRelease(p) \/ FinishRelease(p)

Next ==
    \E p \in Procs :
        \/ Launch(p) \/ Claim(p) \/ TimeOut(p) \/ Exit(p) \/ Watch(p)
        \/ StartupFails(p) \/ ShutDown(p) \/ CloseDone(p) \/ CloseFails(p)
        \/ Release(p) \/ Crash(p)

Spec == Init /\ [][Next]_vars

\* A process that is not killed runs on, and a close() that does not fail ends.
\* The OS lock blocks, and pollers sleep without it: whoever waits for it gets
\* it in the end, though others take it in between. Nothing forces a launch,
\* a shutdown, a failure, a timeout or a crash.
FairSpec == Spec /\ \A p \in Procs :
                        /\ SF_vars(LockForClaim(p))
                        /\ SF_vars(LockForRelease(p))
                        /\ WF_vars(Claim(p))
                        /\ WF_vars(Watch(p))
                        /\ WF_vars(CloseDone(p))
                        /\ WF_vars(Release(p))

------------------------------------------------------------------------------
(* What the lease is for. *)

\* Never two instances of a profile between a successful claim() and the end
\* of release(), whatever crashes, times out or asks for the lease meanwhile:
\* the bot would answer every event twice.
OneInstance ==
    \A p, q \in Procs : pc[p] \in Claimed /\ pc[q] \in Claimed => p = q

\* The owner file of an instance that is still up is deleted only by its own
\* release(): a requester waits for the old instance to be gone.
LeaseNeverStolen ==
    [][owner # None /\ owner' # owner
         => ~Alive(owner) \/ pc[owner] = "releasing"]_vars

\* An instance that gives way does so for a live process that asked it for its
\* lease and has not held it since: one that still waits, or one that has just
\* timed out and is not gone yet. A request left behind by a process that died,
\* or that got the lease from somebody else, takes no bot down.
YieldsToAnAsker ==
    [][\A p \in Procs :
           Yield(p) => pc[noticed[p].requester] \in Claiming \cup {"timedOut"}]_vars

\* A process that wants the lease gets it or leaves, unless an instance
\* whose close() failed holds it.
ClaimSettles ==
    \A p \in Procs :
        pc[p] = "claiming" ~> \/ pc[p] \notin Claiming
                              \/ \E q \in Procs : pc[q] = "stuck"

\* The lease as Lease states it: the holder is whoever is past its claim, a
\* waiter whoever is in one, and a free lease somebody waits for is taken,
\* whatever owner file, request or lock was left behind.
Holder == IF \E p \in Procs : pc[p] \in Claimed
          THEN CHOOSE p \in Procs : pc[p] \in Claimed ELSE None
Waiting == {p \in Procs : pc[p] \in Claiming}
Gone == {p \in Procs : pc[p] \in Leaving \cup {"exited"}}

TheLease == INSTANCE Lease WITH
    Clients <- Procs, holder <- Holder, waiting <- Waiting, gone <- Gone

ImplementsLease == TheLease!Spec
==============================================================================
