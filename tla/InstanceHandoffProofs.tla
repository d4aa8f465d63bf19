------------------------ MODULE InstanceHandoffProofs ------------------------
(***************************************************************************)
(* The safety of the instance lease, for any set of incarnations.          *)
(*                                                                         *)
(* The argument: files change only under the OS lock (LockOwned); whoever  *)
(* has claimed is the one the owner file names (OwnerNamed), and the file  *)
(* names nobody while a release is half done (ReleaseClears); what a       *)
(* claimer has read of it is still true when it writes (ReadHolds),        *)
(* because an incarnation that is dead never comes back (OwnerHeld). Who   *)
(* is asked has claimed, and as long as it holds the lease, whoever asked  *)
(* for it cannot have got it (AskersWait).                                 *)
(***************************************************************************)
EXTENDS InstanceHandoff, TLAPS

\* The OS lock is held exactly by the process that is between its two calls.
LockOwned == \A p \in Procs :
    pc[p] \in {"reading", "taking", "asking", "unlocking"} <=> lock = p

\* From claim() to the first half of release() the owner file names the process.
OwnerNamed == \A p \in Procs : pc[p] \in Claimed \ {"unlocking"} => owner = p

\* Between the two halves of release() it names nobody.
ReleaseClears == \A p \in Procs : pc[p] = "unlocking" => owner = None

\* Between reading the owner file and writing, what was read stays true.
ReadHolds == \A p \in Procs :
    /\ pc[p] = "taking" => LeaseFree(p)
    /\ pc[p] = "asking" => owner \notin {None, p}

\* The owner file names one that holds the lease, or died with it.
OwnerHeld == owner # None => pc[owner] \in Claimed \cup {"exited"}

\* A watcher looks at requests of others that name it.
NoticesOwn == \A p \in Procs :
    pc[p] = "checking" => noticed[p].target = p /\ noticed[p].requester # p

\* One that was asked for its lease has claimed it; until it lets go, who asked
\* still waits, has timed out or is gone.
AskersWait ==
    /\ request.target # None => pc[request.target] \in Claimed \cup {"released", "exited"}
    /\ \A p \in Procs :
           /\ noticed[p].target # None => pc[p] \in Claimed \cup {"released", "exited"}
           /\ \A r \in {request, noticed[p]} : pc[p] \in Claimed /\ r.target = p
                  => pc[r.requester] \in Claiming \cup {"timedOut", "exited"}

IInv == /\ TypeOK /\ LockOwned /\ OwnerNamed /\ ReleaseClears
        /\ ReadHolds /\ OwnerHeld /\ NoticesOwn /\ AskersWait

USE ProcsAssumption

LEMMA InitIInv == Init => IInv
  BY DEF Init, IInv, TypeOK, LockOwned, OwnerNamed, ReleaseClears, ReadHolds,
         OwnerHeld, NoticesOwn, AskersWait, Requests, NoRequest, States, Claiming,
         Claimed, Leaving, LeaseFree, Alive

LEMMA TypeStep == TypeOK /\ IInv /\ [Next]_vars => TypeOK'
<1> SUFFICES ASSUME TypeOK, IInv, [Next]_vars PROVE TypeOK'
    OBVIOUS
<1> USE DEF TypeOK, Goto, States, Claiming, Claimed, Leaving
<1>1. CASE UNCHANGED vars
    BY <1>1 DEF vars
<1>2. ASSUME NEW p \in Procs, Launch(p) PROVE TypeOK'
    BY <1>2 DEF Launch
<1>3. ASSUME NEW p \in Procs, Claim(p) PROVE TypeOK'
  <2>1. CASE LockForClaim(p) BY <2>1 DEF LockForClaim
  <2>2. CASE FindFree(p) BY <2>2 DEF FindFree
  <2>3. CASE FindOwned(p) BY <2>3 DEF FindOwned
  <2>4. CASE TakeLease(p) BY <2>4 DEF TakeLease
  <2>5. CASE AskOwner(p)
    <3>1. owner \in Procs BY <2>5 DEF AskOwner, IInv, ReadHolds
    <3> QED BY <2>5, <3>1 DEF AskOwner, Requests
  <2>6. CASE Poll(p) BY <2>6 DEF Poll
  <2> QED BY <1>3, <2>1, <2>2, <2>3, <2>4, <2>5, <2>6 DEF Claim
<1>4. ASSUME NEW p \in Procs, TimeOut(p) \/ Exit(p) PROVE TypeOK'
    BY <1>4 DEF TimeOut, Exit
<1>5. ASSUME NEW p \in Procs, Watch(p) PROVE TypeOK'
    BY <1>5 DEF Watch, StartWatching, ReadRequest, Yield, IgnoreRequest
<1>6. ASSUME NEW p \in Procs, StartupFails(p) \/ ShutDown(p) \/ CloseDone(p) \/ CloseFails(p)
      PROVE TypeOK'
    BY <1>6 DEF StartupFails, ShutDown, CloseDone, CloseFails
<1>7. ASSUME NEW p \in Procs, Release(p) PROVE TypeOK'
    BY <1>7 DEF Release, LockForRelease, FinishRelease, Requests
<1>8. ASSUME NEW p \in Procs, Crash(p) PROVE TypeOK'
    BY <1>8 DEF Crash
<1> QED
    BY <1>1, <1>2, <1>3, <1>4, <1>5, <1>6, <1>7, <1>8 DEF Next

\* A step of one process keeps AskersWait, if the process goes no way back and
\* any request it writes is its own, to the owner.
LEMMA AskersStep ==
    ASSUME IInv, TypeOK', NEW p \in Procs, NEW label, Goto(p, label),
           label \in Claimed => pc[p] \in Claimed,
           pc[p] \in Claiming \cup {"timedOut", "exited"}
             => label \in Claiming \cup {"timedOut", "exited"},
           pc[p] \in Claimed \cup {"released", "exited"}
             => label \in Claimed \cup {"released", "exited"},
           \A q \in Procs : \/ noticed'[q] = noticed[q]
                            \/ q = p /\ pc[p] \in Claimed /\ noticed'[q] = request,
           \/ request' \in {request, NoRequest}
           \/ /\ request' = [target |-> owner, requester |-> p]
              /\ owner \notin {None, p} /\ label \in Claiming
    PROVE  AskersWait'
<1> USE DEF IInv, TypeOK, Goto
<1> DEFINE Waits == Claiming \cup {"timedOut", "exited"}
           Held == Claimed \cup {"released", "exited"}
<1>1. pc'[p] = label /\ \A q \in Procs : q # p => pc'[q] = pc[q] OBVIOUS
<1>2. \A q \in Procs : /\ pc[q] \in Waits => pc'[q] \in Waits
                       /\ pc[q] \in Held => pc'[q] \in Held
                       /\ pc'[q] \in Claimed => pc[q] \in Claimed
    BY <1>1
<1>3. request'.target # None => pc'[request'.target] \in Held
  <2>1. CASE request' \in {request, NoRequest}
      BY <1>2, <2>1 DEF AskersWait, Requests, NoRequest
  <2>2. CASE request' = [target |-> owner, requester |-> p] /\ owner \notin {None, p}
    <3>1. owner \in Procs /\ pc[owner] \in Held BY <2>2 DEF OwnerHeld
    <3> QED BY <1>2, <2>2, <3>1
  <2> QED BY <2>1, <2>2
<1>4. ASSUME NEW q \in Procs, noticed'[q].target # None PROVE pc'[q] \in Held
    BY <1>2, <1>4 DEF AskersWait
<1>5. ASSUME NEW q \in Procs, NEW r \in {request', noticed'[q]}, pc'[q] \in Claimed, r.target = q
      PROVE  pc'[r.requester] \in Waits
  <2>1. pc[q] \in Claimed BY <1>2, <1>5
  <2>2. CASE r \in {request, noticed[q]}
    <3>1. r.requester \in Procs BY <1>5, <2>2 DEF Requests, NoRequest
    <3>2. pc[r.requester] \in Waits BY <1>5, <2>1, <2>2 DEF AskersWait
    <3> QED BY <1>2, <3>1, <3>2
  <2>3. CASE r = NoRequest BY <1>5, <2>3 DEF NoRequest
  <2>4. CASE r = [target |-> owner, requester |-> p] /\ label \in Claiming
      BY <1>1, <2>4
  <2> QED BY <1>5, <2>2, <2>3, <2>4
<1> QED BY <1>3, <1>4, <1>5 DEF AskersWait

\* A step that keeps the files and the lock, and moves one process between two
\* labels on the same side of every clause of IInv but NoticesOwn.
LEMMA QuietStep ==
    ASSUME IInv, TypeOK', NEW p \in Procs, NEW label, Goto(p, label),
           UNCHANGED <<lock, owner, request>>,
           pc[p] \notin {"reading", "taking", "asking", "unlocking", "exited"},
           label \notin {"reading", "taking", "asking", "unlocking", "absent"},
           label \in Claimed <=> pc[p] \in Claimed,
           pc[p] \in Claiming \cup {"timedOut"}
             => label \in Claiming \cup {"timedOut", "exited"},
           pc[p] = "released" => label = "exited",
           label = "checking" => noticed'[p].target = p /\ noticed'[p].requester # p,
           \A q \in Procs : \/ noticed'[q] = noticed[q]
                            \/ q = p /\ pc[p] \in Claimed /\ noticed'[q] = request,
           pc[p] = "absent" => label = "claiming"
    PROVE  IInv'
<1> USE DEF IInv, TypeOK, Goto
<1>1. LockOwned' BY DEF LockOwned
<1>2. OwnerNamed' BY DEF OwnerNamed, Claimed
<1>3. ReleaseClears' BY DEF ReleaseClears
<1>4. ReadHolds'
  <2> SUFFICES ASSUME NEW q \in Procs
               PROVE  /\ pc'[q] = "taking" => LeaseFree(q)'
                      /\ pc'[q] = "asking" => owner' \notin {None, q}
      BY DEF ReadHolds
  <2>1. q = p => pc'[q] \notin {"taking", "asking"} OBVIOUS
  <2>2. q # p => pc'[q] = pc[q] OBVIOUS
  <2>3. ASSUME pc[q] = "taking", q # p PROVE LeaseFree(q)'
      BY <2>3 DEF ReadHolds, LeaseFree, Alive, OwnerHeld, Claimed
  <2> QED BY <2>1, <2>2, <2>3 DEF ReadHolds
<1>5. OwnerHeld' BY DEF OwnerHeld
<1>6. NoticesOwn' BY DEF NoticesOwn
<1>7. AskersWait' BY AskersStep DEF Claimed, Claiming
<1> QED BY <1>1, <1>2, <1>3, <1>4, <1>5, <1>6, <1>7

LEMMA InvStep == IInv /\ [Next]_vars => IInv'
<1> SUFFICES ASSUME IInv, [Next]_vars PROVE IInv'
    OBVIOUS
<1> USE DEF IInv
<1>0. TypeOK /\ TypeOK' BY TypeStep
<1>1. CASE UNCHANGED vars
  <2>1. AskersWait' BY <1>0, <1>1 DEF vars, AskersWait
  <2> QED
      BY <1>0, <1>1, <2>1 DEF vars, LockOwned, OwnerNamed, ReleaseClears, ReadHolds,
          OwnerHeld, NoticesOwn, LeaseFree, Alive
<1>2. ASSUME NEW p \in Procs, Launch(p) PROVE IInv'
    BY <1>0, <1>2, QuietStep DEF Launch, Claimed, Claiming, AskersWait
<1>3. ASSUME NEW p \in Procs, LockForClaim(p) PROVE IInv'
  <2>1. AskersWait'
      BY <1>0, <1>3, AskersStep DEF LockForClaim, Claiming, Claimed
  <2>2. LockOwned' /\ OwnerNamed'
      BY <1>0, <1>3 DEF LockForClaim, Goto, TypeOK, LockOwned, OwnerNamed, Claimed
  <2>3. ReleaseClears' /\ NoticesOwn'
      BY <1>0, <1>3 DEF LockForClaim, Goto, TypeOK, ReleaseClears, NoticesOwn
  <2>4. ReadHolds'
      BY <1>0, <1>3 DEF LockForClaim, Goto, TypeOK, ReadHolds, LeaseFree, Alive
  <2>5. OwnerHeld'
      BY <1>0, <1>3 DEF LockForClaim, Goto, TypeOK, OwnerHeld, Claimed
  <2> QED BY <1>0, <2>1, <2>2, <2>3, <2>4, <2>5
<1>4. ASSUME NEW p \in Procs, FindFree(p) \/ FindOwned(p) PROVE IInv'
  <2>1. AskersWait'
      BY <1>0, <1>4, AskersStep DEF FindFree, FindOwned, Claiming, Claimed
  <2>2. LockOwned' /\ OwnerNamed'
      BY <1>0, <1>4 DEF FindFree, FindOwned, Goto, TypeOK, LockOwned, OwnerNamed, Claimed
  <2>3. ReleaseClears' /\ NoticesOwn'
      BY <1>0, <1>4 DEF FindFree, FindOwned, Goto, TypeOK, ReleaseClears, NoticesOwn
  <2>4. ReadHolds'
      BY <1>0, <1>4 DEF FindFree, FindOwned, Goto, TypeOK, ReadHolds, LeaseFree, Alive
  <2>5. OwnerHeld'
      BY <1>0, <1>4 DEF FindFree, FindOwned, Goto, TypeOK, OwnerHeld, Claimed
  <2> QED BY <1>0, <2>1, <2>2, <2>3, <2>4, <2>5
<1>5. ASSUME NEW p \in Procs, TakeLease(p) PROVE IInv'
  <2> USE DEF TakeLease, Goto, TypeOK
  <2>1. lock = p /\ \A q \in Procs : q # p =>
            pc[q] \notin {"reading", "taking", "asking", "unlocking"}
      BY <1>0, <1>5 DEF LockOwned
  <2>2. \A q \in Procs : q # p => pc[q] \notin Claimed
      BY <1>0, <1>5, <2>1 DEF ReadHolds, LeaseFree, Alive, OwnerNamed, Claimed
  <2>3. LockOwned' BY <1>0, <1>5, <2>1 DEF LockOwned
  <2>4. OwnerNamed' BY <1>0, <1>5, <2>2 DEF OwnerNamed, Claimed
  <2>5. ReleaseClears' BY <1>0, <1>5, <2>1 DEF ReleaseClears
  <2>6. ReadHolds' BY <1>0, <1>5, <2>1 DEF ReadHolds
  <2>7. AskersWait' BY <1>0, <1>5, <2>2 DEF AskersWait, Claimed, Requests, NoRequest
  <2>8. OwnerHeld' /\ NoticesOwn' BY <1>0, <1>5 DEF OwnerHeld, NoticesOwn, Claimed
  <2> QED BY <1>0, <2>3, <2>4, <2>5, <2>6, <2>7, <2>8
<1>6. ASSUME NEW p \in Procs, AskOwner(p) PROVE IInv'
  <2>1. owner \notin {None, p} BY <1>6 DEF AskOwner, ReadHolds
  <2>2. /\ Goto(p, "waiting") /\ noticed' = noticed /\ pc[p] = "asking"
        /\ request' = [target |-> owner, requester |-> p]
      BY <1>6 DEF AskOwner
  <2>3. AskersWait'
      BY <1>0, <2>1, <2>2, AskersStep DEF Claiming, Claimed
  <2>4. LockOwned' BY <1>0, <1>6, <2>2 DEF AskOwner, LockOwned, Goto, TypeOK
  <2>5. /\ OwnerNamed' /\ ReleaseClears' /\ OwnerHeld' /\ NoticesOwn'
      BY <1>0, <1>6, <2>2 DEF AskOwner, OwnerNamed, ReleaseClears, OwnerHeld, NoticesOwn,
         Claimed, Goto, TypeOK
  <2>6. ReadHolds'
      BY <1>0, <1>6, <2>2 DEF AskOwner, ReadHolds, LockOwned, LeaseFree, Alive, Goto, TypeOK
  <2> QED BY <1>0, <2>3, <2>4, <2>5, <2>6
<1>7. ASSUME NEW p \in Procs, Poll(p) \/ TimeOut(p) \/ Exit(p) PROVE IInv'
    BY <1>0, <1>7, QuietStep DEF Poll, TimeOut, Exit, Claimed, Claiming, Leaving, AskersWait
<1>8. ASSUME NEW p \in Procs, StartWatching(p) \/ Yield(p) \/ IgnoreRequest(p)
                  \/ StartupFails(p) \/ ShutDown(p) \/ CloseDone(p) \/ CloseFails(p)
      PROVE IInv'
    BY <1>0, <1>8, QuietStep DEF StartWatching, Yield, IgnoreRequest, StartupFails,
        ShutDown, CloseDone, CloseFails, Claimed, Claiming
<1>9. ASSUME NEW p \in Procs, ReadRequest(p) PROVE IInv'
  <2>1. /\ noticed'[p] = request
        /\ \A q \in Procs : q # p => noticed'[q] = noticed[q]
      BY <1>0, <1>9 DEF ReadRequest, TypeOK
  <2> QED BY <1>0, <1>9, <2>1, QuietStep DEF ReadRequest, Claimed, Claiming
<1>10. ASSUME NEW p \in Procs, LockForRelease(p) PROVE IInv'
  <2>1. owner = p /\ owner' = None
      BY <1>0, <1>10 DEF LockForRelease, OwnerNamed, Claimed
  <2>2. \A q \in Procs : q # p =>
            /\ pc[q] \notin {"reading", "taking", "asking", "unlocking"}
            /\ pc[q] \notin Claimed
      BY <1>0, <1>10, <2>1 DEF LockForRelease, LockOwned, OwnerNamed, Claimed
  <2>3. AskersWait' BY <1>0, <1>10, AskersStep DEF LockForRelease, Claiming, Claimed
  <2> QED
      BY <1>0, <1>10, <2>1, <2>2, <2>3 DEF LockForRelease, Goto, TypeOK, LockOwned, OwnerNamed,
        Claimed, ReleaseClears, ReadHolds, OwnerHeld, NoticesOwn, LeaseFree, Alive
<1>11. ASSUME NEW p \in Procs, FinishRelease(p) PROVE IInv'
  <2>1. AskersWait'
      BY <1>0, <1>11, AskersStep DEF FinishRelease, Claiming, Claimed
  <2> QED
      BY <1>0, <1>11, <2>1 DEF FinishRelease, Goto, TypeOK, LockOwned, OwnerNamed, Claimed,
          ReleaseClears, ReadHolds, OwnerHeld, NoticesOwn, LeaseFree, Alive
<1>12. ASSUME NEW p \in Procs, Crash(p) PROVE IInv'
  <2>1. AskersWait'
      BY <1>0, <1>12, AskersStep DEF Crash, Claiming, Claimed
  <2> QED
      BY <1>0, <1>12, <2>1 DEF Crash, Goto, TypeOK, LockOwned, OwnerNamed, Claimed,
          ReleaseClears, ReadHolds, OwnerHeld, NoticesOwn, LeaseFree, Alive
<1> QED
    BY <1>1, <1>2, <1>3, <1>4, <1>5, <1>6, <1>7, <1>8, <1>9, <1>10, <1>11, <1>12
    DEF Next, Claim, Watch, Release

LEMMA IInvHolds == Spec => []IInv
  BY InitIInv, InvStep, PTL DEF Spec

\* The variables keep their types.
THEOREM TypeCorrect == Spec => []TypeOK
  BY IInvHolds, PTL DEF IInv

LEMMA IInvOneInstance == IInv => OneInstance
  BY DEF IInv, LockOwned, OwnerNamed, ReleaseClears, OneInstance, Claimed

\* For any number of incarnations, crashes and requests, at most one process is
\* between a successful claim() and the end of release().
THEOREM MutualExclusion == Spec => []OneInstance
  BY IInvHolds, IInvOneInstance, PTL

\* The owner file of an instance that is up is deleted by its own release() only.
THEOREM LeaseSafety == Spec => LeaseNeverStolen
<1>1. IInv /\ [Next]_vars
        => [owner # None /\ owner' # owner
              => ~Alive(owner) \/ pc[owner] = "releasing"]_vars
  <2> SUFFICES ASSUME IInv, [Next]_vars, owner # None, owner' # owner
               PROVE  ~Alive(owner) \/ pc[owner] = "releasing"
      OBVIOUS
  <2>1. PICK p \in Procs : TakeLease(p) \/ LockForRelease(p)
      BY DEF Next, vars, Launch, Claim, LockForClaim, FindFree, FindOwned, AskOwner,
         Poll, TimeOut, Exit, Watch, StartWatching, ReadRequest, Yield, IgnoreRequest,
         StartupFails, ShutDown, CloseDone, CloseFails, Release, FinishRelease, Crash
  <2>2. CASE TakeLease(p)
      BY <2>2 DEF TakeLease, IInv, ReadHolds, LeaseFree
  <2>3. CASE LockForRelease(p)
      BY <2>3 DEF LockForRelease
  <2> QED BY <2>1, <2>2, <2>3
<1> QED BY <1>1, IInvHolds, PTL DEF Spec, LeaseNeverStolen

\* An instance gives way only to a live process that asked for its lease, and
\* waits for it or has just timed out.
THEOREM YieldSafety == Spec => YieldsToAnAsker
<1>1. IInv => \A p \in Procs :
          Yield(p) => pc[noticed[p].requester] \in Claiming \cup {"timedOut"}
  <2> SUFFICES ASSUME IInv, NEW p \in Procs, Yield(p)
               PROVE  pc[noticed[p].requester] \in Claiming \cup {"timedOut"}
      OBVIOUS
  <2>1. noticed[p].target = p /\ pc[p] \in Claimed
      BY DEF Yield, IInv, NoticesOwn, Claimed
  <2>2. pc[noticed[p].requester] \in Claiming \cup {"timedOut", "exited"}
      BY <2>1 DEF IInv, AskersWait
  <2> QED BY <2>2 DEF Yield, Alive
<1>2. IInv /\ [Next]_vars
        => [\A p \in Procs :
              Yield(p) => pc[noticed[p].requester] \in Claiming \cup {"timedOut"}]_vars
  BY <1>1
<1> QED BY <1>2, IInvHolds, PTL DEF Spec, YieldsToAnAsker

------------------------------------------------------------------------------
(* The lease of Lease: every step of a process is one of a client, or none. *)

LEMMA HolderIs ==
    ASSUME OneInstance, NEW p \in Procs, pc[p] \in Claimed PROVE Holder = p
<1>1. \E q \in Procs : pc[q] \in Claimed OBVIOUS
<1>2. /\ (CHOOSE q \in Procs : pc[q] \in Claimed) \in Procs
      /\ pc[CHOOSE q \in Procs : pc[q] \in Claimed] \in Claimed
    BY <1>1
<1> QED BY <1>1, <1>2 DEF Holder, OneInstance

LEMMA NoHolder ==
    ASSUME \A p \in Procs : pc[p] \notin Claimed PROVE Holder = None
  BY DEF Holder

\* A process that stays on its side of claim() and release() moves no client.
LEMMA SameClients ==
    ASSUME TypeOK, NEW p \in Procs, NEW label, Goto(p, label),
           label \in Claiming <=> pc[p] \in Claiming,
           label \in Claimed <=> pc[p] \in Claimed,
           label \in Leaving \cup {"exited"} <=> pc[p] \in Leaving \cup {"exited"}
    PROVE  UNCHANGED TheLease!vars
<1> USE DEF TypeOK, Goto
<1>1. \A q \in Procs : /\ pc'[q] \in Claiming <=> pc[q] \in Claiming
                       /\ pc'[q] \in Claimed <=> pc[q] \in Claimed
                       /\ pc'[q] \in Leaving \cup {"exited"}
                            <=> pc[q] \in Leaving \cup {"exited"}
    OBVIOUS
<1>2. Waiting' = Waiting BY <1>1 DEF Waiting
<1>3. Gone' = Gone BY <1>1 DEF Gone
<1>4. Holder' = Holder
  <2>1. (\E q \in Procs : pc'[q] \in Claimed) <=> \E q \in Procs : pc[q] \in Claimed
      BY <1>1
  <2>2. (CHOOSE q \in Procs : pc'[q] \in Claimed) = CHOOSE q \in Procs : pc[q] \in Claimed
      BY <1>1
  <2> QED BY <2>1, <2>2 DEF Holder
<1> QED BY <1>2, <1>3, <1>4 DEF TheLease!vars

\* A process that is done frees the lease if it holds it, and gives up otherwise.
LEMMA ExitIsGone ==
    ASSUME TypeOK, OneInstance, OneInstance', NEW p \in Procs, NEW label \in Leaving \cup {"exited"},
           Goto(p, label), pc[p] \in Claiming \cup Claimed
    PROVE  TheLease!GiveUp(p) \/ TheLease!Free(p)
<1> USE DEF TypeOK, Goto
<1>1. /\ pc'[p] = label
      /\ \A q \in Procs : q # p => pc'[q] = pc[q]
    OBVIOUS
<1>2. Gone' = Gone \cup {p} BY <1>1 DEF Gone
<1>3. CASE pc[p] \in Claiming
  <2>1. Waiting' = Waiting \ {p} BY <1>1 DEF Waiting, Claiming, Leaving
  <2>2. p \in Waiting BY <1>3 DEF Waiting
  <2>3. Holder' = Holder
    <3>1. CASE \E q \in Procs : pc[q] \in Claimed
      <4>1. PICK q \in Procs : pc[q] \in Claimed BY <3>1
      <4>2. q # p BY <1>3, <4>1 DEF Claiming, Claimed
      <4>3. pc'[q] \in Claimed BY <1>1, <4>1, <4>2
      <4>4. Holder = q BY <4>1, HolderIs
      <4>5. Holder' = q
        <5>1. \E r \in Procs : pc'[r] \in Claimed BY <4>3
        <5>2. /\ (CHOOSE r \in Procs : pc'[r] \in Claimed) \in Procs
              /\ pc'[CHOOSE r \in Procs : pc'[r] \in Claimed] \in Claimed
            BY <5>1
        <5> QED BY <4>3, <5>1, <5>2 DEF Holder, OneInstance
      <4> QED BY <4>4, <4>5
    <3>2. CASE \A q \in Procs : pc[q] \notin Claimed
      <4>1. \A q \in Procs : pc'[q] \notin Claimed BY <1>1, <3>2 DEF Claimed, Leaving
      <4> QED BY <3>2, <4>1 DEF Holder
    <3> QED BY <3>1, <3>2
  <2> QED BY <1>2, <2>1, <2>2, <2>3 DEF TheLease!GiveUp
<1>4. CASE pc[p] \in Claimed
  <2>1. Holder = p BY <1>4, HolderIs
  <2>2. \A q \in Procs : pc'[q] \notin Claimed
      BY <1>1, <1>4 DEF OneInstance, Claimed, Leaving
  <2>3. Holder' = None BY <2>2 DEF Holder
  <2>4. Waiting' = Waiting BY <1>1, <1>4 DEF Waiting, Claiming, Claimed, Leaving
  <2> QED BY <1>2, <2>1, <2>3, <2>4 DEF TheLease!Free
<1> QED BY <1>3, <1>4

LEMMA LeaseStep == IInv /\ IInv' /\ [Next]_vars => [TheLease!Next]_(TheLease!vars)
<1> SUFFICES ASSUME IInv, IInv', [Next]_vars PROVE [TheLease!Next]_(TheLease!vars)
    OBVIOUS
<1>0. /\ TypeOK /\ TypeOK' /\ OneInstance /\ OneInstance'
    <2>1. IInv => OneInstance BY IInvOneInstance
    <2>2. IInv' => OneInstance' BY IInvOneInstance, PTL
    <2> QED BY <2>1, <2>2 DEF IInv
<1>1. CASE UNCHANGED vars
    BY <1>1 DEF vars, TheLease!vars, Holder, Waiting, Gone
<1>2. ASSUME NEW p \in Procs, Launch(p) PROVE TheLease!Ask(p)
  <2>1. /\ pc[p] = "absent" /\ pc'[p] = "claiming"
        /\ \A q \in Procs : q # p => pc'[q] = pc[q]
      BY <1>0, <1>2 DEF Launch, Goto, TypeOK
  <2>2. Waiting' = Waiting \cup {p} /\ p \notin Waiting \cup Gone
      BY <2>1 DEF Waiting, Gone, Claiming, Leaving
  <2>3. Gone' = Gone BY <2>1 DEF Gone, Leaving
  <2>4. \A q \in Procs : pc'[q] \in Claimed <=> pc[q] \in Claimed
      BY <2>1 DEF Claimed
  <2>5. Holder' = Holder
    <3>1. (CHOOSE q \in Procs : pc'[q] \in Claimed) = CHOOSE q \in Procs : pc[q] \in Claimed
        BY <2>4
    <3>2. (\E q \in Procs : pc'[q] \in Claimed) <=> \E q \in Procs : pc[q] \in Claimed
        BY <2>4
    <3> QED BY <3>1, <3>2 DEF Holder
  <2>6. Holder # p
    <3>1. CASE \E q \in Procs : pc[q] \in Claimed
      <4>1. PICK q \in Procs : pc[q] \in Claimed BY <3>1
      <4>2. Holder = q BY <1>0, <4>1, HolderIs
      <4> QED BY <2>1, <4>1, <4>2 DEF Claimed
    <3>2. CASE \A q \in Procs : pc[q] \notin Claimed
        BY <3>2, NoHolder, ProcsAssumption
    <3> QED BY <3>1, <3>2
  <2> QED BY <2>2, <2>3, <2>5, <2>6 DEF TheLease!Ask
<1>3. ASSUME NEW p \in Procs, TakeLease(p) PROVE TheLease!Acquire(p)
  <2>1. /\ pc[p] = "taking" /\ pc'[p] = "starting"
        /\ \A q \in Procs : q # p => pc'[q] = pc[q]
      BY <1>0, <1>3 DEF TakeLease, Goto, TypeOK
  <2>2. pc[p] \in Claiming \ Claimed /\ pc'[p] \in Claimed \ Claiming
      BY <2>1 DEF Claiming, Claimed
  <2>3. \A q \in Procs : q # p => pc[q] \notin Claimed
      BY <1>0, <2>1, <2>2 DEF OneInstance
  <2>4. Holder = None BY <2>2, <2>3, NoHolder
  <2>5. Holder' = p
    <3>1. \E r \in Procs : pc'[r] \in Claimed BY <2>2
    <3>2. /\ (CHOOSE r \in Procs : pc'[r] \in Claimed) \in Procs
          /\ pc'[CHOOSE r \in Procs : pc'[r] \in Claimed] \in Claimed
        BY <3>1
    <3> QED BY <1>0, <2>2, <3>1, <3>2 DEF Holder, OneInstance
  <2>6. p \in Waiting /\ Waiting' = Waiting \ {p} BY <2>1, <2>2 DEF Waiting
  <2>7. Gone' = Gone BY <2>1 DEF Gone, Leaving
  <2> QED BY <2>4, <2>5, <2>6, <2>7 DEF TheLease!Acquire
<1>4. ASSUME NEW p \in Procs, TimeOut(p) \/ FinishRelease(p) \/ Exit(p) \/ Crash(p)
      PROVE TheLease!GiveUp(p) \/ TheLease!Free(p) \/ UNCHANGED TheLease!vars
  <2>1. PICK label \in Leaving \cup {"exited"} :
            Goto(p, label) /\ pc[p] \in Claiming \cup Claimed \cup Leaving
      BY <1>0, <1>4 DEF TimeOut, FinishRelease, Exit, Crash, Alive, TypeOK, States,
         Claiming, Claimed, Leaving
  <2>2. CASE pc[p] \in Claiming \cup Claimed BY <1>0, <2>1, <2>2, ExitIsGone
  <2>3. CASE pc[p] \in Leaving
    <3>1. /\ pc[p] \notin Claiming \cup Claimed /\ label \notin Claiming \cup Claimed
        BY <2>1, <2>3 DEF Claiming, Claimed, Leaving
    <3> QED BY <1>0, <2>1, <2>3, <3>1, SameClients
  <2> QED BY <2>1, <2>2, <2>3
<1>5. ASSUME NEW p \in Procs,
             LockForClaim(p) \/ FindFree(p) \/ FindOwned(p) \/ AskOwner(p) \/ Poll(p)
      PROVE UNCHANGED TheLease!vars
  <2>1. PICK label \in Claiming : Goto(p, label) /\ pc[p] \in Claiming
      BY <1>5 DEF LockForClaim, FindFree, FindOwned, AskOwner, Poll, Claiming
  <2> QED BY <1>0, <2>1, SameClients DEF Claiming, Claimed, Leaving
<1>6. ASSUME NEW p \in Procs,
             \/ Watch(p) \/ StartupFails(p) \/ ShutDown(p) \/ CloseDone(p)
             \/ CloseFails(p) \/ LockForRelease(p)
      PROVE UNCHANGED TheLease!vars
  <2>1. PICK label \in Claimed : Goto(p, label) /\ pc[p] \in Claimed
      BY <1>6 DEF Watch, StartWatching, ReadRequest, Yield, IgnoreRequest, StartupFails,
         ShutDown, CloseDone, CloseFails, LockForRelease, Claimed
  <2> QED BY <1>0, <2>1, SameClients DEF Claiming, Claimed, Leaving
<1> QED
    BY <1>1, <1>2, <1>3, <1>4, <1>5, <1>6 DEF Next, Claim, Release, TheLease!Next

\* The files, the locks and the polls implement a lease that changes hands only by
\* way of being free. (That a free lease is taken is liveness, and left to TLC.)
THEOREM LeaseImplemented ==
    Spec => TheLease!Init /\ [][TheLease!Next]_(TheLease!vars)
<1>1. Init => TheLease!Init
  <2> SUFFICES ASSUME Init PROVE TheLease!Init OBVIOUS
  <2>1. \A p \in Procs : pc[p] = "absent" BY DEF Init
  <2>2. Holder = None BY <2>1, NoHolder DEF Claimed
  <2>3. Waiting = {} /\ Gone = {} BY <2>1 DEF Waiting, Gone, Claiming, Leaving
  <2> QED BY <2>2, <2>3 DEF TheLease!Init
<1>2. IInv /\ IInv' /\ [Next]_vars => [TheLease!Next]_(TheLease!vars) BY LeaseStep
<1> QED BY <1>1, <1>2, IInvHolds, PTL DEF Spec
==============================================================================
