--------------------------- MODULE FactionsProofs ---------------------------
(***************************************************************************)
(* What the treasury promises holds for any number of factions, members,   *)
(* hands, votes, channels and commands under way.                          *)
(*                                                                         *)
(* The argument: a command keeps what it has read (TaskOK) but writes by a *)
(* statement that looks again, so balances stay natural (TablesOK). A row  *)
(* of a hand belongs to one hand, dealt for the faction of the row         *)
(* (HandsOK): removing the row is settling the hand. A lookup that has     *)
(* seen no claim is fresh only while no claim has been announced, so that  *)
(* a claim it has missed is still to be announced (LookupsOK).             *)
(***************************************************************************)
EXTENDS Factions, TLAPS

StatusOK == status \in [Factions -> {"unborn", "alive", "gone"}]

TablesOK ==
    /\ StatusOK
    /\ balance \in [Factions -> Nat]
    /\ member \in [Users -> References]
    /\ game \in [Users -> Rows \cup {None}]
    /\ \A u \in Users : game[u] # None => Alive(game[u].faction)
    /\ claim \in [Channels -> References]

VotesOK ==
    /\ receipts \subseteq Votes /\ votes \subseteq Votes
    /\ acked \subseteq receipts
    /\ redeemed \in [Votes -> Nat]
    /\ VotesCountOnce

\* What a command waits for says what it has read.
TaskOK(s) ==
    /\ s.at # "idle" => s.user \in Users /\ s.faction \in Factions
    /\ s.at \in {"refundStale", "move", "offer", "annex"} => s.other \in Factions
    /\ s.at \in {"claim", "invalidate"} => s.channel \in Channels
    /\ s.at \in {"offer", "annex"} => s.faction # s.other
    /\ s.at \in {"checkStale", "refundStale", "start"} => s.amount \in Wagers
    /\ s.amount >= 0

TasksOK == task \in [Tasks -> TaskStates] /\ \A t \in Tasks : TaskOK(task[t])

\* A row belongs to one hand that was dealt for its faction.
Holds(u, h) == game[u] # None /\ game[u].hand = h

HandsOK ==
    /\ view \in [Hands -> Views] /\ paid \in [Hands -> Nat]
    /\ \A u, w \in Users, h \in Hands : Holds(u, h) /\ Holds(w, h) => u = w
    /\ \A u \in Users, h \in Hands :
          Holds(u, h) => view[h].at # "none" /\ view[h].faction = game[u].faction
    /\ \A h \in Hands :
          IF view[h].at = "none" THEN paid[h] = 0
          ELSE view[h].user \in Users /\ view[h].faction \in Factions /\ status[view[h].faction] # "unborn"
    /\ HandsSettleOnce

Invalidating(c) == \E t \in Tasks : task[t].at = "invalidate" /\ task[t].channel = c

\* A lookup under way has missed a claim only if the claim will still be announced.
LookupsOK ==
    /\ unclaimed \subseteq Channels /\ doubt \subseteq Channels
    /\ lookup \in [Channels -> Lookups]
    /\ NoClaimHidden
    /\ \A c \in unclaimed : lookup[c].at = "idle"
    /\ \A c \in Channels \ doubt :
          lookup[c].at = "read" /\ lookup[c].fresh /\ lookup[c].row = None /\ claim[c] # None
              => Invalidating(c)

IInv == TablesOK /\ VotesOK /\ TasksOK /\ HandsOK /\ LookupsOK /\ left \in Nat

USE FactionsAssumption

\* Which actions touch the variables of each part.
LEMMA VotingChanges ==
    ASSUME Next
    PROVE  \/ UNCHANGED voting
           \/ \E v \in Votes : RecordVote(v)
           \/ \E t \in Tasks : Redeem(t)
<1>1. CASE Money BY <1>1 DEF Money, Credit, Buy, CallMove, Move
<1>2. CASE Hand
    BY <1>2 DEF Hand, Blackjack, CheckStale, RefundStale, StartHand, GetsOld, Deal, FinishHand,
                Timeout, Unload, Settled, SettleFails, ViewOnly
<1>3. CASE Vote BY <1>3 DEF Vote, CallRedeem
<1>4. CASE Territory
    BY <1>4 DEF Territory, CallClaim, Claim, Invalidate, Unclaim, Lookup, ReadClaim, EndLookup,
                Forget
<1>5. CASE Membership
    BY <1>5 DEF Membership, Create, Join, Leave, CallDisband, Disband, CallAnnex, AcceptAnnex,
                Annex, GiveUp
<1>6. CASE Crash BY <1>6 DEF Crash
<1> QED BY <1>1, <1>2, <1>3, <1>4, <1>5, <1>6 DEF Next

LEMMA LookingChanges ==
    ASSUME Next
    PROVE  \/ UNCHANGED looking
           \/ \E t \in Tasks : Claim(t) \/ Invalidate(t)
           \/ \E c \in Channels : Lookup(c) \/ ReadClaim(c) \/ EndLookup(c) \/ Forget(c)
           \/ Crash
<1>1. CASE Money BY <1>1 DEF Money, Credit, Buy, CallMove, Move
<1>2. CASE Hand
    BY <1>2 DEF Hand, Blackjack, CheckStale, RefundStale, StartHand, GetsOld, Deal, FinishHand,
                Timeout, Unload, Settled, SettleFails, ViewOnly
<1>3. CASE Vote BY <1>3 DEF Vote, CallRedeem, RecordVote, Redeem
<1>4. CASE Territory
    BY <1>4 DEF Territory, CallClaim, Unclaim
<1>5. CASE Membership
    BY <1>5 DEF Membership, Create, Join, Leave, CallDisband, Disband, CallAnnex, AcceptAnnex,
                Annex, GiveUp
<1> QED BY <1>1, <1>2, <1>3, <1>4, <1>5 DEF Next

LEMMA TablesChange ==
    ASSUME Next
    PROVE  \/ UNCHANGED tables
           \/ \E f \in Factions : Credit(f, 1) \/ Credit(f, -1) \/ \E p \in Wagers : Buy(f, p)
           \/ \E t \in Tasks : Move(t) \/ RefundStale(t) \/ StartHand(t) \/ Redeem(t)
                               \/ Claim(t) \/ Disband(t) \/ Annex(t)
           \/ \E h \in Hands : Settled(h) \/ SettleFails(h)
           \/ \E c \in Channels : EndLookup(c) \/ \E f \in Factions : Unclaim(f, c)
           \/ \E u \in Users : GetsOld(u) \/ Leave(u)
                               \/ \E f \in Factions : Create(u, f) \/ Join(u, f)
<1>1. CASE Money BY <1>1 DEF Money, CallMove
<1>2. CASE Hand
    BY <1>2 DEF Hand, Blackjack, CheckStale, Deal, FinishHand, Timeout, Unload, ViewOnly
<1>3. CASE Vote BY <1>3 DEF Vote, CallRedeem, RecordVote
<1>4. CASE Territory
    BY <1>4 DEF Territory, CallClaim, Invalidate, Lookup, ReadClaim, Forget
<1>5. CASE Membership
    BY <1>5 DEF Membership, CallDisband, CallAnnex, AcceptAnnex, GiveUp
<1>6. CASE Crash BY <1>6 DEF Crash
<1> QED BY <1>1, <1>2, <1>3, <1>4, <1>5, <1>6 DEF Next

LEMMA ViewsChange ==
    ASSUME Next
    PROVE  \/ UNCHANGED blackjack
           \/ \E t \in Tasks : RefundStale(t) \/ StartHand(t)
           \/ \E h \in Hands : \/ Deal(h) \/ FinishHand(h) \/ Timeout(h) \/ Unload(h)
                               \/ Settled(h) \/ SettleFails(h)
           \/ Crash
<1>1. CASE Money BY <1>1 DEF Money, Credit, Buy, CallMove, Move
<1>2. CASE Hand BY <1>2 DEF Hand, Blackjack, CheckStale, GetsOld
<1>3. CASE Vote BY <1>3 DEF Vote, CallRedeem, RecordVote, Redeem
<1>4. CASE Territory
    BY <1>4 DEF Territory, CallClaim, Claim, Invalidate, Unclaim, Lookup, ReadClaim, EndLookup,
                Forget
<1>5. CASE Membership
    BY <1>5 DEF Membership, Create, Join, Leave, CallDisband, Disband, CallAnnex, AcceptAnnex,
                Annex, GiveUp
<1> QED BY <1>1, <1>2, <1>3, <1>4, <1>5 DEF Next

LEMMA TasksChange ==
    ASSUME Next
    PROVE  \/ UNCHANGED task
           \/ \E t \in Tasks :
                \/ \E u \in Users, f, g \in Factions, a \in Wagers : CallMove(t, u, f, g, a)
                \/ \E u \in Users, w \in Wagers : Blackjack(t, u, w)
                \/ \E u \in Users, c \in Channels : CallClaim(t, u, c)
                \/ \E u \in Users : CallDisband(t, u) \/ \E f \in Factions : CallAnnex(t, u, f)
                \/ CallRedeem(t) \/ CheckStale(t) \/ RefundStale(t) \/ AcceptAnnex(t)
                \/ Claim(t)
                \/ Move(t) \/ StartHand(t) \/ Redeem(t) \/ Invalidate(t) \/ Disband(t)
                \/ Annex(t) \/ GiveUp(t)
           \/ Crash
<1>1. CASE Money BY <1>1 DEF Money, Credit, Buy
<1>2. CASE Hand
    BY <1>2 DEF Hand, GetsOld, Deal, FinishHand, Timeout, Unload, Settled, SettleFails, ViewOnly
<1>3. CASE Vote BY <1>3 DEF Vote, RecordVote
<1>4. CASE Territory
    BY <1>4 DEF Territory, Unclaim, Lookup, ReadClaim, EndLookup, Forget
<1>5. CASE Membership BY <1>5 DEF Membership, Create, Join, Leave
<1> QED BY <1>1, <1>2, <1>3, <1>4, <1>5 DEF Next

LEMMA VotingStep ==
    ASSUME VotesOK, Next
    PROVE  VotesOK'
<1>1. CASE UNCHANGED voting BY <1>1 DEF voting, VotesOK, VotesCountOnce
<1>2. ASSUME NEW v \in Votes, RecordVote(v)
      PROVE  VotesOK'
    BY <1>2 DEF RecordVote, VotesWith, VotesOK, VotesCountOnce
<1>3. ASSUME NEW t \in Tasks, Redeem(t)
      PROVE  VotesOK'
  <2>1. CASE votes = {} /\ UNCHANGED <<votes, redeemed, balance>>
      BY <1>3, <2>1 DEF Redeem, VotesOK, VotesCountOnce
  <2>2. ASSUME NEW v \in votes, votes' = votes \ {v},
               redeemed' = [redeemed EXCEPT ![v] = @ + 1]
        PROVE  VotesOK'
      BY <1>3, <2>2 DEF Redeem, VotesOK, VotesCountOnce
  <2> QED BY <1>3, <2>1, <2>2 DEF Redeem
<1> QED BY <1>1, <1>2, <1>3, VotingChanges

\* One command goes on.
LEMMA SetTask ==
    ASSUME TasksOK, NEW t \in Tasks, NEW s \in TaskStates, TaskOK(s),
           task' = [task EXCEPT ![t] = s]
    PROVE  TasksOK'
  BY DEF TasksOK

LEMMA TaskStep ==
    ASSUME TablesOK, TasksOK, Next
    PROVE  TasksOK'
<1>1. CASE UNCHANGED task BY <1>1 DEF TasksOK
<1>2. NoTask \in TaskStates /\ TaskOK(NoTask) BY DEF NoTask, TaskStates, TaskOK
<1> \A u \in Users : member[u] # None => member[u] \in Factions BY DEF TablesOK, References
<1>3. CASE Crash BY <1>2, <1>3 DEF Crash, TasksOK
<1>4. ASSUME NEW t \in Tasks, NEW u \in Users, NEW f \in Factions, NEW g \in Factions,
             NEW a \in Wagers, CallMove(t, u, f, g, a)
      PROVE  TasksOK'
  <2> DEFINE s == [at |-> "move", user |-> u, faction |-> f, other |-> g, amount |-> a,
                   channel |-> None]
  <2>1. member[u] # None /\ task' = [task EXCEPT ![t] = s] BY <1>4 DEF CallMove, Begin
  <2>2. a \in Nat OBVIOUS
  <2>3. s \in TaskStates /\ TaskOK(s) BY <2>2 DEF TaskStates, TaskOK
  <2> QED BY <2>1, <2>3, SetTask
<1>5. ASSUME NEW t \in Tasks, NEW u \in Users, NEW w \in Wagers, Blackjack(t, u, w)
      PROVE  TasksOK'
  <2> DEFINE s == [Reads("checkStale", u) EXCEPT !.amount = w]
  <2>1. member[u] # None /\ task' = [task EXCEPT ![t] = s] BY <1>5 DEF Blackjack, Begin
  <2>2. s \in TaskStates /\ TaskOK(s)
      BY <2>1 DEF Reads, TaskStates, TaskOK, TablesOK
  <2> QED BY <2>1, <2>2, SetTask
<1>6. ASSUME NEW t \in Tasks, NEW u \in Users, NEW c \in Channels, CallClaim(t, u, c)
      PROVE  TasksOK'
  <2> DEFINE s == [Reads("claim", u) EXCEPT !.channel = c]
  <2>1. member[u] # None /\ task' = [task EXCEPT ![t] = s] BY <1>6 DEF CallClaim, Begin
  <2>2. s \in TaskStates /\ TaskOK(s)
      BY <2>1 DEF Reads, TaskStates, TaskOK, TablesOK
  <2> QED BY <2>1, <2>2, SetTask
<1>7. ASSUME NEW t \in Tasks, NEW u \in Users, CallDisband(t, u) \/ (u = Voter /\ CallRedeem(t))
      PROVE  TasksOK'
  <2> PICK label \in {"disband", "redeem"} :
             member[u] # None /\ task' = [task EXCEPT ![t] = Reads(label, u)]
      BY <1>7 DEF CallDisband, CallRedeem, Begin
  <2>2. Reads(label, u) \in TaskStates /\ TaskOK(Reads(label, u))
      BY DEF Reads, TaskStates, TaskOK, TablesOK
  <2> QED BY <2>2, SetTask
<1>8. ASSUME NEW t \in Tasks, NEW u \in Users, NEW f \in Factions, CallAnnex(t, u, f)
      PROVE  TasksOK'
  <2> DEFINE s == [at |-> "offer", user |-> u, faction |-> member[u], other |-> f,
                   amount |-> balance[f], channel |-> None]
  <2>1. member[u] # None /\ f # member[u] /\ task' = [task EXCEPT ![t] = s]
      BY <1>8 DEF CallAnnex, Begin
  <2>2. balance[f] \in Nat BY DEF TablesOK
  <2>3. s \in TaskStates /\ TaskOK(s) BY <2>1, <2>2 DEF TaskStates, TaskOK
  <2> QED BY <2>1, <2>3, SetTask
<1>9. ASSUME NEW t \in Tasks,
             Move(t) \/ StartHand(t) \/ Redeem(t) \/ Invalidate(t) \/ Disband(t) \/ Annex(t)
                 \/ GiveUp(t) \/ (Claim(t) /\ Over(t))
      PROVE  TasksOK'
  <2>1. task' = [task EXCEPT ![t] = NoTask]
      BY <1>9 DEF Move, StartHand, Redeem, Invalidate, Disband, Annex, GiveUp, Over
  <2> QED BY <1>2, <2>1, SetTask
<1>10. ASSUME NEW t \in Tasks, NEW label \in {"start", "annex", "invalidate"},
              label = "start" => task[t].at \in {"checkStale", "refundStale"},
              label = "annex" => task[t].at = "offer",
              label = "invalidate" => task[t].at = "claim",
              Goto(t, label)
       PROVE  TasksOK'
  <2> DEFINE s == [task[t] EXCEPT !.at = label]
  <2>1. task' = [task EXCEPT ![t] = s] BY <1>10 DEF Goto
  <2>2. task[t] \in TaskStates /\ TaskOK(task[t]) BY DEF TasksOK
  <2>3. s \in TaskStates /\ TaskOK(s) BY <1>10, <2>2 DEF TaskStates, TaskOK
  <2> QED BY <2>1, <2>3, SetTask
<1>11. ASSUME NEW t \in Tasks, CheckStale(t)
       PROVE  TasksOK'
  <2>1. task[t] \in TaskStates /\ TaskOK(task[t]) /\ task[t].at = "checkStale"
      BY <1>11 DEF TasksOK, CheckStale
  <2> DEFINE row == game[task[t].user]
             s == [task[t] EXCEPT !.at = "refundStale", !.other = row.faction]
  <2>2. CASE row # None /\ row.old
    <3>1. row.faction \in Factions BY <2>1, <2>2 DEF TablesOK, TaskOK, Rows
    <3>2. task' = [task EXCEPT ![t] = s] BY <1>11, <2>2 DEF CheckStale
    <3>3. s \in TaskStates /\ TaskOK(s) BY <2>1, <3>1 DEF TaskStates, TaskOK
    <3> QED BY <3>2, <3>3, SetTask
  <2>3. CASE ~(row # None /\ row.old)
      BY <1>10, <1>11, <2>1, <2>3 DEF CheckStale, Goto
  <2> QED BY <2>2, <2>3
<1>12. ASSUME NEW t \in Tasks, RefundStale(t) \/ AcceptAnnex(t) \/ (Claim(t) /\ ~Over(t))
       PROVE  TasksOK'
    BY <1>10, <1>12 DEF RefundStale, AcceptAnnex, Claim
<1>13. ASSUME NEW t \in Tasks, Claim(t)
       PROVE  TasksOK'
    BY <1>9, <1>12, <1>13
<1>14. ASSUME NEW t \in Tasks, CallRedeem(t)
       PROVE  TasksOK'
    BY <1>7, <1>14
<1>15. ASSUME NEW t \in Tasks,
              Move(t) \/ StartHand(t) \/ Redeem(t) \/ Invalidate(t) \/ Disband(t) \/ Annex(t)
                  \/ GiveUp(t) \/ RefundStale(t) \/ AcceptAnnex(t)
       PROVE  TasksOK'
  <2>1. CASE RefundStale(t) \/ AcceptAnnex(t) BY <1>12, <2>1
  <2>2. CASE ~(RefundStale(t) \/ AcceptAnnex(t)) BY <1>9, <1>15, <2>2
  <2> QED BY <2>1, <2>2
<1> QED
    BY <1>1, <1>3, <1>4, <1>5, <1>6, <1>7, <1>8, <1>11, <1>13, <1>14, <1>15, TasksChange

\* A statement that adds to a balance, and the settlement of a hand.
LEMMA CreditedOK ==
    ASSUME TablesOK, NEW f, NEW n \in Int, f \in Factions => balance[f] + n >= 0
    PROVE  Credited(f, n) \in [Factions -> Nat]
<1>1. CASE f \in Factions BY <1>1 DEF TablesOK, Credited
<1>2. CASE f \notin Factions
  <2>1. Credited(f, n) = balance BY <1>2 DEF TablesOK, Credited
  <2> QED BY <2>1 DEF TablesOK
<1> QED BY <1>1, <1>2

LEMMA SettleRowOK ==
    ASSUME TablesOK, NEW f, NEW u \in Users, NEW outcome, SettleRow(f, u, outcome)
    PROVE  balance' \in [Factions -> Nat] /\ game' \in [Users -> Rows \cup {None}]
           /\ \A w \in Users : game'[w] \in {game[w], None}
<1>1. CASE ~HasGame(f, u) BY <1>1 DEF SettleRow, TablesOK
<1>2. CASE HasGame(f, u)
  <2>1. game[u] \in Rows /\ game[u].wager \in Nat BY <1>2 DEF HasGame, TablesOK, Rows
  <2>2. Returned(outcome, game[u].wager) \in Nat BY <2>1 DEF Returned
  <2>3. balance' \in [Factions -> Nat]
      BY <1>2, <2>2, CreditedOK DEF SettleRow, TablesOK
  <2>4. game' = [game EXCEPT ![u] = None] BY <1>2 DEF SettleRow, RowAfter
  <2> QED BY <2>3, <2>4 DEF TablesOK
<1> QED BY <1>1, <1>2

LEMMA TableStep ==
    ASSUME TablesOK, TasksOK, HandsOK, Next
    PROVE  TablesOK'
<1> USE DEF References, Alive
<1>1. CASE UNCHANGED tables BY <1>1 DEF tables, TablesOK, StatusOK
<1>2. ASSUME balance' \in [Factions -> Nat], UNCHANGED <<status, member, game, claim>>
      PROVE  TablesOK'
    BY <1>2 DEF TablesOK, StatusOK
<1>3. ASSUME NEW f \in Factions, Credit(f, 1) \/ Credit(f, -1)
      PROVE  TablesOK'
    BY <1>2, <1>3, CreditedOK DEF Credit
<1>4. ASSUME NEW f \in Factions, NEW p \in Wagers, Buy(f, p)
      PROVE  TablesOK'
  <2>1. 0 - p \in Int /\ balance[f] \in Nat /\ p \in Nat /\ balance[f] + (0 - p) >= 0
      BY <1>4 DEF Buy, TablesOK
  <2> QED BY <1>2, <1>4, <2>1, CreditedOK DEF Buy
<1>5. ASSUME NEW t \in Tasks, Move(t)
      PROVE  TablesOK'
  <2>1. /\ task[t].faction \in Factions /\ task[t].other \in Factions
        /\ task[t].amount \in Int /\ task[t].amount >= 0
      BY <1>5 DEF Move, TasksOK, TaskOK, TaskStates
  <2>2. balance' \in [Factions -> Nat] BY <1>5, <2>1 DEF Move, CanPay, TablesOK
  <2> QED BY <1>2, <1>5, <2>2 DEF Move
<1>6. ASSUME UNCHANGED <<status, member, claim>>,
             balance' \in [Factions -> Nat], game' \in [Users -> Rows \cup {None}],
             \A w \in Users : game'[w] \in {game[w], None}
      PROVE  TablesOK'
    BY <1>6 DEF TablesOK, StatusOK
<1>7. ASSUME NEW t \in Tasks, RefundStale(t)
      PROVE  TablesOK'
  <2>1. task[t].user \in Users BY <1>7 DEF RefundStale, TasksOK, TaskOK
  <2> QED BY <1>6, <1>7, <2>1, SettleRowOK DEF RefundStale
<1>8. ASSUME NEW t \in Tasks, StartHand(t)
      PROVE  TablesOK'
  <2> DEFINE f == task[t].faction
             u == task[t].user
             wager == task[t].amount
  <2>1. f \in Factions /\ u \in Users /\ wager \in Wagers
      BY <1>8 DEF StartHand, TasksOK, TaskOK, TaskStates
  <2>2. CASE ~MayStart(f, u, wager) BY <1>2, <1>8, <2>2 DEF StartHand, TablesOK
  <2>3. CASE MayStart(f, u, wager)
    <3>1. PICK h \in Hands :
               /\ balance' = Credited(f, 0 - wager)
               /\ game' = [game EXCEPT ![u] = [hand |-> h, faction |-> f, wager |-> wager,
                                               old |-> FALSE]]
        BY <1>8, <2>3 DEF StartHand
    <3> wager \in Nat /\ balance[f] \in Nat /\ wager <= balance[f]
        BY <2>1, <2>3 DEF MayStart, TablesOK
    <3>2. 0 - wager \in Int /\ balance[f] + (0 - wager) >= 0 OBVIOUS
    <3>3. balance' \in [Factions -> Nat] BY <3>1, <3>2, CreditedOK
    <3>4. [hand |-> h, faction |-> f, wager |-> wager, old |-> FALSE] \in Rows
        BY <2>1, <3>1 DEF Rows
    <3> QED BY <1>8, <2>1, <2>3, <3>1, <3>3, <3>4 DEF StartHand, MayStart, TablesOK, StatusOK
  <2> QED BY <2>2, <2>3
<1>9. ASSUME NEW t \in Tasks, Redeem(t)
      PROVE  TablesOK'
  <2>1. balance' \in [Factions -> Nat] BY <1>9, CreditedOK DEF Redeem, TablesOK
  <2> QED BY <1>2, <1>9, <2>1 DEF Redeem
<1>10. ASSUME NEW t \in Tasks, Claim(t)
       PROVE  TablesOK'
  <2> DEFINE f == task[t].faction
             c == task[t].channel
  <2>1. f \in Factions /\ c \in Channels BY <1>10 DEF Claim, TasksOK, TaskOK
  <2>2. Price(c) \in Nat BY DEF Price
  <2>3. CASE CanPay(f, Price(c)) /\ balance' = Credited(f, 0 - Price(c))
             /\ claim' = [claim EXCEPT ![c] = f]
    <3>1. balance' \in [Factions -> Nat] BY <2>1, <2>2, <2>3, CreditedOK DEF CanPay, TablesOK
    <3> QED BY <1>10, <2>1, <2>3, <3>1 DEF Claim, CanPay, TablesOK, StatusOK
  <2>4. CASE UNCHANGED <<balance, claim>> BY <1>10, <2>4 DEF Claim, TablesOK, StatusOK
  <2> QED BY <1>10, <2>3, <2>4 DEF Claim
<1>11. ASSUME NEW h \in Hands, Settled(h) \/ SettleFails(h)
       PROVE  TablesOK'
  <2>1. CASE UNCHANGED <<balance, game>>
      BY <1>2, <1>11, <2>1 DEF Settled, SettleFails, TablesOK
  <2>2. CASE SettleView(h)
    <3>1. view[h].user \in Users BY <1>11 DEF HandsOK, Settled, SettleFails
    <3> QED BY <1>6, <1>11, <2>2, <3>1, SettleRowOK DEF SettleView, Settled, SettleFails
  <2> QED BY <1>11, <2>1, <2>2 DEF Settled, SettleFails
<1>12. ASSUME NEW c \in Channels, EndLookup(c)
       PROVE  TablesOK'
  <2>1. balance' \in [Factions -> Nat] BY <1>12, CreditedOK DEF EndLookup, TablesOK
  <2> QED BY <1>2, <1>12, <2>1 DEF EndLookup
<1>13. ASSUME NEW c \in Channels, NEW f \in Factions, Unclaim(f, c)
       PROVE  TablesOK'
  <2>1. balance' \in [Factions -> Nat] BY <1>13, CreditedOK DEF Unclaim, TablesOK
  <2> QED BY <1>13, <2>1 DEF Unclaim, TablesOK, StatusOK
<1>14. ASSUME NEW u \in Users, GetsOld(u)
       PROVE  TablesOK'
  <2>1. game[u] \in Rows /\ game' = [game EXCEPT ![u] = [game[u] EXCEPT !.old = TRUE]]
      BY <1>14 DEF GetsOld, TablesOK
  <2>2. [game[u] EXCEPT !.old = TRUE] \in Rows
        /\ [game[u] EXCEPT !.old = TRUE].faction = game[u].faction
      BY <2>1 DEF Rows
  <2> QED BY <1>14, <2>1, <2>2 DEF GetsOld, TablesOK, StatusOK
<1>15. ASSUME NEW u \in Users, Leave(u)
       PROVE  TablesOK'
    BY <1>15 DEF Leave, TablesOK, StatusOK
<1>16. ASSUME NEW u \in Users, NEW f \in Factions, Create(u, f) \/ Join(u, f)
       PROVE  TablesOK'
  <2>1. StatusOK' /\ Alive(f)' /\ \A g \in Factions : Alive(g) => Alive(g)'
      BY <1>16 DEF Create, Join, TablesOK, StatusOK
  <2>2. member' = [member EXCEPT ![u] = f] /\ UNCHANGED <<balance, game, claim>>
      BY <1>16 DEF Create, Join
  <2> QED BY <2>1, <2>2 DEF TablesOK, Rows
<1>17. ASSUME NEW t \in Tasks, Disband(t)
       PROVE  TablesOK'
  <2> DEFINE f == task[t].faction
  <2>1. StatusOK' /\ \A g \in Factions : g # f /\ Alive(g) => Alive(g)'
      BY <1>17 DEF Disband, Deleted, TablesOK, StatusOK
  <2>2. /\ game' = [u \in Users |-> IF game[u] # None /\ game[u].faction = f THEN None
                                   ELSE game[u]]
        /\ member' = [u \in Users |-> IF member[u] = f THEN None ELSE member[u]]
        /\ claim' = [c \in Channels |-> IF claim[c] = f THEN None ELSE claim[c]]
        /\ balance' = balance
      BY <1>17 DEF Disband, Deleted
  <2>3. game' \in [Users -> Rows \cup {None}]
        /\ (\A u \in Users : game[u] # None => Alive(game[u].faction))'
      BY <2>1, <2>2 DEF TablesOK, Rows
  <2>4. member' \in [Users -> References'] /\ claim' \in [Channels -> References']
      BY <2>1, <2>2 DEF TablesOK
  <2> QED BY <2>1, <2>2, <2>3, <2>4 DEF TablesOK
<1>18. ASSUME NEW t \in Tasks, Annex(t)
       PROVE  TablesOK'
  <2> DEFINE source == task[t].faction
             target == task[t].other
  <2>1. source \in Factions /\ target \in Factions /\ task[t].amount \in Int /\ task[t].amount >= 0
      BY <1>18 DEF Annex, TasksOK, TaskOK, TaskStates
  <2>2. CASE UNCHANGED tables BY <1>1, <2>2
  <2>3. CASE ~UNCHANGED tables
    <3>1. /\ balance' = Credited(source, task[t].amount) /\ Deleted(target)
          /\ member' = [u \in Users |-> IF member[u] = target THEN source ELSE member[u]]
          /\ claim' = [c \in Channels |-> IF claim[c] = target THEN source ELSE claim[c]]
          /\ \/ Alive(source)
             \/ (\A u \in Users : member[u] # target) /\ (\A c \in Channels : claim[c] # target)
        BY <1>18, <2>3 DEF Annex
    <3>2. balance' \in [Factions -> Nat] BY <2>1, <3>1, CreditedOK DEF TablesOK
    <3>3. StatusOK' /\ \A g \in Factions : g # target /\ Alive(g) => Alive(g)'
        BY <3>1 DEF Deleted, TablesOK, StatusOK
    <3>4. game' \in [Users -> Rows \cup {None}]
          /\ (\A u \in Users : game[u] # None => Alive(game[u].faction))'
        BY <3>1, <3>3 DEF Deleted, TablesOK, Rows
    <3>5. source # target BY <1>18 DEF Annex, TasksOK, TaskOK
    <3>6. member' \in [Users -> References'] /\ claim' \in [Channels -> References']
        BY <2>1, <3>1, <3>3, <3>5 DEF TablesOK
    <3> QED BY <3>2, <3>3, <3>4, <3>6 DEF TablesOK
  <2> QED BY <2>2, <2>3
<1> QED
    BY <1>1, <1>3, <1>4, <1>5, <1>7, <1>8, <1>9, <1>10, <1>11, <1>12, <1>13, <1>14, <1>15,
       <1>16, <1>17, <1>18, TablesChange

\* One view changes, and stays the view of its hand.
LEMMA SetView ==
    ASSUME HandsOK, NEW h \in Hands, NEW v \in Views, view[h].at # "none",
           view' = [view EXCEPT ![h] = v],
           v.at # "none", v.user = view[h].user, v.faction = view[h].faction
    PROVE  /\ view' \in [Hands -> Views]
           /\ \A g \in Hands : /\ view'[g].at = "none" <=> view[g].at = "none"
                               /\ view'[g].user = view[g].user
                               /\ view'[g].faction = view[g].faction
  BY DEF HandsOK

LEMMA SameRows ==
    ASSUME HandsOK, UNCHANGED <<game, paid, status>>, view' \in [Hands -> Views],
           \A g \in Hands : /\ view'[g].at = "none" <=> view[g].at = "none"
                            /\ view'[g].user = view[g].user
                            /\ view'[g].faction = view[g].faction
    PROVE  HandsOK'
  BY DEF HandsOK, HandsSettleOnce, Holds, Alive

LEMMA SettleRowKeeps ==
    ASSUME TablesOK, HandsOK, NEW f, NEW u \in Users, NEW outcome, SettleRow(f, u, outcome),
           status' = status, view' \in [Hands -> Views],
           \A g \in Hands : /\ view'[g].at = "none" <=> view[g].at = "none"
                            /\ view'[g].user = view[g].user
                            /\ view'[g].faction = view[g].faction
    PROVE  HandsOK'
<1>1. CASE ~HasGame(f, u) BY <1>1, SameRows DEF SettleRow
<1>2. CASE HasGame(f, u)
  <2>1. PICK h \in Hands : h = game[u].hand /\ game[u] # None /\ Holds(u, h)
      BY <1>2 DEF HasGame, TablesOK, Rows, Holds
  <2>2. game' = [game EXCEPT ![u] = None] /\ paid' = [paid EXCEPT ![h] = paid[h] + 1]
      BY <1>2, <2>1 DEF SettleRow, RowAfter
  <2>3. \A w \in Users, g \in Hands : Holds(w, g)' <=> Holds(w, g) /\ w # u
      BY <2>2 DEF Holds, TablesOK
  <2>4. paid[h] = 0 BY <2>1 DEF HandsOK, HandsSettleOnce, Holds
  <2>5. paid' \in [Hands -> Nat] /\ paid'[h] = 1 /\ \A g \in Hands : g # h => paid'[g] = paid[g]
      BY <2>1, <2>2, <2>4 DEF HandsOK
  <2>6. \A g \in Hands : g # h => ~Holds(u, g) BY <2>1 DEF Holds
  <2>7. \A w \in Users : ~Holds(w, h)' BY <2>1, <2>3 DEF HandsOK
  <2>8. HandsSettleOnce'
    <3> SUFFICES ASSUME NEW g \in Hands
                 PROVE  /\ paid'[g] <= 1
                        /\ (\E w \in Users : Holds(w, g)') => paid'[g] = 0
                        /\ view'[g].at # "none" /\ Alive(view[g].faction)
                              => (\E w \in Users : Holds(w, g)') \/ paid'[g] = 1
        BY DEF HandsSettleOnce, Holds, Alive
    <3>1. CASE g = h BY <3>1, <2>5, <2>7
    <3>2. CASE g # h BY <3>2, <2>3, <2>5, <2>6 DEF HandsOK, HandsSettleOnce, Holds
    <3> QED BY <3>1, <3>2
  <2>9. \A w \in Users, g \in Hands :
           Holds(w, g)' => view'[g].at # "none" /\ view'[g].faction = game'[w].faction
      BY <2>2, <2>3 DEF HandsOK, TablesOK
  <2>10. \A g \in Hands : view[g].at = "none" => g # h BY <2>1 DEF HandsOK
  <2>11. \A g \in Hands :
            IF view'[g].at = "none" THEN paid'[g] = 0
            ELSE view'[g].user \in Users /\ view'[g].faction \in Factions
                 /\ status'[view'[g].faction] # "unborn"
      BY <2>5, <2>10 DEF HandsOK
  <2> QED BY <2>3, <2>5, <2>8, <2>9, <2>11 DEF HandsOK
<1> QED BY <1>1, <1>2

\* Rows go with their faction.
LEMMA DeletedKeeps ==
    ASSUME TablesOK, HandsOK, NEW f \in Factions, Deleted(f), UNCHANGED blackjack
    PROVE  HandsOK'
<1>1. /\ \A u \in Users, h \in Hands : Holds(u, h)' <=> Holds(u, h) /\ game[u].faction # f
      /\ \A u \in Users, h \in Hands : Holds(u, h)' => game'[u] = game[u]
    BY DEF Deleted, Holds, TablesOK
<1>2. \A g \in Factions : /\ Alive(g)' => Alive(g) /\ g # f
                          /\ status[g] # "unborn" => status'[g] # "unborn"
    BY DEF Deleted, Alive, TablesOK, StatusOK
<1>3. UNCHANGED <<view, paid>> BY DEF blackjack
<1>4. HandsSettleOnce'
  <2> SUFFICES ASSUME NEW g \in Hands
               PROVE  /\ paid[g] <= 1
                      /\ (\E w \in Users : Holds(w, g)') => paid[g] = 0
                      /\ view[g].at # "none" /\ Alive(view[g].faction)'
                            => (\E w \in Users : Holds(w, g)') \/ paid[g] = 1
      BY <1>3 DEF HandsSettleOnce, Holds, Alive
  <2>1. paid[g] <= 1 /\ ((\E w \in Users : Holds(w, g)') => paid[g] = 0)
      BY <1>1 DEF HandsOK, HandsSettleOnce, Holds
  <2>2. ASSUME view[g].at # "none", Alive(view[g].faction)'
        PROVE  (\E w \in Users : Holds(w, g)') \/ paid[g] = 1
    <3>1. PICK x \in Factions : x = view[g].faction BY <2>2 DEF HandsOK
    <3>2. Alive(x)' BY <1>3, <2>2, <3>1 DEF Alive
    <3>3. view[g].faction \in Factions /\ view[g].faction # f /\ Alive(view[g].faction)
        BY <1>2, <3>1, <3>2 DEF Alive
    <3>4. (\E w \in Users : Holds(w, g)) \/ paid[g] = 1
        BY <2>2, <3>3 DEF HandsOK, HandsSettleOnce, Holds
    <3> QED BY <1>1, <3>3, <3>4 DEF HandsOK
  <2> QED BY <2>1, <2>2
<1>5. \A u, w \in Users, h \in Hands : Holds(u, h)' /\ Holds(w, h)' => u = w
    BY <1>1 DEF HandsOK
<1>6. \A u \in Users, h \in Hands :
         Holds(u, h)' => view'[h].at # "none" /\ view'[h].faction = game'[u].faction
    BY <1>1, <1>3 DEF HandsOK
<1>7. \A h \in Hands :
         IF view'[h].at = "none" THEN paid'[h] = 0
         ELSE view'[h].user \in Users /\ view'[h].faction \in Factions
              /\ status'[view'[h].faction] # "unborn"
  <2> SUFFICES ASSUME NEW h \in Hands
               PROVE  IF view[h].at = "none" THEN paid[h] = 0
                      ELSE view[h].user \in Users /\ view[h].faction \in Factions
                           /\ status'[view[h].faction] # "unborn"
      BY <1>3
  <2>1. CASE view[h].at = "none" BY <2>1 DEF HandsOK
  <2>2. CASE view[h].at # "none"
    <3>1. /\ view[h].user \in Users /\ view[h].faction \in Factions
          /\ status[view[h].faction] # "unborn"
        BY <2>2 DEF HandsOK
    <3> QED BY <1>2, <2>2, <3>1 DEF Alive
  <2> QED BY <2>1, <2>2
<1> QED BY <1>3, <1>4, <1>5, <1>6, <1>7 DEF HandsOK

LEMMA HandStep ==
    ASSUME TablesOK, TasksOK, HandsOK, Next
    PROVE  HandsOK'
<1>1. CASE UNCHANGED <<game, paid, status, view>>
    BY <1>1 DEF HandsOK, HandsSettleOnce, Holds, Alive
<1>2. ASSUME NEW h \in Hands, Deal(h) \/ FinishHand(h) \/ Timeout(h) \/ Unload(h)
      PROVE  HandsOK'
  <2>1. /\ view[h] \in Views /\ view[h].at # "none"
        /\ UNCHANGED <<game, paid, status>>
      BY <1>2 DEF HandsOK, Deal, FinishHand, Timeout, Unload, ViewOnly, tables
  <2>2. CASE view' = [view EXCEPT ![h].at = "open"]
    <3> DEFINE v == [view[h] EXCEPT !.at = "open"]
    <3>1. /\ v \in Views /\ v.at # "none" /\ v.user = view[h].user
          /\ v.faction = view[h].faction
        BY <2>1 DEF Views
    <3> QED BY <2>1, <2>2, <3>1, SetView, SameRows
  <2>3. ASSUME NEW by \in DOMAIN Outcomes, NEW e \in BOOLEAN, Settles(h, by, e)
        PROVE  HandsOK'
    <3> DEFINE v == Refresh(view[h], "settling", by, e)
    <3>1. v \in Views /\ v.at # "none" /\ v.user = view[h].user
          /\ v.faction = view[h].faction
        BY <2>1 DEF Views, Refresh
    <3>2. view' = [view EXCEPT ![h] = v] BY <2>3 DEF Settles
    <3> QED BY <2>1, <3>1, <3>2, SetView, SameRows
  <2>4. view[h].by \in DOMAIN Outcomes BY <2>1 DEF Views
  <2>5. {"deal", "player", "timeout", "unload"} \subseteq DOMAIN Outcomes BY DEF Outcomes
  <2> QED BY <1>2, <2>2, <2>3, <2>4, <2>5 DEF Deal, FinishHand, Timeout, Unload
<1>3. ASSUME NEW t \in Tasks, RefundStale(t)
      PROVE  HandsOK'
  <2>1. task[t].user \in Users BY <1>3 DEF RefundStale, TasksOK, TaskOK
  <2>2. view' = view /\ status' = status BY <1>3 DEF RefundStale
  <2> QED BY <1>3, <2>1, <2>2, SettleRowKeeps DEF RefundStale, HandsOK
<1>4. ASSUME NEW h \in Hands, Settled(h) \/ SettleFails(h)
      PROVE  HandsOK'
  <2>1. /\ view[h] \in Views /\ view[h].at = "settling" /\ view[h].user \in Users
        /\ status' = status
      BY <1>4 DEF HandsOK, Settled, SettleFails
  <2>2. PICK v \in Views : /\ view' = [view EXCEPT ![h] = v]
                           /\ v.at # "none" /\ v.user = view[h].user
                           /\ v.faction = view[h].faction
    <3>1. CASE view' = [view EXCEPT ![h].at = "over"]
      <4> DEFINE v == [view[h] EXCEPT !.at = "over"]
      <4> v \in Views /\ v.at # "none" /\ v.user = view[h].user /\ v.faction = view[h].faction
          BY <2>1 DEF Views
      <4> QED BY <3>1
    <3>2. CASE view' = [view EXCEPT ![h] = AfterFailure(view[h])]
      <4> DEFINE v == AfterFailure(view[h])
      <4>1. v \in Views /\ v.at # "none" /\ v.user = view[h].user /\ v.faction = view[h].faction
          BY <2>1 DEF Views, AfterFailure, Outcomes
      <4> QED BY <3>2, <4>1
    <3> QED BY <1>4, <3>1, <3>2 DEF Settled, SettleFails
  <2>3. SettleView(h) \/ UNCHANGED <<game, paid>> BY <1>4 DEF Settled, SettleFails
  <2>4. /\ view' \in [Hands -> Views]
        /\ \A g \in Hands : /\ view'[g].at = "none" <=> view[g].at = "none"
                            /\ view'[g].user = view[g].user
                            /\ view'[g].faction = view[g].faction
      BY <2>1, <2>2, SetView
  <2> QED BY <2>1, <2>3, <2>4, SettleRowKeeps, SameRows DEF SettleView
<1>5. ASSUME NEW t \in Tasks, StartHand(t)
      PROVE  HandsOK'
  <2> DEFINE f == task[t].faction
             u == task[t].user
             wager == task[t].amount
  <2>1. f \in Factions /\ u \in Users /\ wager \in Wagers /\ status' = status /\ paid' = paid
      BY <1>5 DEF StartHand, TasksOK, TaskOK
  <2>2. CASE ~MayStart(f, u, wager) BY <1>1, <1>5, <2>2 DEF StartHand
  <2>3. CASE MayStart(f, u, wager)
    <3>1. PICK h \in Hands, at \in {"dealt", "dead"} :
               /\ view[h].at = "none"
               /\ game' = [game EXCEPT ![u] = [hand |-> h, faction |-> f, wager |-> wager,
                                               old |-> FALSE]]
               /\ view' = [view EXCEPT ![h] = [at |-> at, user |-> u, faction |-> f,
                                               by |-> "deal", expired |-> FALSE]]
        BY <1>5, <2>3 DEF StartHand
    <3> DEFINE row == [hand |-> h, faction |-> f, wager |-> wager, old |-> FALSE]
               v == [at |-> at, user |-> u, faction |-> f, by |-> "deal", expired |-> FALSE]
    <3>2. row \in Rows /\ row # None
      <4>1. row \in Rows BY <2>1 DEF Rows
      <4> QED BY <4>1
    <3>3. v \in Views BY <2>1 DEF Views, Outcomes
    <3>4. paid[h] = 0 /\ \A w \in Users : ~Holds(w, h) BY <3>1 DEF HandsOK
    <3>5. game[u] = None /\ Alive(f) BY <2>3 DEF MayStart
    <3>6. /\ \A w \in Users : w # u => game'[w] = game[w]
          /\ game'[u] = row
        BY <2>1, <3>1 DEF TablesOK
    <3>7. /\ view' \in [Hands -> Views] /\ view'[h] = v
          /\ \A g \in Hands : g # h => view'[g] = view[g]
        BY <3>1, <3>3 DEF HandsOK
    <3>8. \A w \in Users, g \in Hands : Holds(w, g)' <=> Holds(w, g) \/ (w = u /\ g = h)
        BY <3>2, <3>4, <3>5, <3>6 DEF Holds
    <3>9. HandsSettleOnce'
      <4> SUFFICES ASSUME NEW g \in Hands
                   PROVE  /\ paid[g] <= 1
                          /\ (\E w \in Users : Holds(w, g)') => paid[g] = 0
                          /\ view'[g].at # "none" /\ status[view'[g].faction] = "alive"
                                => (\E w \in Users : Holds(w, g)') \/ paid[g] = 1
          BY <2>1 DEF HandsSettleOnce, Holds, Alive
      <4>1. CASE g = h BY <2>1, <3>4, <3>8, <4>1
      <4>2. CASE g # h BY <3>7, <3>8, <4>2 DEF HandsOK, HandsSettleOnce, Holds, Alive
      <4> QED BY <4>1, <4>2
    <3>10. \A w, x \in Users, g \in Hands : Holds(w, g)' /\ Holds(x, g)' => w = x
        BY <3>4, <3>8 DEF HandsOK
    <3>11. \A w \in Users, g \in Hands :
              Holds(w, g)' => view'[g].at # "none" /\ view'[g].faction = game'[w].faction
      <4> SUFFICES ASSUME NEW w \in Users, NEW g \in Hands, Holds(w, g)'
                   PROVE  view'[g].at # "none" /\ view'[g].faction = game'[w].faction
          OBVIOUS
      <4>1. CASE w = u /\ g = h BY <3>6, <3>7, <4>1
      <4>2. CASE ~(w = u /\ g = h)
        <5>1. Holds(w, g) /\ g # h /\ w # u BY <3>4, <3>5, <3>8, <4>2 DEF Holds
        <5> QED BY <3>6, <3>7, <5>1 DEF HandsOK
      <4> QED BY <4>1, <4>2
    <3>12. \A g \in Hands :
              IF view'[g].at = "none" THEN paid[g] = 0
              ELSE view'[g].user \in Users /\ view'[g].faction \in Factions
                   /\ status[view'[g].faction] # "unborn"
      <4> SUFFICES ASSUME NEW g \in Hands
                   PROVE  IF view'[g].at = "none" THEN paid[g] = 0
                          ELSE view'[g].user \in Users /\ view'[g].faction \in Factions
                               /\ status[view'[g].faction] # "unborn"
          OBVIOUS
      <4>1. CASE g = h BY <2>1, <3>5, <3>7, <4>1 DEF Alive
      <4>2. CASE g # h BY <3>7, <4>2 DEF HandsOK
      <4> QED BY <4>1, <4>2
    <3> QED BY <2>1, <3>7, <3>9, <3>10, <3>11, <3>12 DEF HandsOK
  <2> QED BY <2>2, <2>3
<1>6. ASSUME NEW u \in Users, GetsOld(u)
      PROVE  HandsOK'
  <2>1. \A w \in Users : /\ game'[w] = None <=> game[w] = None
                         /\ game[w] # None => game'[w].hand = game[w].hand
                         /\ game[w] # None => game'[w].faction = game[w].faction
      BY <1>6 DEF GetsOld, TablesOK, Rows
  <2>2. \A w \in Users, h \in Hands : Holds(w, h)' <=> Holds(w, h)
      BY <2>1 DEF Holds
  <2>3. UNCHANGED <<view, paid, status>> BY <1>6 DEF GetsOld, blackjack
  <2> QED BY <2>1, <2>2, <2>3 DEF HandsOK, HandsSettleOnce, Holds, Alive
<1>7. ASSUME NEW t \in Tasks, Disband(t) \/ Annex(t)
      PROVE  HandsOK'
  <2>1. CASE UNCHANGED <<tables, blackjack>> BY <1>1, <2>1 DEF tables, blackjack
  <2>2. CASE ~UNCHANGED <<tables, blackjack>>
    <3>1. UNCHANGED blackjack /\ \E f \in Factions : Deleted(f)
        BY <1>7, <2>2 DEF Disband, Annex, TasksOK, TaskOK
    <3> QED BY <3>1, DeletedKeeps
  <2> QED BY <2>1, <2>2
<1>8. ASSUME NEW u \in Users, NEW f \in Factions, Create(u, f)
      PROVE  HandsOK'
  <2>1. UNCHANGED <<game, paid, view>> BY <1>8 DEF Create, blackjack
  <2>2. \A g \in Factions : status[g] # "unborn" => status'[g] = status[g]
      BY <1>8 DEF Create, TablesOK, StatusOK
  <2>3. \A h \in Hands : view[h].at # "none" => status'[view[h].faction] = status[view[h].faction]
      BY <2>2 DEF HandsOK
  <2> QED BY <2>1, <2>3 DEF HandsOK, HandsSettleOnce, Holds, Alive
<1>9. CASE Crash
  <2>1. UNCHANGED <<game, paid, status>> BY <1>9 DEF Crash, tables
  <2>2. ASSUME NEW h \in Hands
        PROVE  /\ view'[h] \in Views
               /\ view'[h].at = "none" <=> view[h].at = "none"
               /\ view'[h].user = view[h].user
               /\ view'[h].faction = view[h].faction
    <3>1. view[h] \in Views BY DEF HandsOK
    <3>2. view'[h] = IF view[h].at \in {"none", "over"} THEN view[h]
                     ELSE Refresh(view[h], "dead", view[h].by, FALSE)
        BY <1>9 DEF Crash
    <3> QED BY <3>1, <3>2 DEF Refresh, Views
  <2>3. view' \in [Hands -> Views] BY <1>9, <2>2 DEF Crash
  <2> QED BY <2>1, <2>2, <2>3, SameRows
<1>10. ASSUME UNCHANGED <<game, status>>, UNCHANGED blackjack
       PROVE  HandsOK'
    BY <1>1, <1>10 DEF blackjack
<1>11. ASSUME NEW t \in Tasks, Move(t) \/ Redeem(t) \/ Claim(t)
       PROVE  HandsOK'
    BY <1>10, <1>11 DEF Move, Redeem, Claim
<1>12. ASSUME NEW c \in Channels, EndLookup(c) \/ \E f \in Factions : Unclaim(f, c)
       PROVE  HandsOK'
    BY <1>10, <1>12 DEF EndLookup, Unclaim
<1>13. ASSUME NEW f \in Factions, Credit(f, 1) \/ Credit(f, -1) \/ \E p \in Wagers : Buy(f, p)
       PROVE  HandsOK'
    BY <1>10, <1>13 DEF Credit, Buy
<1>14. ASSUME NEW u \in Users, Leave(u) \/ \E f \in Factions : Join(u, f)
       PROVE  HandsOK'
    BY <1>10, <1>14 DEF Leave, Join
<1>15. CASE UNCHANGED tables
  <2>1. CASE UNCHANGED blackjack BY <1>10, <1>15, <2>1 DEF tables
  <2>2. CASE ~UNCHANGED blackjack
      BY <1>2, <1>3, <1>4, <1>5, <1>9, <2>2, ViewsChange
  <2> QED BY <2>1, <2>2
<1>16. CASE ~UNCHANGED tables
    BY <1>3, <1>4, <1>5, <1>6, <1>7, <1>8, <1>11, <1>12, <1>13, <1>14, <1>16, TablesChange
<1> QED BY <1>15, <1>16

\* Lookups are undisturbed by a step that adds no claim and announces none.
LEMMA SameLookups ==
    ASSUME LookupsOK, UNCHANGED looking,
           \A c \in Channels : claim'[c] # None => claim[c] # None,
           \A c \in Channels : Invalidating(c) => Invalidating(c)'
    PROVE  LookupsOK'
  BY DEF LookupsOK, NoClaimHidden, Invalidating, looking

\* A claim that is about to be announced stays so while other commands go on.
LEMMA StillInvalidating ==
    ASSUME TasksOK, NEW t \in Tasks, NEW s, task' = [task EXCEPT ![t] = s],
           task[t].at # "invalidate" \/ s = task[t],
           NEW c, Invalidating(c)
    PROVE  Invalidating(c)'
  BY DEF Invalidating, TasksOK

LEMMA TasksKeepInvalidating ==
    ASSUME TasksOK, Next, ~Crash, ~\E t \in Tasks : Invalidate(t),
           NEW c \in Channels, Invalidating(c)
    PROVE  Invalidating(c)'
<1>1. CASE UNCHANGED task BY <1>1 DEF Invalidating
<1>2. ASSUME NEW t \in Tasks, NEW s, task' = [task EXCEPT ![t] = s], task[t].at # "invalidate"
      PROVE  Invalidating(c)'
    BY <1>2, StillInvalidating
<1>3. ASSUME NEW t \in Tasks, NEW read, NEW u, Begin(t, u, read)
      PROVE  Invalidating(c)'
    BY <1>2, <1>3 DEF Begin
<1>4. ASSUME NEW t \in Tasks, task[t].at # "invalidate",
             Over(t) \/ \E label \in {"start", "annex", "invalidate"} : Goto(t, label)
      PROVE  Invalidating(c)'
    BY <1>2, <1>4 DEF Over, Goto
<1>5. ASSUME NEW t \in Tasks,
             \/ CallRedeem(t)
             \/ \E u \in Users, f, g \in Factions, a \in Wagers : CallMove(t, u, f, g, a)
             \/ \E u \in Users, w \in Wagers : Blackjack(t, u, w)
             \/ \E u \in Users, d \in Channels : CallClaim(t, u, d)
             \/ \E u \in Users : CallDisband(t, u) \/ \E f \in Factions : CallAnnex(t, u, f)
      PROVE  Invalidating(c)'
    BY <1>3, <1>5 DEF CallRedeem, CallMove, Blackjack, CallClaim, CallDisband, CallAnnex
<1>6. ASSUME NEW t \in Tasks,
             \/ RefundStale(t) \/ AcceptAnnex(t) \/ Claim(t) \/ Move(t) \/ StartHand(t)
             \/ Redeem(t) \/ Disband(t) \/ Annex(t) \/ GiveUp(t)
      PROVE  Invalidating(c)'
    BY <1>4, <1>6 DEF RefundStale, AcceptAnnex, Claim, Move, StartHand, Redeem, Disband, Annex,
                      GiveUp
<1>7. ASSUME NEW t \in Tasks, CheckStale(t)
      PROVE  Invalidating(c)'
  <2>1. task[t].at # "invalidate" BY <1>7 DEF CheckStale
  <2>2. PICK s : task' = [task EXCEPT ![t] = s] BY <1>7 DEF CheckStale
  <2> QED BY <1>2, <2>1, <2>2
<1> QED BY <1>1, <1>5, <1>6, <1>7, TasksChange

LEMMA ClaimsChange ==
    ASSUME TablesOK, TasksOK, Next, NEW c \in Channels, claim[c] = None, claim'[c] # None
    PROVE  \E t \in Tasks : Claim(t)
<1>1. ~UNCHANGED tables /\ ~UNCHANGED claim BY DEF tables
<1>2. ASSUME NEW t \in Tasks, Disband(t) PROVE FALSE BY <1>2 DEF Disband, TablesOK
<1>3. ASSUME NEW t \in Tasks, Annex(t) PROVE FALSE
  <2>1. task[t].other \in Factions BY <1>3 DEF Annex, TasksOK, TaskOK
  <2> QED BY <1>1, <1>3, <2>1 DEF Annex
<1>4. ASSUME NEW d \in Channels, NEW f \in Factions, Unclaim(f, d) PROVE FALSE
    BY <1>4 DEF Unclaim, TablesOK
<1>5. ASSUME NEW f \in Factions, Credit(f, 1) \/ Credit(f, -1) \/ \E p \in Wagers : Buy(f, p)
      PROVE  FALSE
    BY <1>1, <1>5 DEF Credit, Buy
<1>6. ASSUME NEW t \in Tasks, Move(t) \/ RefundStale(t) \/ StartHand(t) \/ Redeem(t)
      PROVE  FALSE
    BY <1>1, <1>6 DEF Move, RefundStale, StartHand, Redeem
<1>7. ASSUME NEW h \in Hands, Settled(h) \/ SettleFails(h)
      PROVE  FALSE
    BY <1>1, <1>7 DEF Settled, SettleFails
<1>8. ASSUME NEW d \in Channels, EndLookup(d) PROVE FALSE BY <1>1, <1>8 DEF EndLookup
<1>9. ASSUME NEW u \in Users, GetsOld(u) \/ Leave(u)
                              \/ \E f \in Factions : Create(u, f) \/ Join(u, f)
      PROVE  FALSE
    BY <1>1, <1>9 DEF GetsOld, Leave, Create, Join
<1> QED
    BY <1>1, <1>2, <1>3, <1>4, <1>5, <1>6, <1>7, <1>8, <1>9, TablesChange

LEMMA LookupStep ==
    ASSUME TablesOK, TasksOK, LookupsOK, Next
    PROVE  LookupsOK'
<1>1. CASE UNCHANGED looking /\ ~Crash /\ ~\E t \in Tasks : Claim(t) \/ Invalidate(t)
    BY <1>1, SameLookups, TasksKeepInvalidating, ClaimsChange
<1>2. ASSUME NEW t \in Tasks, Claim(t)
      PROVE  LookupsOK'
  <2>1. PICK c \in Channels : c = task[t].channel BY <1>2 DEF Claim, TasksOK, TaskOK
  <2>2. UNCHANGED <<unclaimed, lookup>> BY <1>2 DEF Claim
  <2>3. \A d \in Channels : Invalidating(d) => Invalidating(d)'
    <3>1. PICK s : task' = [task EXCEPT ![t] = s] BY <1>2 DEF Claim, Over, Goto
    <3>2. task[t].at # "invalidate" BY <1>2 DEF Claim
    <3> QED BY <3>1, <3>2, StillInvalidating
  <2>4. CASE UNCHANGED <<claim, doubt>>
    <3>1. UNCHANGED looking BY <2>2, <2>4 DEF looking
    <3> QED BY <2>3, <2>4, <3>1, SameLookups
  <2>5. CASE claim' = [claim EXCEPT ![c] = task[t].faction]
             /\ ((doubt' = doubt /\ Goto(t, "invalidate")) \/ doubt' = doubt \cup {c})
    <3>1. c \in doubt' \/ Invalidating(c)'
      <4>1. CASE c \in doubt' BY <4>1
      <4>2. CASE Goto(t, "invalidate")
        <5>1. task'[t] = [task[t] EXCEPT !.at = "invalidate"] BY <4>2 DEF Goto, TasksOK
        <5>2. task[t] \in TaskStates BY DEF TasksOK
        <5>3. task'[t].at = "invalidate" /\ task'[t].channel = c
            BY <2>1, <5>1, <5>2 DEF TaskStates
        <5> QED BY <5>3 DEF Invalidating
      <4> QED BY <2>5, <4>1, <4>2
    <3>2. doubt \subseteq doubt' /\ doubt' \subseteq Channels BY <2>5 DEF LookupsOK
    <3>3. \A d \in Channels : d # c => claim'[d] = claim[d] BY <2>5 DEF TablesOK
    <3>4. NoClaimHidden'
      <4> SUFFICES ASSUME NEW d \in unclaimed, d \notin doubt', claim'[d] # None
                   PROVE  Invalidating(d)'
          BY <2>2 DEF NoClaimHidden, Invalidating
      <4>1. CASE d = c BY <3>1, <4>1
      <4>2. CASE d # c
        <5>1. Invalidating(d)
            BY <3>2, <3>3, <4>2 DEF LookupsOK, NoClaimHidden, Invalidating
        <5> QED BY <2>3, <5>1 DEF LookupsOK
      <4> QED BY <4>1, <4>2
    <3>5. ASSUME NEW d \in Channels \ doubt', claim'[d] # None,
                 lookup[d].at = "read" /\ lookup[d].fresh /\ lookup[d].row = None
          PROVE  Invalidating(d)'
      <4>1. CASE d = c BY <3>1, <3>5, <4>1
      <4>2. CASE d # c
        <5>1. Invalidating(d) BY <3>2, <3>3, <3>5, <4>2 DEF LookupsOK
        <5> QED BY <2>3, <5>1
      <4> QED BY <4>1, <4>2
    <3> QED BY <2>2, <3>2, <3>4, <3>5 DEF LookupsOK
  <2> QED BY <1>2, <2>1, <2>4, <2>5 DEF Claim
<1>3. ASSUME NEW t \in Tasks, Invalidate(t)
      PROVE  LookupsOK'
  <2>1. PICK c \in Channels : c = task[t].channel BY <1>3 DEF Invalidate, TasksOK, TaskOK
  <2>2. /\ unclaimed' = unclaimed \ {c} /\ doubt' = doubt \ {c} /\ claim' = claim
        /\ lookup' = [d \in Channels |-> StaleNow(lookup[d])]
        /\ task' = [task EXCEPT ![t] = NoTask]
      BY <1>3, <2>1 DEF Invalidate, tables, Over
  <2>3. \A d \in Channels : d # c /\ Invalidating(d) => Invalidating(d)'
      BY <2>1, <2>2 DEF Invalidating, TasksOK
  <2>4. \A d \in Channels : /\ lookup'[d] \in Lookups /\ ~lookup'[d].fresh
                            /\ lookup'[d].at = lookup[d].at
      BY <2>2 DEF StaleNow, Lookups, LookupsOK
  <2>5. lookup' \in [Channels -> Lookups] BY <2>2, <2>4
  <2>6. NoClaimHidden'
    <3> SUFFICES ASSUME NEW d \in unclaimed, d # c, d \notin doubt, claim[d] # None
                 PROVE  Invalidating(d)'
        BY <2>2 DEF NoClaimHidden, Invalidating
    <3>1. Invalidating(d) BY DEF LookupsOK, NoClaimHidden, Invalidating
    <3> QED BY <2>3, <3>1 DEF LookupsOK
  <2> QED BY <2>2, <2>4, <2>5, <2>6 DEF LookupsOK
<1>4. ASSUME NEW c \in Channels,
             lookup' = [lookup EXCEPT ![c] = lookup'[c]], lookup'[c] \in Lookups,
             c \in unclaimed' => lookup'[c].at = "idle",
             /\ lookup'[c].at = "read" /\ lookup'[c].row = None /\ lookup'[c].fresh
                   => claim[c] = None \/ c \in doubt \/ Invalidating(c),
             unclaimed' = unclaimed
               \/ (unclaimed' = unclaimed \cup {c}
                     /\ (claim[c] = None \/ c \in doubt \/ Invalidating(c))),
             UNCHANGED <<claim, doubt, task>>
      PROVE  LookupsOK'
  <2>1. \A d \in Channels : Invalidating(d) => Invalidating(d)' BY <1>4 DEF Invalidating
  <2>2. NoClaimHidden' BY <1>4 DEF LookupsOK, NoClaimHidden, Invalidating
  <2>3. lookup' \in [Channels -> Lookups] /\ \A d \in Channels : d # c => lookup'[d] = lookup[d]
      BY <1>4 DEF LookupsOK
  <2>4. unclaimed' \subseteq Channels BY <1>4 DEF LookupsOK
  <2> QED BY <1>4, <2>1, <2>2, <2>3, <2>4 DEF LookupsOK
<1>5. ASSUME NEW c \in Channels, Lookup(c)
      PROVE  LookupsOK'
  <2> DEFINE l == [at |-> "reading", row |-> None, fresh |-> TRUE]
  <2>1. /\ lookup' = [lookup EXCEPT ![c] = l] /\ c \notin unclaimed
        /\ UNCHANGED <<unclaimed, doubt, claim, task>>
      BY <1>5 DEF Lookup, tables
  <2>2. l \in Lookups BY DEF Lookups
  <2>3. lookup'[c] = l BY <2>1 DEF LookupsOK
  <2>4. lookup' = [lookup EXCEPT ![c] = lookup'[c]] BY <2>1, <2>3
  <2>5. lookup'[c].at = "reading" BY <2>3
  <2> QED BY <1>4, <2>1, <2>2, <2>3, <2>4, <2>5
<1>6. ASSUME NEW c \in Channels, ReadClaim(c)
      PROVE  LookupsOK'
  <2>1. /\ lookup[c] \in Lookups /\ lookup[c].at = "reading" /\ c \notin unclaimed
        /\ claim[c] \in Factions \cup {None}
      BY <1>6 DEF ReadClaim, LookupsOK, TablesOK, References
  <2> DEFINE l == [at |-> "read", row |-> claim[c], fresh |-> lookup[c].fresh]
  <2>2. l \in Lookups BY <2>1 DEF Lookups
  <2>3. lookup' = [lookup EXCEPT ![c] = l] /\ UNCHANGED <<unclaimed, doubt, claim, task>>
      BY <1>6 DEF ReadClaim, tables
  <2>4. lookup'[c] = l BY <2>3 DEF LookupsOK
  <2>5. lookup' = [lookup EXCEPT ![c] = lookup'[c]] BY <2>3, <2>4
  <2>6. lookup'[c].row = claim[c] BY <2>4
  <2> QED BY <1>4, <2>1, <2>2, <2>3, <2>4, <2>5, <2>6
<1>9. ASSUME NEW c \in Channels, EndLookup(c)
      PROVE  LookupsOK'
  <2>1. /\ lookup' = [lookup EXCEPT ![c] = NoLookup] /\ lookup[c].at = "read"
        /\ UNCHANGED <<doubt, claim, task>>
      BY <1>9 DEF EndLookup
  <2>2. lookup'[c] = NoLookup BY <2>1 DEF LookupsOK
  <2>3. NoLookup \in Lookups BY DEF NoLookup, Lookups
  <2>4. \/ unclaimed' = unclaimed
        \/ /\ unclaimed' = unclaimed \cup {c}
           /\ claim[c] = None \/ c \in doubt \/ Invalidating(c)
      BY <1>9, <2>1 DEF EndLookup, LookupsOK
  <2>5. lookup' = [lookup EXCEPT ![c] = lookup'[c]] BY <2>1, <2>2
  <2>6. lookup'[c].at = "idle" BY <2>2 DEF NoLookup
  <2> QED BY <1>4, <2>1, <2>2, <2>3, <2>4, <2>5, <2>6
<1>7. ASSUME NEW c \in Channels, Forget(c)
      PROVE  LookupsOK'
  <2>1. UNCHANGED <<claim, task, lookup>> BY <1>7 DEF Forget, tables
  <2> QED BY <1>7, <2>1 DEF Forget, LookupsOK, NoClaimHidden, Invalidating
<1>8. CASE Crash
  <2>1. /\ unclaimed' = {} /\ doubt' = {} /\ lookup' = [c \in Channels |-> NoLookup]
      BY <1>8 DEF Crash
  <2> QED BY <2>1 DEF LookupsOK, NoClaimHidden, NoLookup, Lookups
<1> QED BY <1>1, <1>2, <1>3, <1>5, <1>6, <1>7, <1>8, <1>9, LookingChanges

LEMMA LeftStep ==
    ASSUME left \in Nat, Next
    PROVE  left' \in Nat
<1>1. CASE Money BY <1>1 DEF Money, Credit, Buy, CallMove, Move, Begin, Spend
<1>2. CASE Hand
  <2>1. ASSUME NEW t \in Tasks, NEW u \in Users, NEW w \in Wagers, Blackjack(t, u, w)
        PROVE  left' \in Nat
      BY <2>1 DEF Blackjack, Begin, Spend
  <2>2. ASSUME NEW t \in Tasks, CheckStale(t) \/ RefundStale(t) \/ StartHand(t)
        PROVE  left' \in Nat
      BY <2>2 DEF CheckStale, RefundStale, StartHand
  <2>3. ASSUME NEW u \in Users, GetsOld(u)
        PROVE  left' \in Nat
      BY <2>3 DEF GetsOld
  <2>4. ASSUME NEW h \in Hands, \/ Deal(h) \/ FinishHand(h) \/ Timeout(h) \/ Unload(h)
                                \/ Settled(h) \/ SettleFails(h)
        PROVE  left' \in Nat
      BY <2>4 DEF Deal, FinishHand, Timeout, Unload, Settled, SettleFails, ViewOnly
  <2> QED BY <1>2, <2>1, <2>2, <2>3, <2>4 DEF Hand
<1>3. CASE Vote BY <1>3 DEF Vote, CallRedeem, RecordVote, Redeem, Begin, Spend
<1>4. CASE Territory
    BY <1>4 DEF Territory, CallClaim, Claim, Invalidate, Unclaim, Lookup, ReadClaim, EndLookup,
                Forget, Begin, Spend
<1>5. CASE Membership
    BY <1>5 DEF Membership, Create, Join, Leave, CallDisband, Disband, CallAnnex, AcceptAnnex,
                Annex, GiveUp, Begin, Spend
<1>6. CASE Crash BY <1>6 DEF Crash, Spend
<1> QED BY <1>1, <1>2, <1>3, <1>4, <1>5, <1>6 DEF Next

LEMMA InitIInv == Init => IInv
<1> SUFFICES ASSUME Init PROVE IInv OBVIOUS
<1> USE DEF Init
<1>1. TablesOK BY DEF TablesOK, StatusOK, References, Alive
<1>2. VotesOK BY DEF VotesOK, VotesCountOnce
<1>3. TasksOK BY DEF TasksOK, TaskStates, TaskOK, NoTask
<1>4. HandsOK BY DEF HandsOK, HandsSettleOnce, Holds, Views, NoView, Outcomes
<1>5. LookupsOK BY DEF LookupsOK, NoClaimHidden, Lookups, NoLookup
<1>6. left \in Nat OBVIOUS
<1> QED BY <1>1, <1>2, <1>3, <1>4, <1>5, <1>6 DEF IInv

LEMMA StepIInv == IInv /\ [Next]_vars => IInv'
<1> SUFFICES ASSUME IInv, [Next]_vars PROVE IInv' OBVIOUS
<1>1. CASE Next
    BY <1>1, TableStep, VotingStep, TaskStep, HandStep, LookupStep, LeftStep DEF IInv
<1>2. CASE UNCHANGED vars
  <2>1. UNCHANGED <<tables, voting, looking, blackjack, task, left>> BY <1>2 DEF vars
  <2>2. TablesOK' BY <2>1 DEF IInv, TablesOK, StatusOK, References, Alive, tables
  <2>3. VotesOK' BY <2>1 DEF IInv, VotesOK, VotesCountOnce, voting
  <2>4. TasksOK' BY <2>1 DEF IInv, TasksOK
  <2>5. HandsOK'
      BY <2>1 DEF IInv, HandsOK, HandsSettleOnce, Holds, Alive, blackjack, tables
  <2>6. LookupsOK' BY <2>1, SameLookups DEF IInv, Invalidating, tables
  <2> QED BY <2>1, <2>2, <2>3, <2>4, <2>5, <2>6 DEF IInv
<1> QED BY <1>1, <1>2

\* What is stored and remembered is well formed, and every member, hand and claim
\* belongs to a faction that is there, for any number of members and commands.
THEOREM TypeCorrect == Spec => []TypeOK
<1>1. IInv => TypeOK
    BY DEF IInv, TypeOK, TablesOK, StatusOK, VotesOK, TasksOK, HandsOK, LookupsOK
<1> QED BY InitIInv, StepIInv, <1>1, PTL DEF Spec

\* The guards of the statements keep every treasury out of debt, however old the
\* balances are that the commands looked at.
THEOREM NoDebt == Spec => []NeverOverdrawn
<1>1. IInv => NeverOverdrawn BY DEF IInv, TablesOK, NeverOverdrawn
<1> QED BY InitIInv, StepIInv, <1>1, PTL DEF Spec

\* The row of a hand is the hand: whoever settles it first settles it for all.
THEOREM OneSettlement == Spec => []HandsSettleOnce
<1>1. IInv => HandsSettleOnce BY DEF IInv, HandsOK
<1> QED BY InitIInv, StepIInv, <1>1, PTL DEF Spec

\* A delivery is as good as many: the receipt decides.
THEOREM OneReward == Spec => []VotesCountOnce
<1>1. IInv => VotesCountOnce BY DEF IInv, VotesOK
<1> QED BY InitIInv, StepIInv, <1>1, PTL DEF Spec

\* The revision of the claims keeps a late lookup from hiding a claim.
THEOREM ClaimsSeen == Spec => []NoClaimHidden
<1>1. IInv => NoClaimHidden BY DEF IInv, LookupsOK
<1> QED BY InitIInv, StepIInv, <1>1, PTL DEF Spec
=============================================================================
