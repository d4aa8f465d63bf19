------------------------------ MODULE Factions ------------------------------
(***************************************************************************)
(* The treasury of the factions game, cogs/fun/factions_rewrite.py, and    *)
(* the votes botutils/topgg_votes.py records for it. MySQL "remains the    *)
(* only source of faction state": a command reads, waits for MySQL, for a  *)
(* reply or for a button, and writes in one transaction at its end. Other  *)
(* commands, of the same member too, run in between.                       *)
(*                                                                         *)
(* One guild. Whoever may give a command is any member of the faction:     *)
(* roles, names, boosts, cooldowns and the clocks of daily, trade and      *)
(* industry are left out, and so is foraging.                              *)
(***************************************************************************)
EXTENDS Integers

CONSTANTS
    Factions, Users, Hands, Votes, Channels, None,
    Tasks,          \* commands under way at once
    Voter,          \* the member whose votes are delivered
    Wagers,
    StartBalance, ClaimPrice, TakeoverPrice, UnclaimReturn, VoteReward,
    MaxCommands     \* bound: commands, deliveries, lookups and crashes

Rows == [hand : Hands, faction : Factions, wager : Wagers, old : BOOLEAN]

ASSUME FactionsAssumption ==
    /\ Wagers \subseteq Nat \ {0}
    /\ {StartBalance, ClaimPrice, TakeoverPrice, UnclaimReturn, VoteReward, MaxCommands}
           \subseteq Nat
    /\ Voter \in Users
    /\ None \notin Factions \cup Channels \cup Users \cup Rows

VARIABLES
    status, balance,     \* table factions; a deleted id is never used again
    member,              \* table faction_members
    game,                \* table faction_blackjack_games
    claim,               \* table faction_claims
    receipts, votes,     \* tables topgg_vote_receipts and votes
    view,                \* per hand: its BlackjackView
    task,                \* per command under way: what it has read and waits for
    unclaimed, lookup,   \* unclaimed_channels; find_channel_claim() under way
    left,                \* bound: commands left
    acked, redeemed,     \* history: deliveries answered with success, votes paid
    paid,                \* history: how often a hand was settled
    doubt                \* history: claims committed without an answer

tables == <<status, balance, member, game, claim>>
voting == <<receipts, votes, acked, redeemed>>
looking == <<unclaimed, lookup, doubt>>
blackjack == <<view, paid>>
vars == <<tables, voting, looking, blackjack, task, left>>

\* How a hand may end, by what ends it.
Outcomes == [deal |-> {"push", "blackjack", "loss"}, player |-> {"loss", "push", "win"},
             timeout |-> {"push"}, unload |-> {"push"}]

Views == [at : {"none", "dealt", "open", "settling", "dead", "over"},
          user : Users \cup {None}, faction : Factions \cup {None},
          by : DOMAIN Outcomes, expired : BOOLEAN]
TaskStates == [at : {"idle", "checkStale", "refundStale", "start", "move", "offer",
                     "annex", "disband", "redeem", "claim", "invalidate"},
               user : Users \cup {None}, faction : Factions \cup {None},
               other : Factions \cup {None}, amount : Int, channel : Channels \cup {None}]
Lookups == [at : {"idle", "reading", "read"}, row : Factions \cup {None}, fresh : BOOLEAN]

NoTask == [at |-> "idle", user |-> None, faction |-> None, other |-> None,
           amount |-> 0, channel |-> None]
NoView == [at |-> "none", user |-> None, faction |-> None, by |-> "deal",
           expired |-> FALSE]
NoLookup == [at |-> "idle", row |-> None, fresh |-> FALSE]

\* UPDATE factions ... WHERE id = f changes a row.
Alive(f) == status[f] = "alive"

\* A foreign key: no row, or one that refers to a faction that is there.
References == {f \in Factions : Alive(f)} \cup {None}

\* Types, and the foreign keys of the members, hands and claims, whatever ends their
\* faction.
TypeOK ==
    /\ status \in [Factions -> {"unborn", "alive", "gone"}]
    /\ balance \in [Factions -> Int]
    /\ member \in [Users -> References]
    /\ game \in [Users -> Rows \cup {None}]
    /\ \A u \in Users : game[u] # None => Alive(game[u].faction)
    /\ claim \in [Channels -> References]
    /\ receipts \subseteq Votes /\ votes \subseteq Votes /\ acked \subseteq Votes
    /\ view \in [Hands -> Views] /\ task \in [Tasks -> TaskStates]
    /\ unclaimed \subseteq Channels /\ doubt \subseteq Channels
    /\ lookup \in [Channels -> Lookups]
    /\ left \in Nat
    /\ redeemed \in [Votes -> Nat] /\ paid \in [Hands -> Nat]

Init ==
    /\ member \in [Users -> Factions]
    /\ status = [f \in Factions |->
                    IF \E u \in Users : member[u] = f THEN "alive" ELSE "unborn"]
    /\ balance = [f \in Factions |-> IF status[f] = "alive" THEN StartBalance ELSE 0]
    /\ game = [u \in Users |-> None] /\ claim = [c \in Channels |-> None]
    /\ receipts = {} /\ votes = {} /\ acked = {} /\ redeemed = [v \in Votes |-> 0]
    /\ view = [h \in Hands |-> NoView] /\ paid = [h \in Hands |-> 0]
    /\ task = [t \in Tasks |-> NoTask]
    /\ unclaimed = {} /\ doubt = {} /\ lookup = [c \in Channels |-> NoLookup]
    /\ left = MaxCommands

Spend == left > 0 /\ left' = left - 1

\* A command has read its member's faction, and what else `read` says.
Begin(t, u, read) ==
    /\ Spend
    /\ task[t].at = "idle" /\ member[u] # None
    /\ task' = [task EXCEPT ![t] = read]

Reads(label, u) == [at |-> label, user |-> u, faction |-> member[u], other |-> None,
                    amount |-> 0, channel |-> None]
Goto(t, label) == task' = [task EXCEPT ![t].at = label]
Over(t) == task' = [task EXCEPT ![t] = NoTask]

\* UPDATE factions SET balance = balance + amount WHERE id = f: no row, no error.
Credited(f, amount) ==
    [balance EXCEPT ![f] = IF Alive(f) THEN @ + amount ELSE @]

------------------------------------------------------------------------------
(* Commands whose only effect on the treasury is one guarded statement. *)

\* credit(): income, coinflip, and the owner's adjustments.
Credit(f, amount) ==
    /\ Spend
    /\ Alive(f) /\ balance[f] + amount >= 0
    /\ balance' = Credited(f, amount)
    /\ UNCHANGED <<status, member, game, claim, voting, looking, blackjack, task>>

\* confirm_purchase() and upgrade_industry() pay `price` if it is there.
Buy(f, price) ==
    /\ Spend
    /\ Alive(f) /\ balance[f] >= price
    /\ balance' = Credited(f, 0 - price)
    /\ UNCHANGED <<status, member, game, claim, voting, looking, blackjack, task>>

------------------------------------------------------------------------------
(* Money between factions: pay, battle and raid. *)

\* The amount fits what was read; for a battle or a raid that of both.
CallMove(t, u, loser, winner, amount) ==
    /\ Alive(loser) /\ Alive(winner) /\ loser # winner
    /\ amount <= balance[loser]
    /\ \/ member[u] = loser
       \/ member[u] = winner /\ amount <= balance[winner]
    /\ Begin(t, u, [at |-> "move", user |-> u, faction |-> loser, other |-> winner,
                    amount |-> amount, channel |-> None])
    /\ UNCHANGED <<tables, voting, looking, blackjack>>

\* Mutant of CanPay: the balance that was read is trusted.
Trusted(f, amount) == Alive(f)

\* UPDATE ... WHERE id = f AND balance >= amount changes a row.
CanPay(f, amount) == Alive(f) /\ balance[f] >= amount

Move(t) ==
    LET loser == task[t].faction
        winner == task[t].other
        amount == task[t].amount
    IN
    /\ task[t].at = "move"
    /\ IF CanPay(loser, amount)
       THEN balance' = [balance EXCEPT ![loser] = @ - amount,
                                       ![winner] = IF Alive(winner) THEN @ + amount ELSE @]
       ELSE UNCHANGED balance
    /\ Over(t)
    /\ UNCHANGED <<status, member, game, claim, voting, looking, blackjack, left>>

------------------------------------------------------------------------------
(* Blackjack: the transactions of FactionRepository. *)

Returned(outcome, wager) ==
    CASE outcome = "loss" -> 0
      [] outcome = "push" -> wager
      [] outcome = "win"  -> 2 * wager
      [] OTHER            -> wager + (IF wager = 1 THEN 1 ELSE (wager * 3) \div 2)

\* The row the settlement of a hand of u's faction f finds.
HasGame(f, u) == Alive(f) /\ game[u] # None /\ game[u].faction = f

\* Mutant of RowAfter: the row of a settled hand stays.
RowStays(u) == game

RowAfter(u) == [game EXCEPT ![u] = None]

\* settle_blackjack(): the row that is there is paid and deleted, if there is one.
SettleRow(f, u, outcome) ==
    IF HasGame(f, u)
    THEN LET row == game[u] IN
         /\ balance' = Credited(f, Returned(outcome, row.wager))
         /\ game' = RowAfter(u)
         /\ paid' = [paid EXCEPT ![row.hand] = @ + 1]
    ELSE UNCHANGED <<balance, game, paid>>

Blackjack(t, u, wager) ==
    /\ Begin(t, u, [Reads("checkStale", u) EXCEPT !.amount = wager])
    /\ UNCHANGED <<tables, voting, looking, blackjack>>

\* refund_stale_blackjack() reads the row of the member.
CheckStale(t) ==
    LET row == game[task[t].user] IN
    /\ task[t].at = "checkStale"
    /\ task' = IF row # None /\ row.old
               THEN [task EXCEPT ![t].at = "refundStale", ![t].other = row.faction]
               ELSE [task EXCEPT ![t].at = "start"]
    /\ UNCHANGED <<tables, voting, looking, blackjack, left>>

\* and settles whatever row is there by now.
RefundStale(t) ==
    /\ task[t].at = "refundStale"
    /\ SettleRow(task[t].other, task[t].user, "push")
    /\ Goto(t, "start")
    /\ UNCHANGED <<status, member, claim, voting, looking, view, left>>

MayStart(f, u, wager) ==
    Alive(f) /\ game[u] = None /\ member[u] = f /\ wager <= balance[f]

\* The wager leaves the treasury, the row appears, and the cards are dealt, unless
\* the answer to the commit is lost.
StartHand(t) ==
    LET f == task[t].faction
        u == task[t].user
        wager == task[t].amount
    IN
    /\ task[t].at = "start"
    /\ IF MayStart(f, u, wager)
       THEN \E h \in Hands :
               /\ view[h].at = "none"
               /\ balance' = Credited(f, 0 - wager)
               /\ game' = [game EXCEPT ![u] = [hand |-> h, faction |-> f,
                                               wager |-> wager, old |-> FALSE]]
               /\ \E at \in {"dealt", "dead"} :
                     view' = [view EXCEPT ![h] = [at |-> at, user |-> u, faction |-> f,
                                                  by |-> "deal", expired |-> FALSE]]
       ELSE UNCHANGED <<balance, game, view>>
    /\ Over(t)
    /\ UNCHANGED <<status, member, claim, voting, looking, paid, left>>

\* BLACKJACK_STALE_SECONDS have passed; the view may be open still, as every hit
\* restarts its 90 seconds.
GetsOld(u) ==
    /\ game[u] # None /\ ~game[u].old
    /\ game' = [game EXCEPT ![u].old = TRUE]
    /\ UNCHANGED <<status, balance, member, claim, voting, looking, blackjack, task, left>>

------------------------------------------------------------------------------
(* Blackjack: the view. action_lock and finish_lock let one settlement of a view  *)
(* run at a time; what waits for them finds the view finished or goes on after it. *)

ViewOnly == UNCHANGED <<tables, voting, looking, paid, task, left>>
Refresh(v, at, by, expired) ==
    [at |-> at, user |-> v.user, faction |-> v.faction, by |-> by, expired |-> expired]
Settles(h, by, expired) == view' = [view EXCEPT ![h] = Refresh(@, "settling", by, expired)]

\* blackjack() sends the hand, or finishes at once with a natural 21, and gives
\* the wager back when either raises.
Deal(h) ==
    /\ view[h].at = "dealt"
    /\ \/ view' = [view EXCEPT ![h].at = "open"]
       \/ Settles(h, "deal", FALSE)
       \/ Settles(h, "timeout", FALSE)
    /\ ViewOnly

\* A stand, or a hit to 21 or more; a lower hit changes nothing here.
FinishHand(h) ==
    /\ view[h].at = "open"
    /\ Settles(h, "player", FALSE)
    /\ ViewOnly

\* on_timeout() refunds.
Timeout(h) ==
    /\ ~view[h].expired
    /\ \/ /\ view[h].at = "open"
          /\ Settles(h, "timeout", TRUE)
       \/ /\ view[h].at = "settling" /\ view[h].by \in {"player", "unload"}
          /\ Settles(h, view[h].by, TRUE)
    /\ ViewOnly

\* cog_unload() refunds the views it knows, those too whose refund failed. The process
\* ends with the cog here: that a new cog has a cache of claims of its own, which a
\* command begun on the old one does not invalidate, is left out.
Unload(h) ==
    /\ \/ view[h].at = "open" /\ Settles(h, "unload", FALSE)
       \/ view[h].at = "dead" /\ view[h].expired /\ Settles(h, "timeout", TRUE)
    /\ ViewOnly

SettleView(h) ==
    \E outcome \in Outcomes[view[h].by] :
        SettleRow(view[h].faction, view[h].user, outcome)

\* The settlement of the hand is committed.
Settled(h) ==
    /\ view[h].at = "settling"
    /\ SettleView(h)
    /\ view' = [view EXCEPT ![h].at = "over"]
    /\ UNCHANGED <<status, member, claim, voting, looking, task, left>>

\* What happens to a view whose settlement raised.
AfterFailure(v) ==
    CASE v.by = "timeout" -> [v EXCEPT !.at = "dead"]
      [] v.by = "deal" \/ v.expired -> [v EXCEPT !.by = "timeout"]
      [] OTHER -> [v EXCEPT !.at = "open"]

\* It raises, committed or not.
SettleFails(h) ==
    /\ view[h].at = "settling"
    /\ \/ SettleView(h)
       \/ UNCHANGED <<balance, game, paid>>
    /\ view' = [view EXCEPT ![h] = AfterFailure(@)]
    /\ UNCHANGED <<status, member, claim, voting, looking, task, left>>

------------------------------------------------------------------------------
(* Votes. Top.gg delivers a vote until it is answered with success, and maybe *)
(* once more. *)

\* Mutant of VotesWith: a second delivery adds a second vote.
VotesWithAny(v) == votes \cup {v}

\* INSERT IGNORE of the receipt says whether the vote is new.
VotesWith(v) == IF v \in receipts THEN votes ELSE votes \cup {v}

\* record() commits; the answer comes within 3.5 seconds, or Top.gg gets an error
\* for a vote that is stored.
RecordVote(v) ==
    /\ Spend
    /\ receipts' = receipts \cup {v}
    /\ votes' = VotesWith(v)
    /\ acked' \in {acked, acked \cup {v}}
    /\ UNCHANGED <<tables, looking, blackjack, task, redeemed>>

CallRedeem(t) ==
    /\ Begin(t, Voter, Reads("redeem", Voter))
    /\ UNCHANGED <<tables, voting, looking, blackjack>>

\* The oldest vote is deleted and the faction that was read gets its reward. If that
\* faction has gone meanwhile the vote is used up and nobody is credited.
Redeem(t) ==
    LET f == task[t].faction IN
    /\ task[t].at = "redeem"
    /\ \/ \E v \in votes :
             /\ votes' = votes \ {v}
             /\ redeemed' = [redeemed EXCEPT ![v] = @ + 1]
             /\ balance' = Credited(f, VoteReward)
       \/ votes = {} /\ UNCHANGED <<votes, redeemed, balance>>
    /\ Over(t)
    /\ UNCHANGED <<status, member, game, claim, receipts, acked, looking, blackjack, left>>

------------------------------------------------------------------------------
(* Territory. *)

CallClaim(t, u, c) ==
    /\ Begin(t, u, [Reads("claim", u) EXCEPT !.channel = c])
    /\ UNCHANGED <<tables, voting, looking, blackjack>>

Price(c) == IF claim[c] = None THEN ClaimPrice ELSE TakeoverPrice

\* The transaction of claim(); a guarded claim or one of their own is refused. The
\* answer to the commit may be lost, and the command ends without invalidate_claim().
Claim(t) ==
    LET f == task[t].faction
        c == task[t].channel
    IN
    /\ task[t].at = "claim"
    /\ \/ /\ claim[c] # f /\ CanPay(f, Price(c))
          /\ balance' = Credited(f, 0 - Price(c))
          /\ claim' = [claim EXCEPT ![c] = f]
          /\ \/ Goto(t, "invalidate") /\ UNCHANGED doubt
             \/ Over(t) /\ doubt' = doubt \cup {c}
       \/ /\ claim[c] # None \/ ~CanPay(f, Price(c))
          /\ Over(t)
          /\ UNCHANGED <<balance, claim, doubt>>
    /\ UNCHANGED <<status, member, game, voting, unclaimed, lookup, blackjack, left>>

\* Mutant of StaleNow: only the entry of the channel goes.
StaleNever(l) == l

\* Every lookup under way has read an older revision.
StaleNow(l) == [l EXCEPT !.fresh = FALSE]

\* invalidate_claim()
Invalidate(t) ==
    /\ task[t].at = "invalidate"
    /\ unclaimed' = unclaimed \ {task[t].channel}
    /\ doubt' = doubt \ {task[t].channel}
    /\ lookup' = [c \in Channels |-> StaleNow(lookup[c])]
    /\ Over(t)
    /\ UNCHANGED <<tables, voting, blackjack, left>>

\* unclaim() finds the claim of its faction.
Unclaim(f, c) ==
    /\ Spend
    /\ claim[c] = f /\ Alive(f)
    /\ claim' = [claim EXCEPT ![c] = None]
    /\ balance' = Credited(f, UnclaimReturn)
    /\ UNCHANGED <<status, member, game, voting, looking, blackjack, task>>

\* The fifth message in a channel that is not known to be unclaimed.
Lookup(c) ==
    /\ Spend
    /\ lookup[c].at = "idle" /\ c \notin unclaimed
    /\ lookup' = [lookup EXCEPT ![c] = [at |-> "reading", row |-> None, fresh |-> TRUE]]
    /\ UNCHANGED <<tables, voting, unclaimed, doubt, blackjack, task>>

ReadClaim(c) ==
    /\ lookup[c].at = "reading"
    /\ lookup' = [lookup EXCEPT ![c] = [at |-> "read", row |-> claim[c], fresh |-> @.fresh]]
    /\ UNCHANGED <<tables, voting, unclaimed, doubt, blackjack, task, left>>

\* A channel without a claim is remembered, for a faction there is income.
EndLookup(c) ==
    LET f == lookup[c].row IN
    /\ lookup[c].at = "read"
    /\ lookup' = [lookup EXCEPT ![c] = NoLookup]
    /\ IF f = None
       THEN /\ unclaimed' = IF lookup[c].fresh THEN unclaimed \cup {c} ELSE unclaimed
            /\ UNCHANGED <<balance>>
       ELSE /\ balance' = Credited(f, 1)
            /\ UNCHANGED unclaimed
    /\ UNCHANGED <<status, member, game, claim, voting, doubt, blackjack, task, left>>

\* UNCLAIMED_CHANNEL_TTL, or too many channels are remembered.
Forget(c) ==
    /\ c \in unclaimed
    /\ unclaimed' = unclaimed \ {c} /\ doubt' = doubt \ {c}
    /\ UNCHANGED <<tables, voting, lookup, blackjack, task, left>>

------------------------------------------------------------------------------
(* Members, and factions that come and go. *)

Create(u, f) ==
    /\ Spend
    /\ member[u] = None /\ status[f] = "unborn"
    /\ status' = [status EXCEPT ![f] = "alive"]
    /\ member' = [member EXCEPT ![u] = f]
    /\ UNCHANGED <<balance, game, claim, voting, looking, blackjack, task>>

\* join(), and invite() once it is accepted.
Join(u, f) ==
    /\ Spend
    /\ member[u] = None /\ Alive(f)
    /\ member' = [member EXCEPT ![u] = f]
    /\ UNCHANGED <<status, balance, game, claim, voting, looking, blackjack, task>>

\* leave() and kick() delete the row of the user, whatever their faction is by now.
Leave(u) ==
    /\ Spend
    /\ member[u] # None
    /\ member' = [member EXCEPT ![u] = None]
    /\ UNCHANGED <<status, balance, game, claim, voting, looking, blackjack, task>>

\* Mutant of Deleted: a deletion leaves the hands of the faction behind.
HandsStay(f) == status' = [status EXCEPT ![f] = IF Alive(f) THEN "gone" ELSE @] /\ game' = game

\* DELETE FROM factions, and what refers to it by foreign key.
Deleted(f) ==
    /\ status' = [status EXCEPT ![f] = IF Alive(f) THEN "gone" ELSE @]
    /\ game' = [u \in Users |-> IF game[u] # None /\ game[u].faction = f THEN None
                                ELSE game[u]]

CallDisband(t, u) ==
    /\ Begin(t, u, Reads("disband", u))
    /\ UNCHANGED <<tables, voting, looking, blackjack>>

\* The answer was yes.
Disband(t) ==
    LET f == task[t].faction IN
    /\ task[t].at = "disband"
    /\ Deleted(f)
    /\ member' = [u \in Users |-> IF member[u] = f THEN None ELSE member[u]]
    /\ claim' = [c \in Channels |-> IF claim[c] = f THEN None ELSE claim[c]]
    /\ Over(t)
    /\ UNCHANGED <<balance, voting, looking, blackjack, left>>

\* annex() has read the other faction with its balance, and waits for its owner.
CallAnnex(t, u, f) ==
    /\ Alive(f) /\ f # member[u]
    /\ Begin(t, u, [at |-> "offer", user |-> u, faction |-> member[u], other |-> f,
                    amount |-> balance[f], channel |-> None])
    /\ UNCHANGED <<tables, voting, looking, blackjack>>

AcceptAnnex(t) ==
    /\ task[t].at = "offer"
    /\ \E u \in Users : member[u] = task[t].other
    /\ Goto(t, "annex")
    /\ UNCHANGED <<tables, voting, looking, blackjack, left>>

\* The balance that was read is added and everything else moved. Rows cannot move
\* to a faction that is gone: the transaction fails.
Annex(t) ==
    LET source == task[t].faction
        target == task[t].other
        held == (\E u \in Users : member[u] = target) \/ (\E c \in Channels : claim[c] = target)
    IN
    /\ task[t].at = "annex"
    /\ IF ~Alive(source) /\ held
       THEN UNCHANGED <<tables>>
       ELSE /\ Deleted(target)
            /\ balance' = Credited(source, task[t].amount)
            /\ member' = [u \in Users |-> IF member[u] = target THEN source ELSE member[u]]
            /\ claim' = [c \in Channels |-> IF claim[c] = target THEN source ELSE claim[c]]
    /\ Over(t)
    /\ UNCHANGED <<voting, looking, blackjack, left>>

\* A reply does not come or says no, Discord or MySQL refuses.
GiveUp(t) ==
    /\ task[t].at \notin {"idle", "invalidate"}
    /\ Over(t)
    /\ UNCHANGED <<tables, voting, looking, blackjack, left>>

\* The bot dies: rows stay, views, caches and commands are gone.
Crash ==
    /\ Spend
    /\ task' = [t \in Tasks |-> NoTask]
    /\ view' = [h \in Hands |-> IF view[h].at \in {"none", "over"} THEN view[h]
                                ELSE Refresh(view[h], "dead", view[h].by, FALSE)]
    /\ unclaimed' = {} /\ doubt' = {} /\ lookup' = [c \in Channels |-> NoLookup]
    /\ UNCHANGED <<tables, voting, paid>>

------------------------------------------------------------------------------
Money ==
    \/ \E f \in Factions : Credit(f, 1) \/ Credit(f, -1) \/ \E p \in Wagers : Buy(f, p)
    \/ \E t \in Tasks : Move(t) \/ \E u \in Users, f, g \in Factions, a \in Wagers :
                                      CallMove(t, u, f, g, a)

Hand ==
    \/ \E t \in Tasks : \/ CheckStale(t) \/ RefundStale(t) \/ StartHand(t)
                        \/ \E u \in Users, w \in Wagers : Blackjack(t, u, w)
    \/ \E u \in Users : GetsOld(u)
    \/ \E h \in Hands : \/ Deal(h) \/ FinishHand(h) \/ Timeout(h) \/ Unload(h)
                        \/ Settled(h) \/ SettleFails(h)

Vote == \/ \E v \in Votes : RecordVote(v)
        \/ \E t \in Tasks : CallRedeem(t) \/ Redeem(t)

Territory ==
    \/ \E t \in Tasks : \/ Claim(t) \/ Invalidate(t)
                        \/ \E u \in Users, c \in Channels : CallClaim(t, u, c)
    \/ \E c \in Channels : \/ Lookup(c) \/ ReadClaim(c) \/ EndLookup(c) \/ Forget(c)
                           \/ \E f \in Factions : Unclaim(f, c)

Membership ==
    \/ \E u \in Users : Leave(u) \/ \E f \in Factions : Create(u, f) \/ Join(u, f)
    \/ \E t \in Tasks : \/ Disband(t) \/ AcceptAnnex(t) \/ Annex(t) \/ GiveUp(t)
                        \/ \E u \in Users : \/ CallDisband(t, u)
                                            \/ \E f \in Factions : CallAnnex(t, u, f)

Next == Money \/ Hand \/ Vote \/ Territory \/ Membership \/ Crash

Spec == Init /\ [][Next]_vars

------------------------------------------------------------------------------
(* What the treasury promises. *)

\* No faction owes money: every command looked at a balance before it waited, and
\* others may have spent it since.
NeverOverdrawn == \A f \in Factions : balance[f] >= 0

\* A wager is held by one row until it is settled, once: by the button, the timeout,
\* the end of the cog or the refund of a stale hand, whichever come first, are
\* repeated after an error, or meet the next hand of the member. Only the end of
\* the faction ends a hand otherwise.
HandsSettleOnce ==
    \A h \in Hands :
        LET held == \E u \in Users : game[u] # None /\ game[u].hand = h IN
        /\ paid[h] <= 1
        /\ held => paid[h] = 0
        /\ view[h].at # "none" /\ Alive(view[h].faction) => held \/ paid[h] = 1

\* A vote is used up once, however often it is delivered and the reward is asked for,
\* and what Top.gg was told is stored is stored. Used up is not always paid: the reward
\* of a faction that is gone when the vote is redeemed is lost (Redeem).
VotesCountOnce ==
    /\ acked \subseteq receipts
    /\ \A v \in Votes : redeemed[v] + (IF v \in votes THEN 1 ELSE 0)
                            = IF v \in receipts THEN 1 ELSE 0

\* A channel is not remembered as unclaimed once the command that claimed it has
\* ended, though lookups and claims overlap, unless the answer to its commit was
\* lost: "A successful claim/migration may commit while this read yields."
NoClaimHidden ==
    \A c \in unclaimed \ doubt :
        claim[c] # None => \E t \in Tasks : task[t].at = "invalidate" /\ task[t].channel = c
=============================================================================
