------------------------------- MODULE Ledger -------------------------------
(***************************************************************************)
(* What GlobalXP promises to the leaderboard, without batches, receipts or *)
(* checkpoints: an account that grows by at most one for every message     *)
(* never counted before, and that a penalty may take back, never below 0.  *)
(***************************************************************************)
EXTENDS Naturals, FiniteSets

CONSTANTS Users, Messages

VARIABLES counted, balance

vars == <<counted, balance>>

Init ==
    /\ counted = [u \in Users |-> {}]
    /\ balance = [u \in Users |-> 0]

New(u) == counted'[u] \ counted[u]

Settle ==
    /\ counted' \in [Users -> SUBSET Messages]
    /\ \A u \in Users : counted[u] \subseteq counted'[u]
    /\ DOMAIN balance' = Users
    /\ \A u \in Users : balance'[u] \in 0..(balance[u] + Cardinality(New(u)))

Spec == Init /\ [][Settle]_vars
=============================================================================
