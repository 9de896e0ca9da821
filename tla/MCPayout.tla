---------------------------------- MODULE MCPayout ----------------------------------
(* Small instances of Payout for TLC. *)
EXTENDS Payout, TLC

CONSTANTS alice, k1, k2, e1

MCKeys == {DebitKey(u, k) : u \in Users, k \in PayoutKeys}
          \cup {RollbackKey(u, k) : u \in Users, k \in PayoutKeys}
          \cup {EarnKey(u, x) : u \in Users, x \in Earnings}

\* One cash-out; one key for two amounts; and another key that competes for the
\* same coins.
OneAsk == {[user |-> alice, key |-> k1, coins |-> 3]}
TwoAmounts == OneAsk \cup {[user |-> alice, key |-> k1, coins |-> 5]}
ThreeAsks == TwoAmounts \cup {[user |-> alice, key |-> k2, coins |-> 5]}

Symmetry == Permutations(Workers)
=============================================================================
