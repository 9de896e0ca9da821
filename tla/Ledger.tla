--------------------------------- MODULE Ledger ---------------------------------
(***************************************************************************)
(* What the wallets promise their callers, free of transactions, snapshots *)
(* and retries: a journal to which one step at a time adds at most one row *)
(* per wallet.  A row carries a key the journal has never seen, starts     *)
(* from the wallet's current balance and leaves it between 0 and MaxInt.   *)
(* Rows are never changed or removed.                                      *)
(***************************************************************************)
EXTENDS Integers, Sequences

CONSTANTS Users, MaxInt

VARIABLES balance, ledger

Init ==
  /\ balance = [u \in Users |-> 0]
  /\ ledger = [u \in Users |-> <<>>]

\* No row of any wallet has key k yet.
Unseen(k) == \A u \in Users : \A i \in 1..Len(ledger[u]) : ledger[u][i].key # k

\* Wallet u gains exactly the row r, booked on its current balance.
Books(u, r) ==
  /\ ledger'[u] = Append(ledger[u], r)
  /\ Unseen(r.key)
  /\ r.balanceAfter = balance[u] + r.amount
  /\ r.balanceAfter \in 0..MaxInt
  /\ balance'[u] = r.balanceAfter

Keeps(u) == ledger'[u] = ledger[u] /\ balance'[u] = balance[u]

LastRow(u) == ledger'[u][Len(ledger'[u])]

\* One atomic posting: some wallets each book their new last row, under
\* keys that differ.
Post ==
  /\ DOMAIN ledger' = Users /\ DOMAIN balance' = Users
  /\ \A u \in Users : Keeps(u) \/ (ledger'[u] # <<>> /\ Books(u, LastRow(u)))
  /\ \A u, v \in Users :
       u # v /\ ~Keeps(u) /\ ~Keeps(v) => LastRow(u).key # LastRow(v).key

Spec == Init /\ [][Post]_<<balance, ledger>>
=============================================================================
