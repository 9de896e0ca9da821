------------------------------- MODULE CoinWallet -------------------------------
(***************************************************************************)
(* Coin wallets and their ledger (src/src/coins/coin-wallet.service.ts).   *)
(*                                                                         *)
(* A wallet is a balance and the sequence of its ledger rows in commit     *)
(* order.  Every change of a balance is a "move" made by applyDeltaTx      *)
(* inside a SERIALIZABLE transaction opened by runWalletTransaction.       *)
(*                                                                         *)
(* An interactive transaction is two steps of the model: it takes its      *)
(* snapshot (Snapshot) with its first query, reads everything from that    *)
(* snapshot, and commits later or not at all.  In between other requests   *)
(* commit.  The database refuses the commit when a row the transaction     *)
(* wrote was changed after the snapshot (serialization failure, P2034) or  *)
(* when a unique index is hit (P2002); nothing of the transaction stays.   *)
(***************************************************************************)
EXTENDS Integers, Sequences, FiniteSets

CONSTANTS
  Users,      \* the accounts; a wallet row is created with balance 0 on first use
  Keys,       \* the idempotency keys callers can build
  MaxInt      \* the largest value of the balanceMinor column

ASSUME WalletAssumption == MaxInt \in Nat

VARIABLES
  balance,    \* [Users -> 0..MaxInt], CoinWallet.balanceMinor
  ledger      \* [Users -> Seq(Rows)], the CoinLedgerEntry rows of each wallet

walletVars == <<balance, ledger>>

TxnTypes == {"PURCHASE_STRIPE", "PURCHASE_APPLE", "PURCHASE_GOOGLE",
             "SPEND_UNLOCK", "CREATOR_EARN", "ADJUSTMENT", "PAYOUT"}

Rows == [type: TxnTypes, amount: Int, balanceAfter: 0..MaxInt, key: Keys]

WalletTypeOK ==
  /\ balance \in [Users -> 0..MaxInt]
  /\ ledger \in [Users -> Seq(Rows)]

WalletInit ==
  /\ balance = [u \in Users |-> 0]
  /\ ledger = [u \in Users |-> <<>>]

---------------------------------------------------------------------------
(* What one transaction does.  "moves" maps each wallet the transaction    *)
(* touches to the move it makes there: [type, amount, key].                *)

\* findUnique on the idempotencyKey index of ledger lg.
KeyUsed(lg, k) == \E u \in DOMAIN lg : \E i \in 1..Len(lg[u]) : lg[u][i].key = k

\* The wallets whose move is not a duplicate of a row already in the snapshot.
Fresh(view, moves) == {u \in DOMAIN moves : ~KeyUsed(view.ledger, moves[u].key)}

\* Balance after the move, computed in the process from the balance it read.
NextBalance(view, moves, u) == view.balance[u] + moves[u].amount

\* Mutant: no check of the balance before it is written.
RefusedOnOverflow(view, moves) ==
  \E u \in Fresh(view, moves) : NextBalance(view, moves, u) > MaxInt

\* The move throws: insufficient balance, or the column cannot hold the result.
Refused(view, moves) ==
  \E u \in Fresh(view, moves) : NextBalance(view, moves, u) \notin 0..MaxInt

\* Mutant: READ COMMITTED, and no unique index on the key.
ReadCommitted(view, moves) == FALSE

\* The database aborts the transaction at commit.  A wallet that another
\* transaction changed after the snapshot has a longer ledger now.
Conflicts(view, moves) ==
  \E u \in Fresh(view, moves) :
    \/ ledger[u] # view.ledger[u]
    \/ KeyUsed(ledger, moves[u].key)

\* Mutant: the row records the balance read before the update.
RowOfStale(view, moves, u) ==
  [type |-> moves[u].type, amount |-> moves[u].amount,
   balanceAfter |-> view.balance[u], key |-> moves[u].key]

\* The ledger row a move leaves behind.
RowOf(view, moves, u) ==
  [type |-> moves[u].type, amount |-> moves[u].amount,
   balanceAfter |-> NextBalance(view, moves, u), key |-> moves[u].key]

\* The committed transaction: every fresh move, and nothing else.
ApplyMoves(view, moves) ==
  /\ ~Refused(view, moves)
  /\ ~Conflicts(view, moves)
  /\ balance' = [u \in Users |->
                   IF u \in Fresh(view, moves) THEN NextBalance(view, moves, u)
                   ELSE balance[u]]
  /\ ledger' = [u \in Users |->
                  IF u \in Fresh(view, moves)
                  THEN Append(ledger[u], RowOf(view, moves, u))
                  ELSE ledger[u]]

---------------------------------------------------------------------------
(* The books of the wallets.                                               *)

\* The balance a ledger ends with.
Closing(rows) == IF rows = <<>> THEN 0 ELSE rows[Len(rows)].balanceAfter

\* Row i of a ledger starts from where row i-1 ended.
Opening(rows, i) == IF i = 1 THEN 0 ELSE rows[i - 1].balanceAfter

\* The audit trail of every wallet is unbroken: each row starts from the
\* balance the previous one left, and the wallet's balance is where the last
\* row ended.  A lost update between two concurrent transactions breaks it.
LedgerChain ==
  \A u \in Users :
    /\ balance[u] = Closing(ledger[u])
    /\ \A i \in 1..Len(ledger[u]) :
         ledger[u][i].balanceAfter = Opening(ledger[u], i) + ledger[u][i].amount

\* "Idempotent: duplicate idempotencyKey returns without changing balance"
\* (coin-wallet.service.ts:19): no key has moved coins twice, in any wallet.
KeysMoveOnce ==
  \A u, v \in Users : \A i \in 1..Len(ledger[u]), j \in 1..Len(ledger[v]) :
    ledger[u][i].key = ledger[v][j].key => u = v /\ i = j
=============================================================================
