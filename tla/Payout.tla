----------------------------------- MODULE Payout -----------------------------------
(***************************************************************************)
(* Creator cash-out (src/src/creator/creator-payout.service.ts): coins are *)
(* debited, Stripe is asked for a transfer, the transfer's id is recorded  *)
(* on the debit row; when the transfer or the recording throws, the debit  *)
(* is compensated by a second ledger row.                                  *)
(*                                                                         *)
(* The saga is not one transaction.  It is suspended at every await, the   *)
(* same idempotency key may be presented again at any time, even while the *)
(* first request is still in flight, and the process may die in between.   *)
(***************************************************************************)
EXTENDS CoinWallet

CONSTANTS
  Workers,          \* requests the server handles concurrently
  PayoutKeys,       \* idempotency keys clients choose
  Asks,             \* what clients ask: [user, key, coins]
  Earnings,         \* ids of the unlocks that earn creators coins
  EarnAmount,       \* what such an unlock earns
  Num, Den,         \* COIN_PAYOUT_USD_CENTS_NUMERATOR and _DENOMINATOR
  MinCoins, MinUsd, \* CREATOR_PAYOUT_MIN_COINS_MINOR and _MIN_USD_CENTS
  Faults            \* what may go wrong, besides Stripe refusing a transfer

DebitKey(u, k) == <<"payout:debit", u, k>>
RollbackKey(u, k) == <<"payout:rollback", u, k>>
EarnKey(u, x) == <<"unlock:earn", u, x>>

ASSUME PayoutAssumption ==
  /\ Asks \subseteq [user: Users, key: PayoutKeys, coins: Nat \ {0}]
  /\ EarnAmount \in Nat \ {0}
  /\ Num \in Nat \ {0} /\ Den \in Nat \ {0} /\ MinCoins \in Nat \ {0} /\ MinUsd \in Nat \ {0}
  /\ Faults \subseteq {"response lost", "record fails", "rollback fails", "crash"}
  /\ \A u \in Users :
       /\ \A k \in PayoutKeys : DebitKey(u, k) \in Keys /\ RollbackKey(u, k) \in Keys
       /\ \A x \in Earnings : EarnKey(u, x) \in Keys

VARIABLES
  payable,    \* users with a connected account that Stripe pays out to
  recorded,   \* debit rows (user, key) whose metadata holds a stripeTransferId
  transfers,  \* what Stripe has paid out
  answers,    \* what clients have been told
  asked,      \* history: the requests clients have made so far
  pc, req, view,
  found       \* workers whose look-up found the debit row

callVars == <<pc, req, view, found>>
vars == <<walletVars, payable, recorded, transfers, answers, asked, callVars>>

NoReq == [kind |-> "none"]
NoView == [balance |-> [u \in Users |-> 0], ledger |-> [u \in Users |-> <<>>]]
PCs == {"idle", "findDebit", "findRollback", "debit", "debitCommit", "transfer",
        "record", "rollback", "rollbackCommit"}
Says == {"ok", "reversed", "refused", "failed"}

TypeOK ==
  /\ WalletTypeOK
  /\ payable \subseteq Users
  /\ recorded \subseteq Users \X PayoutKeys
  /\ transfers \subseteq [user: Users, key: PayoutKeys, coins: Nat, usd: Nat]
  /\ answers \subseteq [user: Users, key: PayoutKeys, says: Says]
  /\ asked \subseteq Asks
  /\ pc \in [Workers -> PCs]
  /\ req \in [Workers -> Asks \cup {NoReq}]
  /\ view \in [Workers -> [balance: [Users -> 0..MaxInt], ledger: [Users -> Seq(Rows)]]]
  /\ found \subseteq Workers

Init ==
  /\ WalletInit
  /\ payable = {} /\ recorded = {} /\ transfers = {} /\ answers = {} /\ asked = {}
  /\ pc = [c \in Workers |-> "idle"]
  /\ req = [c \in Workers |-> NoReq]
  /\ view = [c \in Workers |-> NoView]
  /\ found = {}

\* coinsMinorToUsdCents.
Usd(coins) == (coins * Num) \div Den

Debited(u, k) == KeyUsed(ledger, DebitKey(u, k))
Refunded(u, k) == KeyUsed(ledger, RollbackKey(u, k))
Paid(u, k) == \E t \in transfers : t.user = u /\ t.key = k

---------------------------------------------------------------------------
(* The world around the payouts.                                           *)

\* An unlock commits the creator's share (CommitUnlock of Coins).
Earn(u, x) ==
  LET move == [v \in {u} |-> [type |-> "CREATOR_EARN", amount |-> EarnAmount,
                              key |-> EarnKey(u, x)]]
      now == [balance |-> balance, ledger |-> ledger]
  IN /\ Fresh(now, move) = {u}
     /\ ApplyMoves(now, move)
     /\ UNCHANGED <<asked, payable, recorded, transfers, answers, callVars>>

\* syncAccountFromStripe: an account.updated event turns payouts on or off.
SyncAccount(u) ==
  /\ payable' = IF u \in payable THEN payable \ {u} ELSE payable \cup {u}
  /\ UNCHANGED <<asked, walletVars, recorded, transfers, answers, callVars>>

---------------------------------------------------------------------------
(* requestPayout, await by await.                                          *)

Goto(c, label) == pc' = [pc EXCEPT ![c] = label]

Leave(c) ==
  /\ pc' = [pc EXCEPT ![c] = "idle"]
  /\ req' = [req EXCEPT ![c] = NoReq]
  /\ view' = [view EXCEPT ![c] = NoView]
  /\ found' = found \ {c}

Answer(c, says) ==
  /\ answers' = answers \cup {[user |-> req[c].user, key |-> req[c].key, says |-> says]}
  /\ Leave(c)

\* The minimums hold and the user's account can be paid.  Nothing makes a client
\* repeat a key with the amount it came with first.
RequestPayout(c, a) ==
  /\ pc[c] = "idle"
  /\ a.coins >= MinCoins /\ a.user \in payable /\ Usd(a.coins) >= MinUsd
  /\ Goto(c, "findDebit")
  /\ req' = [req EXCEPT ![c] = a]
  /\ asked' = asked \cup {a}
  /\ UNCHANGED <<walletVars, payable, recorded, transfers, answers, view, found>>

\* The debit row of this key, if it names its transfer, is the answer.
FindDebitDone(c) ==
  /\ pc[c] = "findDebit"
  /\ <<req[c].user, req[c].key>> \in recorded
  /\ Answer(c, "ok")
  /\ UNCHANGED <<asked, walletVars, payable, recorded, transfers>>

\* A debit row without a transfer is remembered, and not made again, whatever
\* amount it has: coinsMinor of the request at hand is transferred and refunded.
FindDebit(c) ==
  /\ pc[c] = "findDebit"
  /\ <<req[c].user, req[c].key>> \notin recorded
  /\ found' = IF Debited(req[c].user, req[c].key) THEN found \cup {c} ELSE found
  /\ Goto(c, "findRollback")
  /\ UNCHANGED <<asked, walletVars, payable, recorded, transfers, answers, req, view>>

\* Mutant: a debit without a transfer is taken for a request in progress.
FindRollbackInProgress(c) ==
  LET r == req[c] IN
  /\ pc[c] = "findRollback"
  /\ IF Refunded(r.user, r.key)
     THEN Answer(c, "reversed")
     ELSE IF c \in found
          THEN Answer(c, "refused")
          ELSE Goto(c, "debit") /\ UNCHANGED <<answers, req, view, found>>
  /\ UNCHANGED <<asked, walletVars, payable, recorded, transfers>>

\* Mutant: the debit is left to be made after the transfer.
FindRollbackPaysFirst(c) ==
  LET r == req[c] IN
  /\ pc[c] = "findRollback"
  /\ IF Refunded(r.user, r.key)
     THEN Answer(c, "reversed")
     ELSE Goto(c, "transfer") /\ UNCHANGED <<answers, req, view, found>>
  /\ UNCHANGED <<asked, walletVars, payable, recorded, transfers>>

\* A reversed attempt is refused.  Otherwise the debit the request found (not
\* the one there may be by now) decides whether it debits.
FindRollback(c) ==
  LET r == req[c] IN
  /\ pc[c] = "findRollback"
  /\ IF Refunded(r.user, r.key)
     THEN Answer(c, "reversed")
     ELSE /\ Goto(c, IF c \in found THEN "transfer" ELSE "debit")
          /\ UNCHANGED <<answers, req, view, found>>
  /\ UNCHANGED <<asked, walletVars, payable, recorded, transfers>>

\* The snapshot of the debit's transaction, or of the rollback's.
BeginTx(c) ==
  /\ pc[c] \in {"debit", "rollback"}
  /\ Goto(c, IF pc[c] = "debit" THEN "debitCommit" ELSE "rollbackCommit")
  /\ view' = [view EXCEPT ![c] = [balance |-> balance, ledger |-> ledger]]
  /\ UNCHANGED <<asked, walletVars, payable, recorded, transfers, answers, req, found>>

Debit(r) == [u \in {r.user} |-> [type |-> "PAYOUT", amount |-> -r.coins,
                                 key |-> DebitKey(u, r.key)]]

\* Mutant: the refund is the transfer's amount, in cents.
RollbackInCents(r) ==
  [u \in {r.user} |-> [type |-> "ADJUSTMENT", amount |-> Usd(r.coins),
                       key |-> RollbackKey(u, r.key)]]

Rollback(r) == [u \in {r.user} |-> [type |-> "ADJUSTMENT", amount |-> r.coins,
                                    key |-> RollbackKey(u, r.key)]]

\* The debit commits; when another request with this key has made it before
\* the snapshot, nothing changes, and this request goes on as if it had.
CommitDebit(c) ==
  /\ pc[c] = "debitCommit"
  /\ ApplyMoves(view[c], Debit(req[c]))
  /\ Goto(c, "transfer")
  /\ view' = [view EXCEPT ![c] = NoView]
  /\ UNCHANGED <<asked, payable, recorded, transfers, answers, req, found>>

\* The debit throws (insufficient balance, a conflict, the database): outside
\* the try, so nothing is compensated.
AbortDebit(c) ==
  /\ pc[c] = "debitCommit"
  /\ Answer(c, "refused")
  /\ UNCHANGED <<asked, walletVars, payable, recorded, transfers>>

\* Stripe pays: once for an idempotency key, and only with the same parameters.
StripePays(r) ==
  LET t == [user |-> r.user, key |-> r.key, coins |-> r.coins, usd |-> Usd(r.coins)] IN
  /\ \A s \in transfers : s.user = r.user /\ s.key = r.key => s = t
  /\ transfers' = transfers \cup {t}

\* Mutant: the call is not awaited.
TransferNotAwaited(c) ==
  /\ pc[c] = "transfer"
  /\ Goto(c, "record")
  /\ UNCHANGED <<asked, walletVars, payable, recorded, transfers, answers, req, view, found>>

Transfer(c) ==
  /\ pc[c] = "transfer"
  /\ StripePays(req[c])
  /\ Goto(c, "record")
  /\ UNCHANGED <<asked, walletVars, payable, recorded, answers, req, view, found>>

\* transfers.create throws: Stripe refused or was not reached, or it has paid
\* and the response was lost.
TransferThrows(c) ==
  /\ pc[c] = "transfer"
  /\ \/ UNCHANGED transfers
     \/ "response lost" \in Faults /\ StripePays(req[c])
  /\ Goto(c, "rollback")
  /\ UNCHANGED <<asked, walletVars, payable, recorded, answers, req, view, found>>

\* The transfer's id is recorded on the debit row; the client is answered.
Record(c) ==
  /\ pc[c] = "record"
  /\ recorded' = recorded \cup {<<req[c].user, req[c].key>>}
  /\ Answer(c, "ok")
  /\ UNCHANGED <<asked, walletVars, payable, transfers>>

\* The recording throws: the same catch block takes it for a failed transfer.
RecordThrows(c) ==
  /\ pc[c] = "record"
  /\ "record fails" \in Faults
  /\ Goto(c, "rollback")
  /\ UNCHANGED <<asked, walletVars, payable, recorded, transfers, answers, req, view, found>>

\* The compensation commits, once for a key.
CommitRollback(c) ==
  /\ pc[c] = "rollbackCommit"
  /\ ApplyMoves(view[c], Rollback(req[c]))
  /\ Answer(c, "failed")
  /\ UNCHANGED <<asked, payable, recorded, transfers>>

\* The compensation throws: it is logged, and the client gets the same answer.
\* A conflict with another transaction needs no fault.
AbortRollback(c) ==
  /\ pc[c] = "rollbackCommit"
  /\ \/ "rollback fails" \in Faults
     \/ Refused(view[c], Rollback(req[c]))
     \/ Conflicts(view[c], Rollback(req[c]))
  /\ Answer(c, "failed")
  /\ UNCHANGED <<asked, walletVars, payable, recorded, transfers>>

\* The process restarts while the request is in flight: no answer, and an
\* open transaction is rolled back.
Crash(c) ==
  /\ "crash" \in Faults /\ pc[c] # "idle"
  /\ Leave(c)
  /\ UNCHANGED <<asked, walletVars, payable, recorded, transfers, answers>>

Step(c) ==
  \/ FindDebitDone(c) \/ FindDebit(c) \/ FindRollback(c)
  \/ BeginTx(c) \/ CommitDebit(c) \/ AbortDebit(c)
  \/ Transfer(c) \/ TransferThrows(c) \/ Record(c) \/ RecordThrows(c)
  \/ CommitRollback(c) \/ AbortRollback(c)

Next ==
  \/ \E u \in Users : SyncAccount(u) \/ \E x \in Earnings : Earn(u, x)
  \/ \E c \in Workers : Step(c) \/ Crash(c) \/ \E a \in Asks : RequestPayout(c, a)

Spec == Init /\ [][Next]_vars

\* A client repeats its request until it is told what became of it.
Told(a, says) == [user |-> a.user, key |-> a.key, says |-> says] \in answers
Retry(a) == ~Told(a, "ok") /\ ~Told(a, "reversed") /\ \E c \in Workers : RequestPayout(c, a)

\* A worker does not stop at an await for ever (WF); the attempts of one client
\* are not all cut short at the same await, and a recording or a compensation
\* that is tried for ever succeeds once (SF).
FairSpec ==
  /\ Spec
  /\ \A c \in Workers : WF_vars(Step(c))
  /\ \A a \in Asks :
       /\ SF_vars(Retry(a))
       /\ SF_vars(\E c \in Workers : req[c] = a /\ (FindDebit(c) \/ FindDebitDone(c)))
       /\ SF_vars(\E c \in Workers : req[c] = a /\ FindRollback(c))
       /\ SF_vars(\E c \in Workers : req[c] = a /\ BeginTx(c))
       /\ SF_vars(\E c \in Workers : req[c] = a /\ (Transfer(c) \/ TransferThrows(c)))
       /\ SF_vars(\E c \in Workers : req[c] = a /\ Record(c))
       /\ SF_vars(\E c \in Workers : req[c] = a /\ CommitRollback(c))

---------------------------------------------------------------------------
(* Properties.                                                             *)

\* The client has used this key for one amount only, so far.
OneAmount(u, k) ==
  \A a, b \in asked : a.user = u /\ b.user = u /\ a.key = k /\ b.key = k => a.coins = b.coins

\* Stripe pays once for a key, never more than the coins named are worth, and
\* only after the key's debit has left the wallet: concurrent requests, retries
\* and restarts included.  The debit has the amount paid for unless the client
\* has used the key for two amounts.
TransferBacked ==
  \A t \in transfers :
    /\ \A s \in transfers : s.user = t.user /\ s.key = t.key => s = t
    /\ t.usd * Den <= t.coins * Num
    /\ \E i \in 1..Len(ledger[t.user]) :
         /\ ledger[t.user][i].key = DebitKey(t.user, t.key)
         /\ OneAmount(t.user, t.key) => ledger[t.user][i].amount = -t.coins

\* A refund follows the debit of its key, and has its amount unless the client
\* has used the key for two amounts: no sequence of failures and retries of one
\* cash-out creates coins out of nothing.
RefundMatchesDebit ==
  \A u \in Users, k \in PayoutKeys : \A j \in 1..Len(ledger[u]) :
    ledger[u][j].key = RollbackKey(u, k) =>
      \E i \in 1..(j - 1) :
        /\ ledger[u][i].key = DebitKey(u, k)
        /\ OneAmount(u, k) => ledger[u][i].amount = -ledger[u][j].amount

\* Definite answers are true, and stay true: "ok" and a recorded transfer id
\* mean that Stripe has paid, "reversed" that the coins are back.
AnswersTrue ==
  /\ \A rk \in recorded : Paid(rk[1], rk[2])
  /\ \A a \in answers :
       /\ a.says = "ok" => Paid(a.user, a.key) /\ <<a.user, a.key>> \in recorded
       /\ a.says = "reversed" => Refunded(a.user, a.key)

\* Once the coins of a cash-out have left the wallet its client learns what
\* became of them by repeating the request: the attempt ends in a recorded
\* transfer or in a refund, whatever crashed, failed or was lost on the way.
DebitsSettle ==
  \A a \in Asks :
    []<>(a.user \in payable) =>
      (Debited(a.user, a.key) ~> (Told(a, "ok") \/ Told(a, "reversed")))

\* "Transfer to your connected account could not be completed; your coin
\* balance was restored if it had been debited" (creator-payout.service.ts:237):
\* whoever is told so has not been paid.
FailedMeansNotPaid ==
  \A a \in answers : a.says = "failed" => ~Paid(a.user, a.key)

\* "your coin balance was restored if it had been debited" (the same line): the
\* refund of a cash-out gives back what its debit took, no more and no less.
RestoredAsDebited ==
  \A u \in Users, k \in PayoutKeys : \A i, j \in 1..Len(ledger[u]) :
    ledger[u][i].key = DebitKey(u, k) /\ ledger[u][j].key = RollbackKey(u, k) =>
      ledger[u][j].amount = -ledger[u][i].amount
=============================================================================
