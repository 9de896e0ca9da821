------------------------------- MODULE PayoutProofs -------------------------------
(***************************************************************************)
(* Theorems about Payout for every set of users, keys, requests and        *)
(* faults, and any conversion rate.  A request that is past its debit      *)
(* relies on a row some transaction, perhaps not its own, left in the      *)
(* ledger; the inductive invariant says that the row is there and fits.    *)
(***************************************************************************)
EXTENDS Payout, CoinWalletProofs

Ask(u, k, n) == [user |-> u, key |-> k, coins |-> n]

\* A row of payout (u, k) at position i of the ledger of v.
DebitFits(v, i, u, k) ==
  ledger[v][i].key = DebitKey(u, k) => v = u /\ Ask(u, k, -ledger[v][i].amount) \in asked
RefundFits(v, i, u, k) ==
  ledger[v][i].key = RollbackKey(u, k) =>
    /\ v = u /\ Ask(u, k, ledger[v][i].amount) \in asked
    /\ \E j \in 1..(i - 1) : ledger[u][j].key = DebitKey(u, k)

RowsOK ==
  \A v \in Users : \A i \in 1..Len(ledger[v]) : \A u \in Users, k \in PayoutKeys :
    DebitFits(v, i, u, k) /\ RefundFits(v, i, u, k)

TransfersOK ==
  \A t \in transfers : /\ Ask(t.user, t.key, t.coins) \in asked
                       /\ \A s \in transfers : s.user = t.user /\ s.key = t.key => s = t
                       /\ t.usd = Usd(t.coins)
                       /\ Debited(t.user, t.key)

PastDebit == {"transfer", "record", "rollback", "rollbackCommit"}

CallOK(c) ==
  /\ SnapshotOK(view[c])
  /\ pc[c] # "idle" => req[c] \in Asks \cap asked
  /\ pc[c] = "debitCommit" /\ KeyUsed(view[c].ledger, DebitKey(req[c].user, req[c].key))
       => Debited(req[c].user, req[c].key)
  /\ pc[c] \in PastDebit => Debited(req[c].user, req[c].key)
  /\ c \in found => pc[c] # "idle" /\ Debited(req[c].user, req[c].key)
  /\ pc[c] = "record" => Paid(req[c].user, req[c].key)

CallsOK == \A c \in Workers : CallOK(c)

IInv == TypeOK /\ WalletInv /\ RowsOK /\ TransfersOK /\ AnswersTrue /\ CallsOK

---------------------------------------------------------------------------
(* The pure parts.                                                         *)

\* A key used for one amount: a debit and another movement of it agree.
LEMMA SameAmount ==
  ASSUME NEW u, NEW k, OneAmount(u, k), NEW d \in Int, NEW n \in Int,
         Ask(u, k, -d) \in asked, Ask(u, k, n) \in asked
  PROVE  d = -n
<1>1. -d = n
  BY DEF OneAmount, Ask
<1> QED BY <1>1

\* Whole division rounds down.
LEMMA DivBounds ==
  ASSUME NEW x \in Nat, NEW d \in Nat \ {0}
  PROVE  x \div d \in Nat /\ (x \div d) * d <= x
OBVIOUS

\* Cents are whole, and never worth more than the coins.
LEMMA UsdBounds ==
  ASSUME NEW n \in Nat
  PROVE  Usd(n) \in Nat /\ Usd(n) * Den <= n * Num
<1> DEFINE x == n * Num
<1>0. Num \in Nat /\ Den \in Nat \ {0}
  BY PayoutAssumption
<1>1. x \in Nat /\ Den \in Nat \ {0}
  BY <1>0
<1>2. Usd(n) = x \div Den
  BY DEF Usd
<1> HIDE DEF x
<1>3. x \div Den \in Nat /\ (x \div Den) * Den <= x
  BY <1>1, DivBounds
<1>4. Usd(n) \in Nat /\ Usd(n) * Den <= x
  BY <1>2, <1>3
<1> QED BY <1>4 DEF x

\* A request names a user, a key and a positive amount.
LEMMA AskTypes ==
  ASSUME NEW a \in Asks
  PROVE  /\ a.user \in Users /\ a.key \in PayoutKeys /\ a.coins \in Nat \ {0}
         /\ a = Ask(a.user, a.key, a.coins)
         /\ Usd(a.coins) \in Nat
BY PayoutAssumption, UsdBounds DEF Ask

\* The keys of debits, refunds and earnings differ, and name user and key.
LEMMA KeysDiffer ==
  /\ \A u, v, k, l : DebitKey(u, k) = DebitKey(v, l) => u = v /\ k = l
  /\ \A u, v, k, l : RollbackKey(u, k) = RollbackKey(v, l) => u = v /\ k = l
  /\ \A u, v, k, l : /\ DebitKey(u, k) # RollbackKey(v, l)
                     /\ EarnKey(u, k) # DebitKey(v, l)
                     /\ EarnKey(u, k) # RollbackKey(v, l)
BY DEF DebitKey, RollbackKey, EarnKey

\* What the debit and the rollback ask of their transactions is well formed.
LEMMA PayoutMoves ==
  ASSUME NEW a \in Asks
  PROVE  MovesOK(Debit(a)) /\ MovesOK(Rollback(a))
<1>1. a.user \in Users /\ a.key \in PayoutKeys /\ a.coins \in Int /\ -a.coins \in Int
  BY AskTypes
<1>2. DebitKey(a.user, a.key) \in Keys /\ RollbackKey(a.user, a.key) \in Keys
  BY <1>1, PayoutAssumption
<1>3. MovesOK(Debit(a))
  BY <1>1, <1>2 DEF MovesOK, Debit, TxnTypes
<1>4. MovesOK(Rollback(a))
  BY <1>1, <1>2 DEF MovesOK, Rollback, TxnTypes
<1> QED BY <1>3, <1>4

\* A request outside a transaction has no snapshot, which closes its empty books.
LEMMA NoViewOK == SnapshotOK(NoView)
                  /\ NoView \in [balance: [Users -> 0..MaxInt], ledger: [Users -> Seq(Rows)]]
BY WalletAssumption DEF NoView, SnapshotOK, Closing

Now == [balance |-> balance, ledger |-> ledger]

\* The snapshot a transaction takes closes its books.
LEMMA NowOK ==
  ASSUME WalletInv
  PROVE  /\ SnapshotOK(Now)
         /\ Now \in [balance: [Users -> 0..MaxInt], ledger: [Users -> Seq(Rows)]]
<1>1. Now.balance = balance /\ Now.ledger = ledger
  BY DEF Now
<1>2. balance \in [Users -> 0..MaxInt] /\ ledger \in [Users -> Seq(Rows)]
  BY DEF WalletInv, WalletTypeOK
<1>3. \A u \in Users : balance[u] = Closing(ledger[u])
  BY DEF WalletInv, LedgerChain
<1> QED BY <1>1, <1>2, <1>3 DEF SnapshotOK, Now

---------------------------------------------------------------------------
(* What a committed transaction does to the rows.                          *)

\* No row is ever lost: a key once used stays used.
LEMMA KeysStay ==
  ASSUME NEW vw, NEW moves, SnapshotOK(vw), MovesOK(moves), WalletInv,
         ApplyMoves(vw, moves), NEW key, KeyUsed(ledger, key)
  PROVE  KeyUsed(ledger', key)
<1>1. DOMAIN ledger = Users /\ DOMAIN ledger' = Users
  BY DEF ApplyMoves, WalletInv, WalletTypeOK
<1>2. PICK u \in Users : \E i \in 1..Len(ledger[u]) : ledger[u][i].key = key
  BY <1>1 DEF KeyUsed
<1>3. Len(ledger[u]) \in Nat
  BY DEF WalletInv, WalletTypeOK
<1>4. \A i \in 1..Len(ledger[u]) : i \in 1..Len(ledger'[u]) /\ ledger'[u][i] = ledger[u][i]
  BY <1>3, LedgerStep
<1> QED BY <1>1, <1>2, <1>4 DEF KeyUsed

\* After the commit every key of the transaction is used.
LEMMA KeysMade ==
  ASSUME NEW vw, NEW moves, SnapshotOK(vw), MovesOK(moves), WalletInv,
         ApplyMoves(vw, moves), NEW u \in DOMAIN moves,
         KeyUsed(vw.ledger, moves[u].key) => KeyUsed(ledger, moves[u].key)
  PROVE  KeyUsed(ledger', moves[u].key)
<1>1. CASE u \in Fresh(vw, moves)
  <2>1. u \in Users /\ DOMAIN ledger' = Users /\ Len(ledger[u]) \in Nat
    BY DEF MovesOK, ApplyMoves, WalletInv, WalletTypeOK
  <2>2. /\ Len(ledger'[u]) = Len(ledger[u]) + 1
        /\ ledger'[u][Len(ledger[u]) + 1] = RowOf(vw, moves, u)
    BY <1>1, <2>1, LedgerStep
  <2>3. RowOf(vw, moves, u).key = moves[u].key
    BY DEF RowOf
  <2> QED BY <2>1, <2>2, <2>3 DEF KeyUsed
<1>2. CASE u \notin Fresh(vw, moves)
  BY <1>2, KeysStay DEF Fresh
<1> QED BY <1>1, <1>2

\* The move of wallet v fits the rows that are there.
MoveFits(v, m) ==
  \A u \in Users, k \in PayoutKeys :
    /\ m.key = DebitKey(u, k) => v = u /\ Ask(u, k, -m.amount) \in asked
    /\ m.key = RollbackKey(u, k) =>
         /\ v = u /\ Ask(u, k, m.amount) \in asked
         /\ \E j \in 1..Len(ledger[u]) : ledger[u][j].key = DebitKey(u, k)

\* Moves that fit leave only rows that fit.
LEMMA RowsStayOK ==
  ASSUME NEW vw, NEW moves, SnapshotOK(vw), MovesOK(moves), WalletInv,
         ApplyMoves(vw, moves), UNCHANGED asked, RowsOK, \A v \in DOMAIN moves : MoveFits(v, moves[v])
  PROVE  RowsOK'
<1> SUFFICES ASSUME NEW v \in Users, NEW i \in 1..Len(ledger'[v]),
                    NEW u \in Users, NEW k \in PayoutKeys
             PROVE  DebitFits(v, i, u, k)' /\ RefundFits(v, i, u, k)'
  BY DEF RowsOK
<1>1. Len(ledger[v]) \in Nat
  BY DEF WalletInv, WalletTypeOK
<1>2. CASE i \in 1..Len(ledger[v])
  <2>1. \A j \in 1..Len(ledger[v]) : ledger'[v][j] = ledger[v][j]
    BY <1>1, LedgerStep
  <2>2. DebitFits(v, i, u, k) /\ RefundFits(v, i, u, k)
    BY <1>2 DEF RowsOK
  <2>3. \A j \in 1..(i - 1) : j \in 1..Len(ledger[v])
    BY <1>1, <1>2
  <2> QED BY <1>2, <2>1, <2>2, <2>3 DEF DebitFits, RefundFits
<1>3. CASE i \notin 1..Len(ledger[v])
  <2>1. /\ v \in Fresh(vw, moves) /\ i = Len(ledger[v]) + 1
        /\ \A j \in 1..Len(ledger[v]) : ledger'[v][j] = ledger[v][j]
        /\ ledger'[v][i] = RowOf(vw, moves, v)
    BY <1>1, <1>3, LedgerStep
  <2>2. v \in DOMAIN moves /\ MoveFits(v, moves[v])
    BY <2>1 DEF Fresh
  <2>3. RowOf(vw, moves, v).key = moves[v].key /\ RowOf(vw, moves, v).amount = moves[v].amount
    BY DEF RowOf
  <2>4. \A j \in 1..Len(ledger[v]) : j \in 1..(i - 1)
    BY <1>1, <2>1
  <2> QED BY <2>1, <2>2, <2>3, <2>4 DEF MoveFits, DebitFits, RefundFits
<1> QED BY <1>2, <1>3
---------------------------------------------------------------------------
(* One step keeps the invariant.                                           *)

Views == [balance: [Users -> 0..MaxInt], ledger: [Users -> Seq(Rows)]]

\* TypeOK without the wallets.
PayoutType ==
  /\ payable \subseteq Users
  /\ recorded \subseteq Users \X PayoutKeys
  /\ transfers \subseteq [user: Users, key: PayoutKeys, coins: Nat, usd: Nat]
  /\ answers \subseteq [user: Users, key: PayoutKeys, says: Says]
  /\ asked \subseteq Asks
  /\ pc \in [Workers -> PCs]
  /\ req \in [Workers -> Asks \cup {NoReq}]
  /\ view \in [Workers -> Views]
  /\ found \subseteq Workers

\* The types, of the wallets and of the rest.
LEMMA TypeParts ==
  /\ TypeOK <=> WalletTypeOK /\ PayoutType
  /\ WalletInv => WalletTypeOK
BY DEF TypeOK, PayoutType, Views, WalletInv

\* What a request relies on is never taken back.
Grows ==
  /\ asked \subseteq asked'
  /\ \A u \in Users, k \in PayoutKeys :
       /\ Debited(u, k) => Debited(u, k)'
       /\ Refunded(u, k) => Refunded(u, k)'
       /\ Paid(u, k) => Paid(u, k)'

\* A commit makes the ledger grow.
LEMMA CommitGrows ==
  ASSUME NEW vw, NEW moves, SnapshotOK(vw), MovesOK(moves), WalletInv,
         ApplyMoves(vw, moves), UNCHANGED <<asked, transfers>>
  PROVE  Grows
BY KeysStay DEF Grows, Debited, Refunded, Paid

\* Without a commit the ledgers are as they were.
LEMMA NoCommitGrows ==
  ASSUME UNCHANGED walletVars, transfers \subseteq transfers', asked \subseteq asked'
  PROVE  Grows
BY DEF walletVars, Grows, Debited, Refunded, Paid

\* What Stripe has paid stays backed.
LEMMA TransfersKept ==
  ASSUME TransfersOK, PayoutType, Grows, UNCHANGED transfers
  PROVE  TransfersOK'
BY DEF TransfersOK, PayoutType, Grows

\* Worker c moves; the others find what they rely on as it was.
LEMMA OthersOK ==
  ASSUME NEW c \in Workers, CallsOK, Grows, CallOK(c)',
         \A d \in Workers \ {c} :
           /\ pc'[d] = pc[d] /\ req'[d] = req[d] /\ view'[d] = view[d]
           /\ d \in found' => d \in found
  PROVE  CallsOK'
<1> SUFFICES ASSUME NEW d \in Workers \ {c} PROVE CallOK(d)'
  BY DEF CallsOK
<1>1. CallOK(d)
  BY DEF CallsOK
<1>2. pc[d] # "idle" => req[d].user \in Users /\ req[d].key \in PayoutKeys
  BY <1>1, AskTypes DEF CallOK
<1> QED BY <1>1, <1>2 DEF CallOK, Grows, PastDebit

\* The request of worker c is over.
LEMMA LeaveOK ==
  ASSUME NEW c \in Workers, PayoutType, CallsOK, Grows, Leave(c)
  PROVE  /\ pc' \in [Workers -> PCs] /\ req' \in [Workers -> Asks \cup {NoReq}]
         /\ view' \in [Workers -> Views] /\ found' \subseteq Workers
         /\ CallsOK'
<1>1. /\ pc' \in [Workers -> PCs] /\ req' \in [Workers -> Asks \cup {NoReq}]
      /\ view' \in [Workers -> Views] /\ found' \subseteq Workers
  BY NoViewOK DEF Leave, PayoutType, PCs, Views
<1>2. CallOK(c)'
  BY NoViewOK DEF Leave, PayoutType, CallOK, PastDebit
<1> QED BY <1>1, <1>2, OthersOK DEF Leave, PayoutType

\* An answer that is true leaves the answers true.
LEMMA AnswerOK ==
  ASSUME NEW c \in Workers, NEW says \in Says, PayoutType, CallsOK, AnswersTrue, Grows,
         Answer(c, says), recorded \subseteq recorded',
         NEW u \in Users, NEW k \in PayoutKeys, u = req[c].user, k = req[c].key,
         \A rk \in recorded' \ recorded : rk = <<u, k>> /\ Paid(u, k)',
         says = "ok" => Paid(u, k)' /\ <<u, k>> \in recorded',
         says = "reversed" => Refunded(u, k)'
  PROVE  /\ pc' \in [Workers -> PCs] /\ req' \in [Workers -> Asks \cup {NoReq}]
         /\ view' \in [Workers -> Views] /\ found' \subseteq Workers
         /\ CallsOK' /\ AnswersTrue'
         /\ answers' \subseteq [user: Users, key: PayoutKeys, says: Says]
<1>1. Leave(c) /\ answers' = answers \cup {[user |-> u, key |-> k, says |-> says]}
  BY DEF Answer
<1>3. \A rk \in recorded : rk[1] \in Users /\ rk[2] \in PayoutKeys
  BY DEF PayoutType
<1>4. \A a \in answers : a.user \in Users /\ a.key \in PayoutKeys
  BY DEF PayoutType
<1>5. AnswersTrue'
  <2>1. ASSUME NEW rk \in recorded' PROVE Paid(rk[1], rk[2])'
    BY <1>3 DEF AnswersTrue, Grows
  <2>2. ASSUME NEW a \in answers
        PROVE  /\ a.says = "ok" => Paid(a.user, a.key)' /\ <<a.user, a.key>> \in recorded'
               /\ a.says = "reversed" => Refunded(a.user, a.key)'
    BY <1>4 DEF AnswersTrue, Grows
  <2>3. \A a \in answers' \ answers : a.user = u /\ a.key = k /\ a.says = says
    BY <1>1
  <2>4. ASSUME NEW a \in answers'
        PROVE  /\ a.says = "ok" => Paid(a.user, a.key)' /\ <<a.user, a.key>> \in recorded'
               /\ a.says = "reversed" => Refunded(a.user, a.key)'
    BY <2>2, <2>3
  <2> QED BY <2>1, <2>4 DEF AnswersTrue
<1>6. answers' \subseteq [user: Users, key: PayoutKeys, says: Says]
  BY <1>1 DEF PayoutType
<1> QED BY <1>1, <1>5, <1>6, LeaveOK

\* The request of worker c goes on to its next await.
LEMMA GotoOK ==
  ASSUME NEW c \in Workers, NEW label \in PCs \ {"idle"}, PayoutType, CallsOK, Grows, WalletInv,
         pc[c] # "idle", Goto(c, label), UNCHANGED req,
         \/ UNCHANGED view
         \/ view' = [view EXCEPT ![c] = NoView]
         \/ view' = [view EXCEPT ![c] = Now],
         UNCHANGED found \/ found' = found \cup {c},
         NEW u \in Users, NEW k \in PayoutKeys, u = req[c].user, k = req[c].key,
         label \in PastDebit \/ c \in found' => Debited(u, k)',
         label = "debitCommit" /\ KeyUsed(view'[c].ledger, DebitKey(u, k)) => Debited(u, k)',
         label = "record" => Paid(u, k)'
  PROVE  /\ pc' \in [Workers -> PCs] /\ req' \in [Workers -> Asks \cup {NoReq}]
         /\ view' \in [Workers -> Views] /\ found' \subseteq Workers
         /\ CallsOK'
<1>1. /\ pc' \in [Workers -> PCs] /\ req' \in [Workers -> Asks \cup {NoReq}]
      /\ view' \in [Workers -> Views] /\ found' \subseteq Workers
  BY NoViewOK, NowOK DEF Goto, PayoutType, Views
<1>2. CallOK(c)'
  <2>1. SnapshotOK(view'[c])
    BY NoViewOK, NowOK DEF PayoutType, CallsOK, CallOK
  <2>2. pc'[c] = label /\ req'[c] = req[c] /\ req'[c] \in Asks \cap asked'
    BY DEF Goto, PayoutType, CallsOK, CallOK, Grows
  <2> QED BY <2>1, <2>2 DEF CallOK
<1>3. \A d \in Workers \ {c} :
        /\ pc'[d] = pc[d] /\ req'[d] = req[d] /\ view'[d] = view[d]
        /\ d \in found' => d \in found
  BY DEF Goto, PayoutType
<1> QED BY <1>1, <1>2, <1>3, OthersOK

\* The user and key of a request in flight.
LEMMA ReqOK ==
  ASSUME NEW c \in Workers, CallsOK, pc[c] # "idle"
  PROVE  /\ req[c] \in Asks /\ req[c] \in asked
         /\ req[c].user \in Users /\ req[c].key \in PayoutKeys
         /\ req[c].coins \in Nat /\ Usd(req[c].coins) \in Nat
         /\ req[c] = Ask(req[c].user, req[c].key, req[c].coins)
         /\ SnapshotOK(view[c])
BY AskTypes DEF CallsOK, CallOK

\* Steps that change neither wallets nor transfers leave rows and transfers OK.
LEMMA QuietOK ==
  ASSUME IInv, UNCHANGED <<walletVars, transfers>>, asked \subseteq asked'
  PROVE  WalletInv' /\ RowsOK' /\ TransfersOK' /\ Grows
<1>1. WalletInv' /\ Grows
  BY WalletUnchanged, NoCommitGrows DEF IInv
<1>2. RowsOK'
  BY DEF IInv, RowsOK, DebitFits, RefundFits, walletVars
<1>3. TransfersOK'
  BY <1>1, TypeParts, TransfersKept DEF IInv
<1> QED BY <1>1, <1>2, <1>3

\* Arrivals, look-ups and snapshots.
LEMMA ReadSteps ==
  ASSUME IInv, NEW c \in Workers,
         \/ \E a \in Asks : RequestPayout(c, a)
         \/ FindDebitDone(c) \/ FindDebit(c) \/ FindRollback(c) \/ BeginTx(c)
  PROVE  IInv'
<1>1. /\ PayoutType /\ WalletInv /\ CallsOK /\ AnswersTrue
  BY TypeParts DEF IInv
<1>2. WalletInv' /\ RowsOK' /\ TransfersOK' /\ Grows
  BY QuietOK DEF RequestPayout, FindDebitDone, FindDebit, FindRollback, BeginTx
<1>3. UNCHANGED answers /\ UNCHANGED recorded => AnswersTrue'
  BY <1>1, <1>2 DEF PayoutType, AnswersTrue, Grows
<1>4. ASSUME PayoutType', CallsOK', AnswersTrue' PROVE IInv'
  BY <1>2, <1>4 DEF IInv, TypeOK, PayoutType, Views, WalletInv
<1>5. ASSUME NEW a \in Asks, RequestPayout(c, a) PROVE IInv'
  <2>1. CallOK(c)'
    BY <1>1, <1>5 DEF RequestPayout, Goto, PayoutType, CallsOK, CallOK, PastDebit
  <2>2. CallsOK'
    BY <1>1, <1>2, <1>5, <2>1, OthersOK DEF RequestPayout, Goto, PayoutType
  <2>3. PayoutType'
    BY <1>1, <1>5 DEF RequestPayout, Goto, PayoutType, PCs
  <2> QED BY <1>3, <1>4, <1>5, <2>2, <2>3 DEF RequestPayout
<1>6. ASSUME NEW u \in Users, NEW k \in PayoutKeys, u = req[c].user, k = req[c].key,
             FindDebitDone(c)
      PROVE  IInv'
  <2>1. <<u, k>> \in recorded /\ Answer(c, "ok")
        /\ UNCHANGED <<walletVars, payable, recorded, transfers, asked>>
    BY <1>6 DEF FindDebitDone
  <2>2. Paid(u, k)'
    BY <1>1, <2>1 DEF AnswersTrue, Paid
  <2>3. /\ pc' \in [Workers -> PCs] /\ req' \in [Workers -> Asks \cup {NoReq}]
        /\ view' \in [Workers -> Views] /\ found' \subseteq Workers
        /\ CallsOK' /\ AnswersTrue'
        /\ answers' \subseteq [user: Users, key: PayoutKeys, says: Says]
    BY <1>1, <1>2, <1>6, <2>1, <2>2, AnswerOK DEF Says
  <2>4. PayoutType'
    BY <1>1, <2>1, <2>3 DEF PayoutType
  <2> QED BY <1>4, <2>3, <2>4
<1>7. ASSUME NEW u \in Users, NEW k \in PayoutKeys, u = req[c].user, k = req[c].key,
             FindDebit(c)
      PROVE  IInv'
  <2>1. CallsOK' /\ PayoutType'
    <3>1. found' = IF Debited(u, k) THEN found \cup {c} ELSE found
      BY <1>7 DEF FindDebit
    <3>2. c \in found' => Debited(u, k)'
      BY <1>1, <1>2, <1>7, <3>1 DEF Grows, CallsOK, CallOK
    <3>3. /\ pc' \in [Workers -> PCs] /\ req' \in [Workers -> Asks \cup {NoReq}]
          /\ view' \in [Workers -> Views] /\ found' \subseteq Workers
          /\ CallsOK'
      BY <1>1, <1>2, <1>7, <3>1, <3>2, GotoOK DEF FindDebit, PCs, PastDebit
    <3> QED BY <1>1, <1>7, <3>3 DEF PayoutType, FindDebit
  <2> QED BY <1>3, <1>4, <1>7, <2>1 DEF FindDebit
<1>8. ASSUME NEW u \in Users, NEW k \in PayoutKeys, u = req[c].user, k = req[c].key,
             FindRollback(c)
      PROVE  IInv'
  <2>1. c \in found' => c \in found
    BY <1>8 DEF FindRollback, Answer, Leave
  <2>2. c \in found => Debited(u, k)'
    BY <1>1, <1>2, <1>8 DEF Grows, CallsOK, CallOK
  <2>3. CASE Refunded(u, k)
    <3>1. Answer(c, "reversed") /\ UNCHANGED <<payable, recorded, transfers, asked>>
      BY <1>8, <2>3 DEF FindRollback
    <3>2. Refunded(u, k)'
      BY <1>2, <2>3 DEF Grows
    <3>3. /\ pc' \in [Workers -> PCs] /\ req' \in [Workers -> Asks \cup {NoReq}]
          /\ view' \in [Workers -> Views] /\ found' \subseteq Workers
          /\ CallsOK' /\ AnswersTrue'
          /\ answers' \subseteq [user: Users, key: PayoutKeys, says: Says]
      BY <1>1, <1>2, <1>8, <3>1, <3>2, AnswerOK DEF Says
    <3>4. PayoutType'
      BY <1>1, <3>1, <3>3 DEF PayoutType
    <3> QED BY <1>4, <3>3, <3>4
  <2>4. CASE ~Refunded(u, k)
    <3>1. /\ Goto(c, IF c \in found THEN "transfer" ELSE "debit")
          /\ UNCHANGED <<answers, req, view, found, payable, recorded, transfers, asked>>
          /\ pc[c] = "findRollback"
      BY <1>8, <2>4 DEF FindRollback
    <3>2. /\ pc' \in [Workers -> PCs] /\ req' \in [Workers -> Asks \cup {NoReq}]
          /\ view' \in [Workers -> Views] /\ found' \subseteq Workers
          /\ CallsOK'
      BY <1>1, <1>2, <1>8, <2>2, <3>1, GotoOK DEF PCs, PastDebit
    <3>3. PayoutType'
      BY <1>1, <3>1, <3>2 DEF PayoutType
    <3> QED BY <1>3, <1>4, <3>1, <3>2, <3>3
  <2> QED BY <2>3, <2>4
<1>9. ASSUME NEW u \in Users, NEW k \in PayoutKeys, u = req[c].user, k = req[c].key,
             BeginTx(c)
      PROVE  IInv'
  <2>1. /\ pc[c] \in {"debit", "rollback"}
        /\ Goto(c, IF pc[c] = "debit" THEN "debitCommit" ELSE "rollbackCommit")
        /\ view' = [view EXCEPT ![c] = Now]
        /\ UNCHANGED <<walletVars, payable, recorded, transfers, answers, asked, req, found>>
    BY <1>9 DEF BeginTx, Now
  <2>2. (c \in found \/ pc[c] = "rollback") => Debited(u, k)'
    BY <1>1, <1>2, <1>9 DEF Grows, CallsOK, CallOK, PastDebit
  <2>3. /\ pc' \in [Workers -> PCs] /\ req' \in [Workers -> Asks \cup {NoReq}]
        /\ view' \in [Workers -> Views] /\ found' \subseteq Workers
        /\ CallsOK'
    <3>1. CASE pc[c] = "debit"
      <4>1. Goto(c, "debitCommit") /\ "debitCommit" \in PCs \ {"idle"}
        BY <2>1, <3>1 DEF PCs
      <4>2. ("debitCommit" \in PastDebit \/ c \in found') => Debited(u, k)'
        BY <2>1, <2>2, <3>1 DEF PastDebit
      <4>3. KeyUsed(view'[c].ledger, DebitKey(u, k)) => Debited(u, k)'
        BY <1>1, <1>2, <2>1 DEF PayoutType, Now, Debited, Grows
      <4> QED BY <1>1, <1>2, <1>9, <2>1, <3>1, <4>1, <4>2, <4>3, GotoOK
    <3>2. CASE pc[c] = "rollback"
      <4>1. Goto(c, "rollbackCommit") /\ "rollbackCommit" \in PCs \ {"idle"}
        BY <2>1, <3>2 DEF PCs
      <4>2. ("rollbackCommit" \in PastDebit \/ c \in found') => Debited(u, k)'
        BY <2>1, <2>2, <3>2 DEF PastDebit
      <4> QED BY <1>1, <1>2, <1>9, <2>1, <3>2, <4>1, <4>2, GotoOK
    <3> QED BY <2>1, <3>1, <3>2
  <2>4. PayoutType'
    BY <1>1, <2>1, <2>3 DEF PayoutType
  <2> QED BY <1>3, <1>4, <2>1, <2>3, <2>4
<1>10. pc[c] # "idle" => \E u \in Users, k \in PayoutKeys : u = req[c].user /\ k = req[c].key
  BY <1>1, ReqOK
<1>11. CASE FindDebitDone(c) \/ FindDebit(c) \/ FindRollback(c) \/ BeginTx(c)
  <2>1. pc[c] # "idle"
    BY <1>11 DEF FindDebitDone, FindDebit, FindRollback, BeginTx
  <2> QED BY <1>6, <1>7, <1>8, <1>9, <1>10, <1>11, <2>1
<1> QED BY <1>5, <1>11

\* What Stripe pays is the request in hand, whose debit is in the ledger.
LEMMA StripePaysOK ==
  ASSUME IInv, NEW c \in Workers, pc[c] = "transfer", StripePays(req[c]),
         UNCHANGED <<walletVars, asked>>,
         NEW u \in Users, NEW k \in PayoutKeys, u = req[c].user, k = req[c].key
  PROVE  /\ Grows /\ TransfersOK' /\ Paid(u, k)'
         /\ transfers' \subseteq [user: Users, key: PayoutKeys, coins: Nat, usd: Nat]
<1> DEFINE t == [user |-> u, key |-> k, coins |-> req[c].coins, usd |-> Usd(req[c].coins)]
<1>1. transfers' = transfers \cup {t}
  BY DEF StripePays
<1>2. Grows
  BY <1>1, NoCommitGrows
<1>3. /\ req[c] = Ask(u, k, req[c].coins) /\ req[c] \in asked
      /\ req[c].coins \in Nat /\ Usd(req[c].coins) \in Nat
  BY ReqOK DEF IInv
<1>4. Debited(u, k)
  BY DEF IInv, CallsOK, CallOK, PastDebit
<1>5. Debited(u, k)'
  BY <1>2, <1>4 DEF Grows
<1>6. TransfersOK'
  <2>1. ASSUME NEW s \in transfers
        PROVE  /\ Ask(s.user, s.key, s.coins) \in asked' /\ s.usd = Usd(s.coins)
               /\ Debited(s.user, s.key)'
    BY <1>2 DEF IInv, TypeOK, TransfersOK, Grows
  <2>2. PICK n : n = req[c].coins
    OBVIOUS
  <2>3. transfers' = transfers \cup {[user |-> u, key |-> k, coins |-> n, usd |-> Usd(n)]}
        /\ Ask(u, k, n) \in asked'
    BY <1>1, <1>3, <2>2
  <2>4. \A r, s \in transfers' : r.user = s.user /\ r.key = s.key => r = s
    <3>1. \A s \in transfers : s.user = u /\ s.key = k => s = t
      BY DEF StripePays
    <3>2. \A r, s \in transfers : r.user = s.user /\ r.key = s.key => r = s
      BY DEF IInv, TransfersOK
    <3>3. t.user = u /\ t.key = k
      OBVIOUS
    <3> HIDE DEF t
    <3> QED BY <1>1, <3>1, <3>2, <3>3
  <2> QED BY <1>5, <2>1, <2>3, <2>4 DEF TransfersOK
<1>7. Paid(u, k)'
  <2>1. t \in transfers' /\ t.user = u /\ t.key = k
    BY <1>1
  <2> HIDE DEF t
  <2> QED BY <2>1 DEF Paid
<1>8. transfers' \subseteq [user: Users, key: PayoutKeys, coins: Nat, usd: Nat]
  BY <1>1, <1>3 DEF IInv, TypeOK
<1> QED BY <1>2, <1>6, <1>7, <1>8

\* The transfer and the recording of its id, and what may go wrong with them.
LEMMA StripeSteps ==
  ASSUME IInv, NEW c \in Workers,
         Transfer(c) \/ TransferThrows(c) \/ Record(c) \/ RecordThrows(c)
  PROVE  IInv'
<1>1. /\ PayoutType /\ WalletInv /\ CallsOK /\ AnswersTrue /\ pc[c] # "idle"
  BY TypeParts DEF IInv, Transfer, TransferThrows, Record, RecordThrows
<1>2. UNCHANGED walletVars /\ UNCHANGED payable /\ UNCHANGED asked
  BY DEF Transfer, TransferThrows, Record, RecordThrows
<1>3. WalletInv' /\ RowsOK'
  BY <1>2, WalletUnchanged DEF IInv, RowsOK, DebitFits, RefundFits, walletVars
<1>4. PICK u \in Users, k \in PayoutKeys : u = req[c].user /\ k = req[c].key
  BY <1>1, ReqOK
<1>5. ASSUME Grows, UNCHANGED <<answers, recorded>> PROVE AnswersTrue'
  BY <1>1, <1>5 DEF PayoutType, AnswersTrue, Grows
<1>6. ASSUME PayoutType', CallsOK', AnswersTrue', TransfersOK' PROVE IInv'
  BY <1>3, <1>6 DEF IInv, TypeOK, PayoutType, Views, WalletInv
<1>7. c \in found => Debited(u, k)
  BY <1>1, <1>4 DEF CallsOK, CallOK
<1>8. pc[c] \in PastDebit => Debited(u, k)
  BY <1>1, <1>4 DEF CallsOK, CallOK
<1>9. UNCHANGED transfers => Grows /\ TransfersOK'
  BY <1>2, QuietOK
<1>10. ASSUME Grows, TransfersOK',
              transfers' \subseteq [user: Users, key: PayoutKeys, coins: Nat, usd: Nat],
              UNCHANGED <<answers, recorded, req, view, found>>,
              pc[c] \in PastDebit, NEW label \in {"record", "rollback"}, Goto(c, label),
              label = "record" => Paid(u, k)'
       PROVE  IInv'
  <2>1. Debited(u, k)' /\ label \in PCs \ {"idle"}
    BY <1>8, <1>10 DEF Grows, PCs
  <2>2. /\ pc' \in [Workers -> PCs] /\ req' \in [Workers -> Asks \cup {NoReq}]
        /\ view' \in [Workers -> Views] /\ found' \subseteq Workers
        /\ CallsOK'
    BY <1>1, <1>4, <1>10, <2>1, GotoOK
  <2>3. PayoutType'
    BY <1>1, <1>2, <1>10, <2>2 DEF PayoutType
  <2> QED BY <1>5, <1>6, <1>10, <2>2, <2>3
<1>11. CASE Transfer(c)
  BY <1>2, <1>4, <1>10, <1>11, StripePaysOK DEF Transfer, PastDebit
<1>12. CASE TransferThrows(c)
  <2>1. CASE UNCHANGED transfers
    BY <1>1, <1>9, <1>10, <1>12, <2>1 DEF TransferThrows, PastDebit, PayoutType
  <2>2. CASE StripePays(req[c])
    BY <1>2, <1>4, <1>10, <1>12, <2>2, StripePaysOK DEF TransferThrows, PastDebit
  <2> QED BY <1>12, <2>1, <2>2 DEF TransferThrows
<1>13. CASE RecordThrows(c)
  BY <1>1, <1>9, <1>10, <1>13 DEF RecordThrows, PastDebit, PayoutType
<1>14. CASE Record(c)
  <2>1. /\ pc[c] = "record" /\ recorded' = recorded \cup {<<u, k>>} /\ Answer(c, "ok")
        /\ UNCHANGED <<payable, transfers>>
    BY <1>4, <1>14 DEF Record
  <2>2. Grows /\ TransfersOK'
    BY <1>9, <2>1
  <2>3. Paid(u, k)'
    BY <1>1, <1>4, <2>1, <2>2 DEF CallsOK, CallOK, Grows
  <2>4. /\ pc' \in [Workers -> PCs] /\ req' \in [Workers -> Asks \cup {NoReq}]
        /\ view' \in [Workers -> Views] /\ found' \subseteq Workers
        /\ CallsOK' /\ AnswersTrue'
        /\ answers' \subseteq [user: Users, key: PayoutKeys, says: Says]
    BY <1>1, <1>4, <2>1, <2>2, <2>3, AnswerOK DEF Says
  <2>5. PayoutType'
    BY <1>1, <1>2, <2>1, <2>4 DEF PayoutType
  <2> QED BY <1>6, <2>2, <2>4, <2>5
<1> QED BY <1>11, <1>12, <1>13, <1>14

\* Requests that end without moving anything, and the flag Stripe toggles.
LEMMA IdleSteps ==
  ASSUME IInv,
         \/ \E c \in Workers : AbortDebit(c) \/ AbortRollback(c) \/ Crash(c)
         \/ \E u \in Users : SyncAccount(u)
  PROVE  IInv'
<1>1. /\ PayoutType /\ WalletInv /\ CallsOK /\ AnswersTrue
  BY TypeParts DEF IInv
<1>2. UNCHANGED <<walletVars, transfers, recorded, asked>>
  BY DEF AbortDebit, AbortRollback, Crash, SyncAccount
<1>3. WalletInv' /\ RowsOK' /\ TransfersOK' /\ Grows
  BY <1>2, QuietOK
<1>4. UNCHANGED answers => AnswersTrue'
  BY <1>1, <1>2, <1>3 DEF PayoutType, AnswersTrue, Grows
<1>5. ASSUME PayoutType', CallsOK', AnswersTrue' PROVE IInv'
  BY <1>3, <1>5 DEF IInv, TypeOK, PayoutType, Views, WalletInv
<1>6. ASSUME NEW c \in Workers, NEW says \in {"refused", "failed"}, pc[c] # "idle",
             Answer(c, says), UNCHANGED payable
      PROVE  IInv'
  <2>1. PICK u \in Users, k \in PayoutKeys : u = req[c].user /\ k = req[c].key
    BY <1>1, <1>6, ReqOK
  <2>2. /\ pc' \in [Workers -> PCs] /\ req' \in [Workers -> Asks \cup {NoReq}]
        /\ view' \in [Workers -> Views] /\ found' \subseteq Workers
        /\ CallsOK' /\ AnswersTrue'
        /\ answers' \subseteq [user: Users, key: PayoutKeys, says: Says]
    BY <1>1, <1>2, <1>3, <1>6, <2>1, AnswerOK DEF Says
  <2>3. PayoutType'
    BY <1>1, <1>2, <1>6, <2>2 DEF PayoutType
  <2> QED BY <1>5, <2>2, <2>3
<1>7. ASSUME NEW c \in Workers, AbortDebit(c) PROVE IInv'
  BY <1>6, <1>7 DEF AbortDebit
<1>8. ASSUME NEW c \in Workers, AbortRollback(c) PROVE IInv'
  BY <1>6, <1>8 DEF AbortRollback
<1>9. ASSUME NEW c \in Workers, Crash(c) PROVE IInv'
  <2>1. /\ pc' \in [Workers -> PCs] /\ req' \in [Workers -> Asks \cup {NoReq}]
        /\ view' \in [Workers -> Views] /\ found' \subseteq Workers /\ CallsOK'
    BY <1>1, <1>3, <1>9, LeaveOK DEF Crash
  <2>2. PayoutType'
    BY <1>1, <1>2, <1>9, <2>1 DEF PayoutType, Crash
  <2> QED BY <1>4, <1>5, <1>9, <2>1, <2>2 DEF Crash
<1>10. ASSUME NEW u \in Users, SyncAccount(u) PROVE IInv'
  <2>1. PayoutType'
    BY <1>1, <1>10 DEF PayoutType, SyncAccount, callVars
  <2>2. CallsOK'
    BY <1>1, <1>3, <1>10, ReqOK
       DEF CallsOK, CallOK, SyncAccount, callVars, walletVars, Debited, Paid
  <2> QED BY <1>4, <1>5, <1>10, <2>1, <2>2 DEF SyncAccount
<1> QED BY <1>7, <1>8, <1>9, <1>10

\* The commits: an earning, a debit, a compensation.
LEMMA CommitSteps ==
  ASSUME IInv,
         \/ \E c \in Workers : CommitDebit(c) \/ CommitRollback(c)
         \/ \E u \in Users, x \in Earnings : Earn(u, x)
  PROVE  IInv'
<1>1. /\ PayoutType /\ WalletInv /\ CallsOK /\ AnswersTrue /\ RowsOK /\ TransfersOK
  BY TypeParts DEF IInv
<1>2. UNCHANGED <<transfers, recorded, payable, asked>>
  BY DEF CommitDebit, CommitRollback, Earn
<1>3. ASSUME NEW vw, NEW moves, SnapshotOK(vw), MovesOK(moves), ApplyMoves(vw, moves),
             \A v \in DOMAIN moves : MoveFits(v, moves[v])
      PROVE  WalletInv' /\ RowsOK' /\ TransfersOK' /\ Grows
  <2>1. WalletInv' /\ RowsOK'
    BY <1>1, <1>2, <1>3, ApplyMovesInv, RowsStayOK
  <2>2. Grows
    BY <1>1, <1>2, <1>3, CommitGrows
  <2> QED BY <1>1, <1>2, <2>1, <2>2, TransfersKept
<1>4. ASSUME WalletInv', RowsOK', TransfersOK', PayoutType', CallsOK', AnswersTrue'
      PROVE  IInv'
  BY <1>4 DEF IInv, TypeOK, PayoutType, Views, WalletInv
<1>5. Grows /\ UNCHANGED answers => AnswersTrue'
  BY <1>1, <1>2 DEF PayoutType, AnswersTrue, Grows
<1>6. ASSUME NEW u \in Users, NEW x \in Earnings, Earn(u, x) PROVE IInv'
  <2> DEFINE moves == [v \in {u} |-> [type |-> "CREATOR_EARN", amount |-> EarnAmount,
                                      key |-> EarnKey(u, x)]]
  <2>1. ApplyMoves(Now, moves) /\ UNCHANGED <<answers, callVars>>
    BY <1>6 DEF Earn, Now
  <2>2. MovesOK(moves)
    <3>1. EarnKey(u, x) \in Keys
      BY PayoutAssumption
    <3>2. EarnAmount \in Nat \ {0}
      BY PayoutAssumption
    <3> QED BY <3>1, <3>2 DEF MovesOK, TxnTypes
  <2>3. \A v \in DOMAIN moves : MoveFits(v, moves[v])
    BY KeysDiffer DEF MoveFits
  <2>4. WalletInv' /\ RowsOK' /\ TransfersOK' /\ Grows
    BY <1>1, <1>3, <2>1, <2>2, <2>3, NowOK
  <2>5. PayoutType'
    BY <1>1, <1>2, <2>1 DEF PayoutType, callVars
  <2>6. CallsOK'
    <3>1. ASSUME NEW c \in Workers PROVE CallOK(c)'
      BY <1>1, <1>2, <2>1, <2>4, ReqOK DEF CallsOK, CallOK, callVars, Grows, PastDebit
    <3> QED BY <3>1 DEF CallsOK
  <2> QED BY <1>4, <1>5, <2>1, <2>4, <2>5, <2>6
<1>7. ASSUME NEW c \in Workers, pc[c] # "idle"
      PROVE  \E u \in Users, k \in PayoutKeys : u = req[c].user /\ k = req[c].key
  BY <1>1, <1>7, ReqOK
<1>8. ASSUME NEW c \in Workers, NEW u \in Users, NEW k \in PayoutKeys,
             u = req[c].user, k = req[c].key, CommitDebit(c)
      PROVE  IInv'
  <2> DEFINE moves == Debit(req[c])
  <2>1. /\ pc[c] = "debitCommit" /\ ApplyMoves(view[c], moves) /\ Goto(c, "transfer")
        /\ view' = [view EXCEPT ![c] = NoView] /\ UNCHANGED <<answers, req, found>>
    BY <1>8 DEF CommitDebit
  <2>2. /\ SnapshotOK(view[c]) /\ MovesOK(moves)
        /\ req[c] \in asked /\ req[c] = Ask(u, k, req[c].coins) /\ req[c].coins \in Nat
    BY <1>1, <1>8, <2>1, ReqOK, PayoutMoves
  <2>3. /\ DOMAIN moves = {u} /\ moves[u].key = DebitKey(u, k)
        /\ moves[u].amount = -req[c].coins
    BY <1>8 DEF Debit
  <2>4. MoveFits(u, moves[u])
    <3>1. -moves[u].amount = req[c].coins
      BY <2>2, <2>3
    <3> QED BY <2>2, <2>3, <3>1, KeysDiffer DEF MoveFits
  <2> HIDE DEF moves
  <2>5. WalletInv' /\ RowsOK' /\ TransfersOK' /\ Grows
    BY <1>1, <1>3, <2>1, <2>2, <2>3, <2>4
  <2>6. Debited(u, k)'
    <3>1. KeyUsed(view[c].ledger, DebitKey(u, k)) => KeyUsed(ledger, DebitKey(u, k))
      BY <1>1, <1>8, <2>1 DEF CallsOK, CallOK, Debited
    <3> QED BY <1>1, <2>1, <2>2, <2>3, <3>1, KeysMade DEF Debited
  <2>7. /\ pc' \in [Workers -> PCs] /\ req' \in [Workers -> Asks \cup {NoReq}]
        /\ view' \in [Workers -> Views] /\ found' \subseteq Workers
        /\ CallsOK'
    <3>1. "transfer" \in PCs \ {"idle"} /\ pc[c] # "idle"
      BY <2>1 DEF PCs
    <3> QED BY <1>1, <1>8, <2>1, <2>5, <2>6, <3>1, GotoOK
  <2>8. PayoutType'
    BY <1>1, <1>2, <2>1, <2>7 DEF PayoutType
  <2> QED BY <1>4, <1>5, <2>1, <2>5, <2>7, <2>8
<1>9. ASSUME NEW c \in Workers, NEW u \in Users, NEW k \in PayoutKeys,
             u = req[c].user, k = req[c].key, CommitRollback(c)
      PROVE  IInv'
  <2> DEFINE moves == Rollback(req[c])
  <2>1. /\ pc[c] = "rollbackCommit" /\ ApplyMoves(view[c], moves) /\ Answer(c, "failed")
    BY <1>9 DEF CommitRollback
  <2>2. /\ SnapshotOK(view[c]) /\ MovesOK(moves)
        /\ req[c] \in asked /\ req[c] = Ask(u, k, req[c].coins) /\ req[c].coins \in Nat
        /\ Debited(u, k)
    BY <1>1, <1>9, <2>1, ReqOK, PayoutMoves DEF CallsOK, CallOK, PastDebit
  <2>3. /\ DOMAIN moves = {u} /\ moves[u].key = RollbackKey(u, k)
        /\ moves[u].amount = req[c].coins
    BY <1>9 DEF Rollback
  <2>4. PICK j \in 1..Len(ledger[u]) : ledger[u][j].key = DebitKey(u, k)
    <3>1. PICK v \in Users : \E i \in 1..Len(ledger[v]) : ledger[v][i].key = DebitKey(u, k)
      BY <1>1, <2>2 DEF Debited, KeyUsed, WalletInv, WalletTypeOK
    <3>2. PICK i \in 1..Len(ledger[v]) : ledger[v][i].key = DebitKey(u, k)
      BY <3>1
    <3>3. v = u
      BY <1>1, <3>2 DEF RowsOK, DebitFits
    <3> QED BY <3>2, <3>3
  <2>6. MoveFits(u, moves[u])
    BY <2>2, <2>3, <2>4, KeysDiffer DEF MoveFits
  <2> HIDE DEF moves
  <2>7. WalletInv' /\ RowsOK' /\ TransfersOK' /\ Grows
    BY <1>1, <1>3, <2>1, <2>2, <2>3, <2>6
  <2>8. /\ pc' \in [Workers -> PCs] /\ req' \in [Workers -> Asks \cup {NoReq}]
        /\ view' \in [Workers -> Views] /\ found' \subseteq Workers
        /\ CallsOK' /\ AnswersTrue'
        /\ answers' \subseteq [user: Users, key: PayoutKeys, says: Says]
    BY <1>1, <1>2, <1>9, <2>1, <2>7, AnswerOK DEF Says
  <2>9. PayoutType'
    BY <1>1, <1>2, <2>1, <2>8 DEF PayoutType
  <2> QED BY <1>4, <2>7, <2>8, <2>9
<1> QED BY <1>6, <1>7, <1>8, <1>9 DEF CommitDebit, CommitRollback

---------------------------------------------------------------------------
(* The theorems.                                                           *)

\* At first there are no rows, requests or transfers.
LEMMA InitIInv == Init => IInv
<1> SUFFICES ASSUME Init PROVE IInv
  OBVIOUS
<1>1. WalletInv
  BY WalletInitInv DEF Init
<1>2. PayoutType
  BY NoViewOK DEF Init, PayoutType, PCs, Views
<1>3. RowsOK
  BY DEF Init, WalletInit, RowsOK
<1>4. TransfersOK /\ AnswersTrue
  BY DEF Init, TransfersOK, AnswersTrue
<1>5. CallsOK
  BY NoViewOK DEF Init, CallsOK, CallOK, PastDebit
<1> QED BY <1>1, <1>2, <1>3, <1>4, <1>5, TypeParts DEF IInv

\* Every step keeps the invariant.
LEMMA NextIInv ==
  ASSUME IInv, [Next]_vars
  PROVE  IInv'
<1>1. CASE UNCHANGED vars
  <2>1. UNCHANGED <<walletVars, payable, recorded, transfers, answers, asked, callVars>>
    BY <1>1 DEF vars
  <2>2. /\ PayoutType /\ CallsOK /\ AnswersTrue
    BY TypeParts DEF IInv
  <2>3. WalletInv' /\ RowsOK' /\ TransfersOK' /\ Grows
    BY <2>1, QuietOK
  <2>4. PayoutType' /\ AnswersTrue'
    BY <2>1, <2>2, <2>3 DEF PayoutType, AnswersTrue, Grows, callVars
  <2>5. ASSUME NEW c \in Workers PROVE CallOK(c)'
    BY <2>1, <2>2, <2>3, ReqOK DEF CallsOK, CallOK, callVars, Grows, PastDebit
  <2> QED BY <2>3, <2>4, <2>5 DEF IInv, TypeOK, PayoutType, Views, WalletInv, CallsOK
<1>2. CASE Next
  BY <1>2, ReadSteps, StripeSteps, IdleSteps, CommitSteps DEF Next, Step
<1> QED BY <1>1, <1>2

\* The inductive invariant holds in every reachable state (IInv).
THEOREM Invariance == Spec => []IInv
BY InitIInv, NextIInv, PTL DEF Spec

\* requestPayout pays for a key once and after debiting it, whatever requests
\* run concurrently, fail half-way or are lost in a crash; it pays what it has
\* debited if the client has used the key for one amount.
THEOREM PaidIsBacked == Spec => []TransferBacked
<1>1. IInv => TransferBacked
  <2> SUFFICES ASSUME IInv, NEW t \in transfers
               PROVE  /\ \A s \in transfers : s.user = t.user /\ s.key = t.key => s = t
                      /\ t.usd * Den <= t.coins * Num
                      /\ \E i \in 1..Len(ledger[t.user]) :
                           /\ ledger[t.user][i].key = DebitKey(t.user, t.key)
                           /\ OneAmount(t.user, t.key) => ledger[t.user][i].amount = -t.coins
    BY DEF TransferBacked
  <2>1. /\ t.user \in Users /\ t.key \in PayoutKeys /\ t.coins \in Nat
        /\ Ask(t.user, t.key, t.coins) \in asked
        /\ t.usd = Usd(t.coins) /\ Debited(t.user, t.key)
    BY DEF IInv, TypeOK, TransfersOK
  <2>2. \A s \in transfers : s.user = t.user /\ s.key = t.key => s = t
    BY DEF IInv, TransfersOK
  <2>3. t.usd * Den <= t.coins * Num
    BY <2>1, UsdBounds
  <2>4. \A v \in Users : ledger[v] \in Seq(Rows)
    BY DEF IInv, WalletInv, WalletTypeOK
  <2>5. PICK v \in Users : \E i \in 1..Len(ledger[v]) : ledger[v][i].key = DebitKey(t.user, t.key)
    BY <2>1 DEF Debited, KeyUsed, IInv, WalletInv, WalletTypeOK
  <2>6. PICK i \in 1..Len(ledger[v]) : ledger[v][i].key = DebitKey(t.user, t.key)
    BY <2>5
  <2>7. v = t.user /\ Ask(t.user, t.key, -ledger[v][i].amount) \in asked
    BY <2>1, <2>6 DEF IInv, RowsOK, DebitFits
  <2>8. OneAmount(t.user, t.key) => ledger[v][i].amount = -t.coins
    <3>1. ledger[v][i] \in Rows
      BY <2>4, <2>6
    <3>2. ledger[v][i].amount \in Int
      BY <3>1 DEF Rows
    <3> QED BY <2>1, <2>7, <3>2, SameAmount
  <2> QED BY <2>2, <2>3, <2>6, <2>7, <2>8
<1> QED BY <1>1, Invariance, PTL

\* The compensation follows its debit, and gives back what was taken if the
\* client has used the key for one amount.
THEOREM RefundIsBacked == Spec => []RefundMatchesDebit
<1>1. IInv => RefundMatchesDebit
  <2> SUFFICES ASSUME IInv, NEW u \in Users, NEW k \in PayoutKeys,
                      NEW j \in 1..Len(ledger[u]), ledger[u][j].key = RollbackKey(u, k)
               PROVE  \E i \in 1..(j - 1) :
                        /\ ledger[u][i].key = DebitKey(u, k)
                        /\ OneAmount(u, k) => ledger[u][i].amount = -ledger[u][j].amount
    BY DEF RefundMatchesDebit
  <2>1. PICK i \in 1..(j - 1) : ledger[u][i].key = DebitKey(u, k)
    BY DEF IInv, RowsOK, RefundFits
  <2>2. ledger[u] \in Seq(Rows)
    BY DEF IInv, WalletInv, WalletTypeOK
  <2>3. i \in 1..Len(ledger[u])
    BY <2>2
  <2>4. Ask(u, k, ledger[u][j].amount) \in asked /\ Ask(u, k, -ledger[u][i].amount) \in asked
    BY <2>1, <2>3 DEF IInv, RowsOK, RefundFits, DebitFits
  <2>5. ledger[u][i] \in Rows /\ ledger[u][j] \in Rows
    BY <2>2, <2>3
  <2>6. ledger[u][i].amount \in Int /\ ledger[u][j].amount \in Int
    BY <2>5 DEF Rows
  <2>7. OneAmount(u, k) => ledger[u][i].amount = -ledger[u][j].amount
    BY <2>4, <2>6, SameAmount
  <2> QED BY <2>1, <2>7
<1> QED BY <1>1, Invariance, PTL

\* A client told "ok" has been paid, a client told "reversed" has its coins,
\* whatever keys and amounts clients send.
THEOREM AnswersAreTrue == Spec => []AnswersTrue
BY Invariance, PTL DEF IInv

\* Every reachable state is well typed, whatever keys and amounts clients send.
THEOREM PayoutTypeCorrect == Spec => []TypeOK
BY Invariance, PTL DEF IInv

\* A payout key debits once and refunds once, even when it is presented by two
\* requests at a time, or again with another amount.
THEOREM PayoutIdempotency == Spec => []KeysMoveOnce
BY Invariance, PTL DEF IInv, WalletInv
=============================================================================
