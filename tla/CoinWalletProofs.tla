----------------------------- MODULE CoinWalletProofs -----------------------------
(***************************************************************************)
(* A committed wallet transaction keeps the books, for every set of users, *)
(* every key space and every set of moves a service may ask for.  The      *)
(* modules that run transactions cite these lemmas.                        *)
(***************************************************************************)
EXTENDS CoinWallet, TLAPS

\* What a service may hand to one transaction: one move per wallet, each under
\* a key of its own.
MovesOK(moves) ==
  /\ DOMAIN moves \subseteq Users
  /\ \A u \in DOMAIN moves :
       moves[u].type \in TxnTypes /\ moves[u].amount \in Int /\ moves[u].key \in Keys
  /\ \A u, v \in DOMAIN moves : moves[u].key = moves[v].key => u = v

\* A snapshot as some earlier state left it: its balances close its ledgers.
SnapshotOK(view) ==
  /\ view.balance \in [Users -> 0..MaxInt]
  /\ view.ledger \in [Users -> Seq(Rows)]
  /\ \A u \in Users : view.balance[u] = Closing(view.ledger[u])

\* The inductive invariant of the wallets.
WalletInv == WalletTypeOK /\ LedgerChain /\ KeysMoveOnce

\* A refused or conflicting transaction is excluded, so every touched wallet
\* still holds the balance the snapshot showed.
LEMMA TouchedIsCurrent ==
  ASSUME NEW view, NEW moves, SnapshotOK(view), MovesOK(moves), WalletInv,
         ~Conflicts(view, moves), NEW u \in Fresh(view, moves)
  PROVE  /\ u \in Users
         /\ ledger[u] = view.ledger[u]
         /\ balance[u] = view.balance[u]
         /\ ~KeyUsed(ledger, moves[u].key)
<1>1. u \in DOMAIN moves /\ u \in Users
  BY DEF Fresh, MovesOK
<1>2. ledger[u] = view.ledger[u] /\ ~KeyUsed(ledger, moves[u].key)
  BY DEF Conflicts
<1>3. balance[u] = Closing(ledger[u]) /\ view.balance[u] = Closing(view.ledger[u])
  BY <1>1 DEF WalletInv, LedgerChain, SnapshotOK
<1> QED BY <1>1, <1>2, <1>3

\* The row a fresh move leaves is well typed and booked on the balance.
LEMMA RowBooked ==
  ASSUME NEW view, NEW moves, SnapshotOK(view), MovesOK(moves), WalletInv,
         ~Conflicts(view, moves), ~Refused(view, moves), NEW u \in Fresh(view, moves)
  PROVE  /\ RowOf(view, moves, u) \in Rows
         /\ RowOf(view, moves, u).balanceAfter = balance[u] + RowOf(view, moves, u).amount
         /\ RowOf(view, moves, u).balanceAfter = NextBalance(view, moves, u)
         /\ RowOf(view, moves, u).key = moves[u].key
         /\ NextBalance(view, moves, u) \in 0..MaxInt
<1>1. u \in DOMAIN moves /\ u \in Users /\ balance[u] = view.balance[u]
  BY TouchedIsCurrent DEF Fresh
<1>2. NextBalance(view, moves, u) \in 0..MaxInt
  BY DEF Refused
<1>3. moves[u].type \in TxnTypes /\ moves[u].amount \in Int /\ moves[u].key \in Keys
  BY <1>1 DEF MovesOK
<1> QED BY <1>1, <1>2, <1>3 DEF RowOf, Rows, NextBalance

\* A committed transaction leaves balances and ledgers well typed.
LEMMA ApplyMovesType ==
  ASSUME NEW view, NEW moves, SnapshotOK(view), MovesOK(moves), WalletInv,
         ApplyMoves(view, moves)
  PROVE  WalletTypeOK'
<1>1. ~Conflicts(view, moves) /\ ~Refused(view, moves)
  BY DEF ApplyMoves
<1>2. balance' \in [Users -> 0..MaxInt]
  <2>1. ASSUME NEW u \in Users PROVE balance'[u] \in 0..MaxInt
    BY <1>1, RowBooked DEF ApplyMoves, WalletInv, WalletTypeOK
  <2> QED BY <2>1 DEF ApplyMoves
<1>3. ledger' \in [Users -> Seq(Rows)]
  <2>1. ASSUME NEW u \in Users PROVE ledger'[u] \in Seq(Rows)
    <3>1. ledger[u] \in Seq(Rows)
      BY DEF WalletInv, WalletTypeOK
    <3>2. CASE u \in Fresh(view, moves)
      <4>1. RowOf(view, moves, u) \in Rows
        BY <1>1, <3>2, RowBooked
      <4>2. ledger'[u] = Append(ledger[u], RowOf(view, moves, u))
        BY <3>2 DEF ApplyMoves
      <4> QED BY <3>1, <4>1, <4>2
    <3>3. CASE u \notin Fresh(view, moves)
      BY <3>1, <3>3 DEF ApplyMoves
    <3> QED BY <3>2, <3>3
  <2> QED BY <2>1 DEF ApplyMoves
<1> QED BY <1>2, <1>3 DEF WalletTypeOK

\* What a committed transaction does to one wallet: nothing, or one row more.
LEMMA LedgerStep ==
  ASSUME NEW view, NEW moves, SnapshotOK(view), MovesOK(moves), WalletInv,
         ApplyMoves(view, moves), NEW u \in Users
  PROVE  \/ /\ u \notin Fresh(view, moves)
            /\ ledger'[u] = ledger[u] /\ balance'[u] = balance[u]
         \/ /\ u \in Fresh(view, moves)
            /\ Len(ledger'[u]) = Len(ledger[u]) + 1
            /\ \A i \in 1..Len(ledger[u]) : ledger'[u][i] = ledger[u][i]
            /\ ledger'[u] = Append(ledger[u], ledger'[u][Len(ledger[u]) + 1])
            /\ ledger'[u][Len(ledger[u]) + 1] = RowOf(view, moves, u)
            /\ balance'[u] = NextBalance(view, moves, u)
<1>1. ledger[u] \in Seq(Rows)
  BY DEF WalletInv, WalletTypeOK
<1>2. CASE u \in Fresh(view, moves)
  <2>1. RowOf(view, moves, u) \in Rows
    BY <1>2, RowBooked DEF ApplyMoves
  <2>2. ledger'[u] = Append(ledger[u], RowOf(view, moves, u))
    BY <1>2 DEF ApplyMoves
  <2>3. balance'[u] = NextBalance(view, moves, u)
    BY <1>2 DEF ApplyMoves
  <2> QED BY <1>1, <1>2, <2>1, <2>2, <2>3
<1>3. CASE u \notin Fresh(view, moves)
  BY <1>3 DEF ApplyMoves
<1> QED BY <1>2, <1>3

\* A committed transaction keeps the audit trail unbroken.
LEMMA ApplyMovesChain ==
  ASSUME NEW view, NEW moves, SnapshotOK(view), MovesOK(moves), WalletInv,
         ApplyMoves(view, moves)
  PROVE  LedgerChain'
<1> SUFFICES ASSUME NEW u \in Users
             PROVE  /\ balance'[u] = Closing(ledger'[u])
                    /\ \A i \in 1..Len(ledger'[u]) :
                         ledger'[u][i].balanceAfter
                           = Opening(ledger'[u], i) + ledger'[u][i].amount
  BY DEF LedgerChain
<1>1. /\ ledger[u] \in Seq(Rows) /\ balance[u] = Closing(ledger[u])
      /\ \A i \in 1..Len(ledger[u]) :
           ledger[u][i].balanceAfter = Opening(ledger[u], i) + ledger[u][i].amount
  BY DEF WalletInv, WalletTypeOK, LedgerChain
<1>2. CASE u \notin Fresh(view, moves)
  BY <1>1, <1>2, LedgerStep
<1>3. CASE u \in Fresh(view, moves)
  <2> DEFINE n == Len(ledger[u])
  <2>1. /\ Len(ledger'[u]) = n + 1
        /\ \A i \in 1..n : ledger'[u][i] = ledger[u][i]
        /\ ledger'[u][n + 1] = RowOf(view, moves, u)
        /\ balance'[u] = NextBalance(view, moves, u)
    BY <1>3, LedgerStep
  <2>2. ledger'[u][n + 1].balanceAfter = balance[u] + ledger'[u][n + 1].amount
    BY <1>3, <2>1, RowBooked DEF ApplyMoves
  <2>3. n \in Nat
    BY <1>1
  <2>4. balance'[u] = Closing(ledger'[u])
    <3>1. ledger'[u] # <<>>
      BY <2>1, <2>3
    <3>2. ledger'[u][n + 1].balanceAfter = balance'[u]
      BY <1>3, <2>1, RowBooked DEF ApplyMoves
    <3> QED BY <2>1, <3>1, <3>2 DEF Closing
  <2>5. ASSUME NEW i \in 1..(n + 1)
        PROVE  ledger'[u][i].balanceAfter = Opening(ledger'[u], i) + ledger'[u][i].amount
    <3>1. CASE i \in 1..n
      <4>1. Opening(ledger'[u], i) = Opening(ledger[u], i)
        BY <2>1, <2>3, <3>1 DEF Opening
      <4> QED BY <1>1, <2>1, <3>1, <4>1
    <3>2. CASE i = n + 1
      <4>1. Opening(ledger'[u], n + 1) = Closing(ledger[u])
        BY <1>1, <2>1, <2>3 DEF Opening, Closing
      <4> QED BY <1>1, <2>2, <3>2, <4>1
    <3> QED BY <2>3, <3>1, <3>2
  <2> QED BY <2>1, <2>4, <2>5
<1> QED BY <1>2, <1>3

\* A committed transaction uses only keys no row has, and a different one in
\* every wallet it touches.
LEMMA ApplyMovesKeys ==
  ASSUME NEW view, NEW moves, SnapshotOK(view), MovesOK(moves), WalletInv,
         ApplyMoves(view, moves)
  PROVE  KeysMoveOnce'
<1> SUFFICES ASSUME NEW u \in Users, NEW v \in Users,
                    NEW i \in 1..Len(ledger'[u]), NEW j \in 1..Len(ledger'[v]),
                    ledger'[u][i].key = ledger'[v][j].key
             PROVE  u = v /\ i = j
  BY DEF KeysMoveOnce
<1>0. ledger[u] \in Seq(Rows) /\ ledger[v] \in Seq(Rows) /\ DOMAIN ledger = Users
  BY DEF WalletInv, WalletTypeOK
<1>1. Len(ledger[u]) \in Nat /\ Len(ledger[v]) \in Nat
  BY <1>0
<1>2. \/ i \in 1..Len(ledger[u]) /\ ledger'[u][i] = ledger[u][i]
      \/ /\ u \in Fresh(view, moves) /\ i = Len(ledger[u]) + 1
         /\ ledger'[u][i].key = moves[u].key
  BY <1>1, LedgerStep, RowBooked DEF ApplyMoves
<1>3. \/ j \in 1..Len(ledger[v]) /\ ledger'[v][j] = ledger[v][j]
      \/ /\ v \in Fresh(view, moves) /\ j = Len(ledger[v]) + 1
         /\ ledger'[v][j].key = moves[v].key
  BY <1>1, LedgerStep, RowBooked DEF ApplyMoves
<1>4. \A w \in Fresh(view, moves) : ~KeyUsed(ledger, moves[w].key) /\ w \in DOMAIN moves
  BY TouchedIsCurrent DEF ApplyMoves, Fresh
<1>5. CASE i \in 1..Len(ledger[u]) /\ j \in 1..Len(ledger[v])
  <2>1. ledger'[u][i] = ledger[u][i] /\ ledger'[v][j] = ledger[v][j]
    BY <1>1, <1>2, <1>3, <1>5
  <2>2. ledger[u][i].key = ledger[v][j].key
    BY <2>1
  <2> QED BY <1>5, <2>2 DEF WalletInv, KeysMoveOnce
<1>6. CASE i \in 1..Len(ledger[u]) /\ j = Len(ledger[v]) + 1
  BY <1>0, <1>1, <1>2, <1>3, <1>4, <1>6 DEF KeyUsed
<1>7. CASE i = Len(ledger[u]) + 1 /\ j \in 1..Len(ledger[v])
  BY <1>0, <1>1, <1>2, <1>3, <1>4, <1>7 DEF KeyUsed
<1>8. CASE i = Len(ledger[u]) + 1 /\ j = Len(ledger[v]) + 1
  BY <1>1, <1>2, <1>3, <1>4, <1>8 DEF MovesOK
<1> QED BY <1>1, <1>2, <1>3, <1>5, <1>6, <1>7, <1>8

\* The wallets start with clean books.
LEMMA WalletInitInv == WalletInit => WalletInv
BY WalletAssumption DEF WalletInit, WalletInv, WalletTypeOK, LedgerChain,
       KeysMoveOnce, Closing

\* A step that leaves the wallets alone keeps their books.
LEMMA WalletUnchanged == WalletInv /\ UNCHANGED walletVars => WalletInv'
BY DEF walletVars, WalletInv, WalletTypeOK, LedgerChain, KeysMoveOnce

\* The three parts together: a committed transaction keeps the books.
LEMMA ApplyMovesInv ==
  ASSUME NEW view, NEW moves, SnapshotOK(view), MovesOK(moves), WalletInv,
         ApplyMoves(view, moves)
  PROVE  WalletInv'
BY ApplyMovesType, ApplyMovesChain, ApplyMovesKeys DEF WalletInv
\* What a committed transaction does to the rows: every old one stays, and a
\* new one is that of a fresh move.
LEMMA RowsAfter ==
  ASSUME NEW view, NEW moves, SnapshotOK(view), MovesOK(moves), WalletInv,
         ApplyMoves(view, moves), NEW u \in Users
  PROVE  /\ Len(ledger[u]) \in Nat
         /\ \A i \in 1..Len(ledger[u]) :
              i \in 1..Len(ledger'[u]) /\ ledger'[u][i] = ledger[u][i]
         /\ \A i \in 1..Len(ledger'[u]) :
              \/ i \in 1..Len(ledger[u])
              \/ /\ u \in Fresh(view, moves) /\ u \in DOMAIN moves
                 /\ i = Len(ledger[u]) + 1
                 /\ ledger'[u][i].key = moves[u].key
                 /\ ledger'[u][i].amount = moves[u].amount
         /\ u \in Fresh(view, moves) =>
              /\ Len(ledger[u]) + 1 \in 1..Len(ledger'[u])
              /\ ledger'[u][Len(ledger[u]) + 1] = RowOf(view, moves, u)
<1>1. ledger[u] \in Seq(Rows) /\ Len(ledger[u]) \in Nat
  BY DEF WalletInv, WalletTypeOK
<1>2. CASE u \notin Fresh(view, moves)
  BY <1>1, <1>2, LedgerStep
<1>3. CASE u \in Fresh(view, moves)
  <2>1. /\ Len(ledger'[u]) = Len(ledger[u]) + 1
        /\ \A i \in 1..Len(ledger[u]) : ledger'[u][i] = ledger[u][i]
        /\ ledger'[u][Len(ledger[u]) + 1] = RowOf(view, moves, u)
    BY <1>3, LedgerStep
  <2>2. u \in DOMAIN moves
    BY <1>3 DEF Fresh
  <2>3. /\ RowOf(view, moves, u).key = moves[u].key
        /\ RowOf(view, moves, u).amount = moves[u].amount
    BY DEF RowOf
  <2> QED BY <1>1, <1>3, <2>1, <2>2, <2>3
<1> QED BY <1>2, <1>3

\* A key once used stays used, and a commit uses no keys but those of its moves.
LEMMA KeysAfter ==
  ASSUME NEW view, NEW moves, SnapshotOK(view), MovesOK(moves), WalletInv,
         ApplyMoves(view, moves), NEW k
  PROVE  /\ KeyUsed(ledger, k) => KeyUsed(ledger', k)
         /\ KeyUsed(ledger', k) =>
              KeyUsed(ledger, k) \/ \E u \in DOMAIN moves : moves[u].key = k
<1>1. DOMAIN ledger = Users /\ DOMAIN ledger' = Users
  BY DEF WalletInv, WalletTypeOK, ApplyMoves
<1>2. ASSUME KeyUsed(ledger, k) PROVE KeyUsed(ledger', k)
  <2>1. PICK u \in Users : \E i \in 1..Len(ledger[u]) : ledger[u][i].key = k
    BY <1>1, <1>2 DEF KeyUsed
  <2> QED BY <1>1, <2>1, RowsAfter DEF KeyUsed
<1>3. ASSUME KeyUsed(ledger', k)
      PROVE  KeyUsed(ledger, k) \/ \E u \in DOMAIN moves : moves[u].key = k
  <2>1. PICK u \in Users : \E i \in 1..Len(ledger'[u]) : ledger'[u][i].key = k
    BY <1>1, <1>3 DEF KeyUsed
  <2>2. PICK i \in 1..Len(ledger'[u]) : ledger'[u][i].key = k
    BY <2>1
  <2>3. CASE i \in 1..Len(ledger[u])
    BY <1>1, <2>2, <2>3, RowsAfter DEF KeyUsed
  <2>4. CASE i \notin 1..Len(ledger[u])
    BY <2>2, <2>4, RowsAfter
  <2> QED BY <2>3, <2>4
<1> QED BY <1>2, <1>3
=============================================================================
