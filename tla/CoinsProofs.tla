------------------------------- MODULE CoinsProofs -------------------------------
(***************************************************************************)
(* Theorems about Coins for every set of users, posts, packages, events    *)
(* and workers.  The inductive invariant adds to the properties what a     *)
(* suspended request has in hand: its snapshot closes its own books        *)
(* although the wallets have moved on, and its data fits its program       *)
(* counter.                                                                *)
(***************************************************************************)
EXTENDS Coins, CoinWalletProofs, FiniteSetTheorems

---------------------------------------------------------------------------
(* Pricing: facts about prices for every length, rate and total.           *)

\* The two shares of a price are whole, add up to it, and the creator's is 70 %
\* of it up to less than one minor unit.
THEOREM SplitIsExact ==
  \A total \in Nat :
    /\ CreatorShare(total) \in 0..total /\ PlatformFee(total) \in 0..total
    /\ CreatorShare(total) + PlatformFee(total) = total
    /\ 10 * CreatorShare(total) <= 7 * total
    /\ 7 * total < 10 * (CreatorShare(total) + 1)
BY DEF CreatorShare, PlatformFee

\* The computed price is off by at most half a minor unit, and is positive, so
\* that the post can be priced, from half a minor unit on.
THEOREM CostIsRounded ==
  \A numerator \in Nat :
    /\ 2 * Denominator * Rounded(numerator) <= 2 * numerator + Denominator
    /\ 2 * numerator < 2 * Denominator * Rounded(numerator) + Denominator
    /\ Rounded(numerator) > 0 <=> 2 * numerator >= Denominator
BY DEF Rounded, Denominator

\* A larger product never rounds to less.
LEMMA RoundedMonotone ==
  \A m, n \in Nat : m <= n => Rounded(m) <= Rounded(n)
BY DEF Rounded, Denominator

\* The multipliers are positive.
LEMMA Multipliers ==
  \A quality \in Tiers, category \in Categories, production \in Productions :
    QualityNum[quality] * CategoryNum[category] * ProductionNum[production] \in Nat \ {0}
<1>1. \A quality \in Tiers : QualityNum[quality] \in {10, 12, 16}
  BY DEF Tiers, QualityNum
<1>2. \A category \in Categories : CategoryNum[category] \in {10, 15, 20}
  BY DEF Categories, CategoryNum
<1>3. \A production \in Productions : ProductionNum[production] \in {10, 13}
  BY DEF Productions, ProductionNum
<1>. QED
  BY <1>1, <1>2, <1>3

\* A longer post never costs less.
THEOREM LongerCostsMore ==
  \A base, short, long \in Nat, quality \in Tiers, category \in Categories,
     production \in Productions :
    short <= long => CostMinor(base, short, quality, category, production)
                       <= CostMinor(base, long, quality, category, production)
<1>. SUFFICES ASSUME NEW base \in Nat, NEW short \in Nat, NEW long \in Nat,
                     NEW quality \in Tiers, NEW category \in Categories,
                     NEW production \in Productions, short <= long
              PROVE  CostMinor(base, short, quality, category, production)
                       <= CostMinor(base, long, quality, category, production)
  OBVIOUS
<1>. DEFINE factor == QualityNum[quality] * CategoryNum[category] * ProductionNum[production]
<1>1. factor \in Nat
  BY Multipliers
<1>. HIDE DEF factor
<1>2. base * short \in Nat /\ base * long \in Nat /\ base * short <= base * long
  OBVIOUS
<1>3. \A m, n \in Nat : m <= n => m * factor \in Nat /\ n * factor \in Nat
                                  /\ m * factor <= n * factor
  BY <1>1
<1>4. Rounded(base * short * factor) <= Rounded(base * long * factor)
  BY <1>2, <1>3, RoundedMonotone
<1>. QED
  BY <1>4 DEF CostMinor, CostNumerator, factor

---------------------------------------------------------------------------
(* The books: what a request in flight has in hand.                        *)

\* Every request in flight holds a consistent snapshot and the data its next
\* await needs.
CallsOK ==
  \A c \in Workers :
    /\ SnapshotOK(view[c])
    /\ pc[c] # "idle" => req[c] # NoReq
    /\ pc[c] = "reply" => req[c] \in PurchaseReqs

IInv == TypeOK /\ WalletInv /\ CallsOK

---------------------------------------------------------------------------
(* The pure parts.                                                         *)

\* The split of a price never costs more than the price.
LEMMA ShareBounds ==
  ASSUME NEW n \in Nat
  PROVE  CreatorShare(n) \in 0..n /\ PlatformFee(n) \in 0..n
BY SplitIsExact

\* An admin's amount, a price and a package are integers.
LEMMA AmountTypes ==
  /\ \A n \in Prices : n \in Nat /\ CreatorShare(n) \in Int /\ -n \in Int /\ PlatformFee(n) \in Nat
  /\ CoinAmounts \subseteq Int /\ AdminAmounts \subseteq Int
BY CoinsAssumption, ShareBounds

\* What a request asks of its transaction is one move per wallet, under keys
\* that differ.
LEMMA MovesWellFormed ==
  ASSUME NEW r \in Requests, r # NoReq
  PROVE  MovesOK(Moves(r))
<1>1. CASE r \in UnlockReqs
  <2>1. /\ r.kind = "unlock" /\ r.user \in Users /\ r.post \in Posts
        /\ r.price \in Prices /\ r.uuid \in Uuids /\ Author[r.post] \in Users
    BY <1>1, CoinsAssumption DEF UnlockReqs
  <2> DEFINE m == [u \in {r.user, Author[r.post]} |->
                    IF u = r.user
                    THEN [type |-> "SPEND_UNLOCK", amount |-> -r.price,
                          key |-> SpendKey(u, r.post, r.uuid)]
                    ELSE [type |-> "CREATOR_EARN", amount |-> CreatorShare(r.price),
                          key |-> EarnKey(u, r.post, r.uuid)]]
  <2>2. Moves(r) = m
    BY <2>1 DEF Moves
  <2>3. ASSUME NEW u \in DOMAIN m
        PROVE  m[u].type \in TxnTypes /\ m[u].amount \in Int /\ m[u].key \in Keys
    <3>1. SpendKey(u, r.post, r.uuid) \in Keys /\ EarnKey(u, r.post, r.uuid) \in Keys
      BY <2>1, CoinsAssumption
    <3>2. -r.price \in Int /\ CreatorShare(r.price) \in Int
      BY <2>1, AmountTypes
    <3> QED BY <3>1, <3>2 DEF TxnTypes
  <2>4. ASSUME NEW u \in DOMAIN m, NEW v \in DOMAIN m, m[u].key = m[v].key
        PROVE  u = v
    BY <2>4 DEF SpendKey, EarnKey
  <2> QED BY <2>1, <2>2, <2>3, <2>4 DEF MovesOK
<1>2. CASE r \in PurchaseReqs
  <2>1. /\ r.kind = "purchase" /\ r.user \in Users /\ r.ext \in ExternalIds
        /\ r.coins \in Int
    BY <1>2, AmountTypes DEF PurchaseReqs
  <2>2. PurchaseKey(r.ext) \in Keys /\ PurchaseType(r.ext) \in TxnTypes
    BY <2>1, CoinsAssumption DEF PurchaseType, TxnTypes
  <2>3. Moves(r) = [u \in {r.user} |-> [type |-> PurchaseType(r.ext), amount |-> r.coins,
                                        key |-> PurchaseKey(r.ext)]]
    BY <2>1 DEF Moves
  <2> QED BY <2>1, <2>2, <2>3 DEF MovesOK
<1>3. CASE r \in AdjustReqs
  <2>1. /\ r.kind = "adjust" /\ r.user \in Users /\ r.amount \in Int /\ r.key \in AdminKeys
    BY <1>3, AmountTypes DEF AdjustReqs
  <2>2. Moves(r) = [u \in {r.user} |-> [type |-> "ADJUSTMENT", amount |-> r.amount,
                                        key |-> AdminKey(u, r.key)]]
    BY <2>1 DEF Moves
  <2> QED BY <2>1, <2>2, CoinsAssumption DEF MovesOK, TxnTypes
<1> QED BY <1>1, <1>2, <1>3 DEF Requests

---------------------------------------------------------------------------
(* Requests entering, leaving and moving on.                               *)

\* A request outside a transaction has no snapshot, which closes its empty books.
LEMMA NoViewOK == NoView \in Views /\ SnapshotOK(NoView)
BY WalletAssumption DEF NoView, Views, SnapshotOK, Closing

\* No request is no request of any kind.
LEMMA NoReqOutside == NoReq \in Requests /\ NoReq \notin PurchaseReqs
                      /\ NoReq \notin UnlockReqs /\ NoReq \notin AdjustReqs
BY DEF NoReq, Requests, UnlockReqs, PurchaseReqs, AdjustReqs

CallsType ==
  /\ pc \in [Workers -> PCs]
  /\ req \in [Workers -> Requests]
  /\ view \in [Workers -> Views]

\* A request begins.
LEMMA EnterOK ==
  ASSUME NEW c \in Workers, NEW label \in PCs, NEW r \in Requests, r # NoReq,
         label # "reply", CallsType, CallsOK, Enter(c, label, r)
  PROVE  CallsType' /\ CallsOK'
BY DEF Enter, Goto, CallsType, CallsOK

\* A request is over.
LEMMA LeaveOK ==
  ASSUME NEW c \in Workers, CallsType, CallsOK, Leave(c)
  PROVE  CallsType' /\ CallsOK'
BY NoViewOK, NoReqOutside DEF Leave, CallsType, CallsOK, PCs

\* A request goes on to its next await.
LEMMA GotoOK ==
  ASSUME NEW c \in Workers, NEW label \in PCs, CallsType, CallsOK, Goto(c, label),
         pc[c] # "idle", label = "reply" => req[c] \in PurchaseReqs,
         UNCHANGED req,
         view' = view \/ view' = [view EXCEPT ![c] = NoView]
  PROVE  CallsType' /\ CallsOK'
BY NoViewOK DEF Goto, CallsType, CallsOK

\* The kind of a request says which data it carries.
LEMMA KindTells ==
  ASSUME NEW r \in Requests
  PROVE  /\ r.kind = "unlock" => r \in UnlockReqs
         /\ r.kind = "purchase" => r \in PurchaseReqs
         /\ r.kind = "adjust" => r \in AdjustReqs
BY DEF Requests, NoReq, UnlockReqs, PurchaseReqs, AdjustReqs

ShopType ==
  /\ offer \in [Posts -> Prices \cup {0}]
  /\ deleted \subseteq Posts
  /\ unlocks \subseteq Unlocks
  /\ purchases \subseteq Purchases
  /\ packages \in [Packages -> [active: BOOLEAN, coins: CoinAmounts]]
  /\ sessions \in [Sessions -> [user: Users, package: Packages] \cup {NoReq}]
  /\ acked \in [StripeEvents -> {"no", "credited", "skipped"}]
  /\ consumed \subseteq GoogleTokens

\* The invariant by the part of the state each piece is about.
LEMMA IInvParts == IInv <=> WalletInv /\ ShopType /\ CallsType /\ CallsOK
BY DEF IInv, TypeOK, WalletInv, ShopType, CallsType

\* At first the books are empty and nobody is waiting.
LEMMA InitIInv == Init => IInv
<1> SUFFICES ASSUME Init PROVE IInv
  OBVIOUS
<1>1. WalletInv
  BY WalletInitInv DEF Init
<1>2. ShopType
  BY CoinsAssumption DEF Init, ShopType
<1>3. CallsType /\ CallsOK
  BY NoViewOK, NoReqOutside DEF Init, CallsType, CallsOK, PCs
<1> QED BY <1>1, <1>2, <1>3, IInvParts

---------------------------------------------------------------------------
(* One step of the API keeps the invariant.                                *)

\* Authors, admins and shoppers do not touch wallets or requests in flight.
LEMMA ShopSteps ==
  ASSUME IInv,
         \/ \E p \in Posts : DeletePost(p) \/ \E x \in Prices \cup {0} : EditPost(p, x)
         \/ \E k \in Packages, a \in BOOLEAN, n \in CoinAmounts : PatchPackage(k, a, n)
         \/ \E s \in Sessions, u \in Users, k \in Packages :
              CreateStripeCheckoutSession(s, u, k)
  PROVE  ShopType' /\ UNCHANGED <<walletVars, callVars>>
<1>1. ASSUME NEW p \in Posts, DeletePost(p)
      PROVE  ShopType' /\ UNCHANGED <<walletVars, callVars>>
  BY <1>1 DEF IInv, TypeOK, ShopType, DeletePost
<1>2. ASSUME NEW p \in Posts, NEW x \in Prices \cup {0}, EditPost(p, x)
      PROVE  ShopType' /\ UNCHANGED <<walletVars, callVars>>
  BY <1>2 DEF IInv, TypeOK, ShopType, EditPost
<1>3. ASSUME NEW k \in Packages, NEW a \in BOOLEAN, NEW n \in CoinAmounts,
             PatchPackage(k, a, n)
      PROVE  ShopType' /\ UNCHANGED <<walletVars, callVars>>
  BY <1>3 DEF IInv, TypeOK, ShopType, PatchPackage
<1>4. ASSUME NEW s \in Sessions, NEW u \in Users, NEW k \in Packages,
             CreateStripeCheckoutSession(s, u, k)
      PROVE  ShopType' /\ UNCHANGED <<walletVars, callVars>>
  BY <1>4 DEF IInv, TypeOK, ShopType, CreateStripeCheckoutSession
<1> QED BY <1>1, <1>2, <1>3, <1>4

\* A request that arrives brings well-formed data and moves no coins.
LEMMA ArrivalSteps ==
  ASSUME IInv, NEW c \in Workers,
         \/ \E u \in Users, p \in Posts, x \in Uuids : UnlockPost(c, u, p, x)
         \/ \E e \in StripeEvents : Webhook(c, e)
         \/ \E u \in Users, t \in StoreTxns : StoreCredit(c, u, t)
         \/ \E u \in Users, n \in AdminAmounts, k \in AdminKeys : Adjustment(c, u, n, k)
  PROVE  ShopType' /\ CallsType' /\ CallsOK' /\ UNCHANGED walletVars
<1> USE IInvParts
<1>1. ASSUME NEW u \in Users, NEW p \in Posts, NEW x \in Uuids, UnlockPost(c, u, p, x)
      PROVE  ShopType' /\ CallsType' /\ CallsOK' /\ UNCHANGED walletVars
  <2> DEFINE r == [kind |-> "unlock", user |-> u, post |-> p, price |-> offer[p], uuid |-> x]
  <2>1. r \in Requests /\ r # NoReq
    BY <1>1 DEF UnlockPost, ShopType, Requests, UnlockReqs, NoReq
  <2>2. Enter(c, "lookup", r) /\ UNCHANGED <<walletVars, shopVars>>
    BY <1>1 DEF UnlockPost
  <2> QED BY <2>1, <2>2, EnterOK DEF PCs, shopVars, ShopType
<1>2. ASSUME NEW e \in StripeEvents, Webhook(c, e)
      PROVE  ShopType' /\ CallsType' /\ CallsOK' /\ UNCHANGED walletVars
  <2> DEFINE s == sessions[SessionOf[e]]
             r == [kind |-> "purchase", user |-> s.user, ext |-> e,
                   coins |-> packages[s.package].coins]
  <2>1. s.user \in Users /\ s.package \in Packages
    BY <1>2, CoinsAssumption DEF Webhook, ShopType
  <2>2. CASE packages[s.package].active
    <3>1. r \in Requests /\ r # NoReq
      BY <2>1 DEF ShopType, Requests, PurchaseReqs, NoReq, ExternalIds
    <3>2. Enter(c, "lookup", r) /\ UNCHANGED <<walletVars, shopVars>>
      BY <1>2, <2>2 DEF Webhook, shopVars
    <3> QED BY <3>1, <3>2, EnterOK DEF PCs, shopVars, ShopType
  <2>3. CASE ~packages[s.package].active
    <3>1. acked' = [acked EXCEPT ![e] = IF @ = "no" THEN "skipped" ELSE @]
      BY <1>2, <2>3 DEF Webhook
    <3>2. UNCHANGED <<walletVars, offer, deleted, unlocks, purchases, packages,
                      sessions, consumed, callVars>>
      BY <1>2, <2>3 DEF Webhook
    <3> QED BY <3>1, <3>2 DEF ShopType, CallsType, CallsOK, callVars
  <2> QED BY <2>2, <2>3
<1>3. ASSUME NEW u \in Users, NEW t \in StoreTxns, StoreCredit(c, u, t)
      PROVE  ShopType' /\ CallsType' /\ CallsOK' /\ UNCHANGED walletVars
  <2> DEFINE r == [kind |-> "purchase", user |-> u, ext |-> t,
                   coins |-> packages[ProductOf[t]].coins]
  <2>1. r \in Requests /\ r # NoReq
    BY CoinsAssumption DEF ShopType, Requests, PurchaseReqs, NoReq, ExternalIds
  <2>2. Enter(c, "begin", r) /\ UNCHANGED <<walletVars, shopVars>>
    BY <1>3 DEF StoreCredit
  <2> QED BY <2>1, <2>2, EnterOK DEF PCs, shopVars, ShopType
<1>4. ASSUME NEW u \in Users, NEW n \in AdminAmounts, NEW k \in AdminKeys,
             Adjustment(c, u, n, k)
      PROVE  ShopType' /\ CallsType' /\ CallsOK' /\ UNCHANGED walletVars
  <2> DEFINE r == [kind |-> "adjust", user |-> u, amount |-> n, key |-> k]
  <2>1. r \in Requests /\ r # NoReq
    BY DEF Requests, AdjustReqs, NoReq
  <2>2. Enter(c, "begin", r) /\ UNCHANGED <<walletVars, shopVars>>
    BY <1>4 DEF Adjustment
  <2> QED BY <2>1, <2>2, EnterOK DEF PCs, shopVars, ShopType
<1> QED BY <1>1, <1>2, <1>3, <1>4

\* What a request's own step does to the wallets: nothing, or the moves of its
\* transaction, applied to a sound snapshot.
WalletStep(c) ==
  \/ UNCHANGED walletVars
  \/ /\ SnapshotOK(view[c]) /\ MovesOK(Moves(req[c]))
     /\ ApplyMoves(view[c], Moves(req[c]))

\* The request in hand of a committing worker is well formed.
LEMMA CommitReady ==
  ASSUME IInv, NEW c \in Workers, pc[c] = "commit"
  PROVE  SnapshotOK(view[c]) /\ req[c] \in Requests /\ MovesOK(Moves(req[c]))
BY IInvParts, MovesWellFormed DEF CallsOK, CallsType

\* The awaits of a request, its commit, its end and its loss in a crash.
LEMMA RequestSteps ==
  ASSUME IInv, NEW c \in Workers, Step(c) \/ Crash(c)
  PROVE  ShopType' /\ CallsType' /\ CallsOK' /\ WalletStep(c)
<1> USE IInvParts
<1>0. req[c] \in Requests
  BY DEF CallsType
<1>1. CASE Lookup(c)
  <2>1. CASE Leave(c)
    BY <1>1, <2>1, LeaveOK DEF Lookup, shopVars, ShopType, WalletStep
  <2>2. CASE Goto(c, "reply") /\ req[c].kind = "purchase" /\ UNCHANGED <<req, view>>
    BY <1>0, <1>1, <2>2, GotoOK, KindTells DEF Lookup, shopVars, ShopType, WalletStep, PCs
  <2>3. CASE Goto(c, "begin") /\ UNCHANGED <<req, view>>
    BY <1>1, <2>3, GotoOK DEF Lookup, shopVars, ShopType, WalletStep, PCs
  <2> QED BY <1>1, <2>1, <2>2, <2>3 DEF Lookup
<1>2. CASE BeginTx(c)
  <2> DEFINE now == [balance |-> balance, ledger |-> ledger, bought |-> Bought]
  <2>1. now \in Views /\ SnapshotOK(now)
    BY DEF WalletInv, WalletTypeOK, LedgerChain, Views, SnapshotOK, ShopType,
           Purchases, Bought
  <2>2. /\ view' = [view EXCEPT ![c] = now] /\ Goto(c, "commit") /\ pc[c] = "begin"
        /\ UNCHANGED <<walletVars, shopVars, req>>
    BY <1>2 DEF BeginTx
  <2>3. CallsType' /\ CallsOK'
    BY <2>1, <2>2 DEF Goto, CallsType, CallsOK, PCs
  <2> QED BY <2>2, <2>3 DEF shopVars, ShopType, WalletStep
<1>3. CASE CommitUnlock(c)
  <2>1. /\ pc[c] = "commit" /\ req[c].kind = "unlock"
        /\ ApplyMoves(view[c], Moves(req[c])) /\ Leave(c)
        /\ unlocks' = unlocks \cup {[user |-> req[c].user, post |-> req[c].post,
                                     paid |-> req[c].price,
                                     fee |-> PlatformFee(req[c].price)]}
        /\ UNCHANGED <<offer, deleted, purchases, packages, sessions, acked, consumed>>
    BY <1>3 DEF CommitUnlock
  <2>2. req[c] \in UnlockReqs
    BY <1>0, <2>1, KindTells
  <2>3. unlocks' \subseteq Unlocks
    BY <2>1, <2>2, AmountTypes DEF UnlockReqs, Unlocks, ShopType
  <2>4. WalletStep(c)
    BY <2>1, CommitReady DEF WalletStep
  <2> QED BY <2>1, <2>3, <2>4, LeaveOK DEF ShopType
<1>4. CASE CommitPurchase(c)
  <2>1. /\ pc[c] = "commit" /\ req[c].kind = "purchase"
        /\ ApplyMoves(view[c], Moves(req[c])) /\ Goto(c, "reply")
        /\ purchases' = purchases \cup {[ext |-> req[c].ext, user |-> req[c].user,
                                         coins |-> req[c].coins]}
        /\ view' = [view EXCEPT ![c] = NoView]
        /\ UNCHANGED <<offer, deleted, unlocks, packages, sessions, acked, consumed, req>>
    BY <1>4 DEF CommitPurchase
  <2>2. req[c] \in PurchaseReqs
    BY <1>0, <2>1, KindTells
  <2>3. purchases' \subseteq Purchases
    BY <2>1, <2>2 DEF PurchaseReqs, Purchases, ShopType
  <2>4. WalletStep(c)
    BY <2>1, CommitReady DEF WalletStep
  <2> QED BY <2>1, <2>2, <2>3, <2>4, GotoOK DEF ShopType, PCs
<1>5. CASE FindPurchase(c)
  <2>1. /\ pc[c] = "commit" /\ req[c].kind = "purchase" /\ Goto(c, "reply")
        /\ view' = [view EXCEPT ![c] = NoView] /\ UNCHANGED <<walletVars, shopVars, req>>
    BY <1>5 DEF FindPurchase
  <2> QED BY <1>0, <2>1, KindTells, GotoOK DEF PCs, shopVars, ShopType, WalletStep
<1>6. CASE CommitAdjustment(c)
  <2>1. /\ pc[c] = "commit" /\ ApplyMoves(view[c], Moves(req[c])) /\ Leave(c)
        /\ UNCHANGED shopVars
    BY <1>6 DEF CommitAdjustment
  <2> QED BY <2>1, CommitReady, LeaveOK DEF shopVars, ShopType, WalletStep
<1>7. CASE AbortTx(c)
  BY <1>7, LeaveOK DEF AbortTx, shopVars, ShopType, WalletStep
<1>8. CASE Reply(c)
  <2>1. req[c].ext \in ExternalIds
    BY <1>8 DEF Reply, CallsOK, PurchaseReqs
  <2>2. acked' \in [StripeEvents -> {"no", "credited", "skipped"}]
    BY <1>8 DEF Reply, ShopType
  <2>3. consumed' \subseteq GoogleTokens
    BY <1>8 DEF Reply, ShopType
  <2> QED BY <1>8, <2>2, <2>3, LeaveOK DEF Reply, ShopType, WalletStep
<1>9. CASE Crash(c)
  BY <1>9, LeaveOK DEF Crash, shopVars, ShopType, WalletStep
<1> QED BY <1>1, <1>2, <1>3, <1>4, <1>5, <1>6, <1>7, <1>8, <1>9 DEF Step

\* Every step of the API either leaves the wallets alone or commits the moves
\* of one request from a sound snapshot; either way the invariant is kept.
LEMMA NextIInv ==
  ASSUME IInv, [Next]_vars
  PROVE  IInv' /\ (UNCHANGED walletVars \/ \E c \in Workers : WalletStep(c))
<1>1. WalletInv /\ ShopType /\ CallsType /\ CallsOK
  BY IInvParts
<1>2. WalletInv' /\ ShopType' /\ CallsType' /\ CallsOK' => IInv'
  BY DEF IInv, TypeOK, WalletInv, ShopType, CallsType
<1>3. CASE \/ \E p \in Posts : DeletePost(p) \/ \E x \in Prices \cup {0} : EditPost(p, x)
           \/ \E k \in Packages, a \in BOOLEAN, n \in CoinAmounts : PatchPackage(k, a, n)
           \/ \E s \in Sessions, u \in Users, k \in Packages :
                CreateStripeCheckoutSession(s, u, k)
  <2>1. ShopType' /\ UNCHANGED <<walletVars, callVars>>
    BY <1>3, ShopSteps
  <2>2. CallsType' /\ CallsOK'
    BY <1>1, <2>1 DEF callVars, CallsType, CallsOK
  <2> QED BY <1>1, <1>2, <2>1, <2>2, WalletUnchanged
<1>4. ASSUME NEW c \in Workers,
             \/ \E u \in Users, p \in Posts, x \in Uuids : UnlockPost(c, u, p, x)
             \/ \E e \in StripeEvents : Webhook(c, e)
             \/ \E u \in Users, t \in StoreTxns : StoreCredit(c, u, t)
             \/ \E u \in Users, n \in AdminAmounts, k \in AdminKeys : Adjustment(c, u, n, k)
      PROVE  IInv' /\ UNCHANGED walletVars
  <2>1. ShopType' /\ CallsType' /\ CallsOK' /\ UNCHANGED walletVars
    BY <1>4, ArrivalSteps
  <2> QED BY <1>1, <1>2, <2>1, WalletUnchanged
<1>5. ASSUME NEW c \in Workers, Step(c) \/ Crash(c)
      PROVE  IInv' /\ WalletStep(c)
  <2>1. ShopType' /\ CallsType' /\ CallsOK' /\ WalletStep(c)
    BY <1>5, RequestSteps
  <2>2. CASE UNCHANGED walletVars
    BY <1>1, <1>2, <2>1, <2>2, WalletUnchanged
  <2>3. CASE ~UNCHANGED walletVars
    <3>1. /\ SnapshotOK(view[c]) /\ MovesOK(Moves(req[c]))
          /\ ApplyMoves(view[c], Moves(req[c]))
      BY <2>1, <2>3 DEF WalletStep
    <3> QED BY <1>1, <1>2, <2>1, <3>1, ApplyMovesInv
  <2> QED BY <2>1, <2>2, <2>3
<1>6. CASE UNCHANGED vars
  <2>1. UNCHANGED <<walletVars, shopVars, callVars>>
    BY <1>6 DEF vars
  <2>2. ShopType'
    BY <1>1, <2>1 DEF shopVars, ShopType
  <2>3. CallsType' /\ CallsOK'
    BY <1>1, <2>1 DEF callVars, CallsType, CallsOK
  <2> QED BY <1>1, <1>2, <2>1, <2>2, <2>3, WalletUnchanged
<1> QED BY <1>3, <1>4, <1>5, <1>6 DEF Next

\* The books, and what suspended requests have in hand (IInv), in every state.
THEOREM Invariance == Spec => []IInv
<1>1. IInv /\ [Next]_vars => IInv'
  BY NextIInv
<1> QED BY InitIInv, <1>1, PTL DEF Spec

\* Every reachable state is well typed.
THEOREM TypeCorrect == Spec => []TypeOK
BY Invariance, PTL DEF IInv

\* No interleaving of requests, crashes and redeliveries breaks the audit trail
\* of a wallet (coin-wallet.service.ts, applyDeltaTx and runWalletTransaction).
THEOREM AuditTrail == Spec => []LedgerChain
BY Invariance, PTL DEF IInv, WalletInv

\* An idempotency key moves coins at most once, in at most one wallet.
THEOREM Idempotency == Spec => []KeysMoveOnce
BY Invariance, PTL DEF IInv, WalletInv

---------------------------------------------------------------------------
(* Coins implements the abstract journal.                                  *)

\* A committed transaction is one posting of the journal.
LEMMA ApplyMovesPosts ==
  ASSUME NEW vw, NEW moves, SnapshotOK(vw), MovesOK(moves), WalletInv,
         ApplyMoves(vw, moves)
  PROVE  Journal!Post
<1>1. DOMAIN ledger' = Users /\ DOMAIN balance' = Users
  BY DEF ApplyMoves
<1>2. \A u \in Users : Len(ledger[u]) \in Nat
  BY DEF WalletInv, WalletTypeOK
<1>3. ASSUME NEW u \in Users, u \in Fresh(vw, moves)
      PROVE  /\ ledger'[u] # <<>> /\ Journal!Books(u, Journal!LastRow(u))
             /\ Journal!LastRow(u).key = moves[u].key
  <2>1. /\ Len(ledger'[u]) = Len(ledger[u]) + 1
        /\ ledger'[u] = Append(ledger[u], ledger'[u][Len(ledger[u]) + 1])
        /\ ledger'[u][Len(ledger[u]) + 1] = RowOf(vw, moves, u)
        /\ balance'[u] = NextBalance(vw, moves, u)
    BY <1>3, LedgerStep
  <2>2. Journal!LastRow(u) = RowOf(vw, moves, u)
    BY <2>1 DEF Journal!LastRow
  <2>3. Journal!Unseen(RowOf(vw, moves, u).key)
    <3>1. ~KeyUsed(ledger, moves[u].key) /\ DOMAIN ledger = Users
      BY <1>3, TouchedIsCurrent DEF ApplyMoves, WalletInv, WalletTypeOK
    <3> QED BY <3>1 DEF RowOf, KeyUsed, Journal!Unseen
  <2>4. ledger'[u] # <<>>
    BY <1>2, <2>1
  <2> QED BY <1>3, <2>1, <2>2, <2>3, <2>4, RowBooked DEF ApplyMoves, Journal!Books
<1>4. ASSUME NEW u \in Users, u \notin Fresh(vw, moves)
      PROVE  Journal!Keeps(u)
  BY <1>4, LedgerStep DEF Journal!Keeps
<1>5. ASSUME NEW u \in Users, NEW v \in Users, u # v, ~Journal!Keeps(u), ~Journal!Keeps(v)
      PROVE  Journal!LastRow(u).key # Journal!LastRow(v).key
  <2>1. u \in Fresh(vw, moves) /\ v \in Fresh(vw, moves)
    BY <1>4, <1>5
  <2> QED BY <1>3, <1>5, <2>1 DEF Fresh, MovesOK
<1> QED BY <1>1, <1>3, <1>4, <1>5 DEF Journal!Post

\* For every instance, the snapshots, commits, aborts and crashes of the wallet
\* transactions are invisible: coins move one atomic posting at a time.
THEOREM Refinement == Spec => ImplementsLedger
<1>1. Init => Journal!Init
  BY DEF Init, WalletInit, Journal!Init
<1>2. IInv /\ [Next]_vars => [Journal!Post]_<<balance, ledger>>
  <2> SUFFICES ASSUME IInv, [Next]_vars PROVE [Journal!Post]_<<balance, ledger>>
    OBVIOUS
  <2>1. CASE UNCHANGED walletVars
    BY <2>1 DEF walletVars
  <2>2. ASSUME NEW c \in Workers, WalletStep(c), ~UNCHANGED walletVars
        PROVE  Journal!Post
    BY <2>2, ApplyMovesPosts DEF WalletStep, IInv
  <2> QED BY <2>1, <2>2, NextIInv
<1> QED BY <1>1, <1>2, Invariance, PTL DEF Spec, ImplementsLedger, Journal!Spec
---------------------------------------------------------------------------
(* Purchases: what is credited, and what the outside world is told.        *)

\* A snapshot lags behind the tables: whatever it holds, they hold.
ViewsLag ==
  \A c \in Workers :
    /\ view[c].bought \subseteq Bought
    /\ \A k \in Keys : KeyUsed(view[c].ledger, k) => KeyUsed(ledger, k)

\* A request that is about to answer "credited" has its purchase row.
RepliesCredited ==
  \A c \in Workers : pc[c] = "reply" => req[c].ext \in Bought

\* The inductive invariant of purchases, on top of IInv.
PurchaseInv == CreditedOnce /\ DoneMeansCredited /\ ViewsLag /\ RepliesCredited

\* Keys built for different purposes, or from different parts, differ.
LEMMA KeysDiffer ==
  /\ \A u, v, p, q, x, y :
       /\ SpendKey(u, p, x) = SpendKey(v, q, y) => u = v /\ p = q /\ x = y
       /\ EarnKey(u, p, x) = EarnKey(v, q, y) => u = v /\ p = q /\ x = y
       /\ SpendKey(u, p, x) # EarnKey(v, q, y)
  /\ \A u, p, x, e : PurchaseKey(e) # SpendKey(u, p, x) /\ PurchaseKey(e) # EarnKey(u, p, x)
  /\ \A e, f : PurchaseKey(e) = PurchaseKey(f) => e = f
  /\ \A v, k, u, p, x : AdminKey(v, k) # SpendKey(u, p, x) /\ AdminKey(v, k) # EarnKey(u, p, x)
  /\ \A v, k, e : AdminKey(v, k) # PurchaseKey(e)
BY DEF SpendKey, EarnKey, PurchaseKey, AdminKey

\* What the moves of each kind of request are.
LEMMA UnlockMoves ==
  ASSUME NEW r \in UnlockReqs
  PROVE  /\ DOMAIN Moves(r) = {r.user, Author[r.post]}
         /\ \A u \in DOMAIN Moves(r) :
              Moves(r)[u].key \in {SpendKey(r.user, r.post, r.uuid),
                                  EarnKey(Author[r.post], r.post, r.uuid)}
         /\ Moves(r)[r.user].type = "SPEND_UNLOCK"
         /\ Moves(r)[r.user].amount = -r.price
         /\ Moves(r)[r.user].key = SpendKey(r.user, r.post, r.uuid)
         /\ Author[r.post] # r.user =>
              /\ Moves(r)[Author[r.post]].amount = CreatorShare(r.price)
              /\ Moves(r)[Author[r.post]].key = EarnKey(Author[r.post], r.post, r.uuid)
<1>1. r.kind = "unlock"
  BY DEF UnlockReqs
<1> QED BY <1>1 DEF Moves

\* A purchase moves its coins under the key of its event or receipt.
LEMMA PurchaseMoves ==
  ASSUME NEW r \in PurchaseReqs
  PROVE  /\ DOMAIN Moves(r) = {r.user}
         /\ Moves(r)[r.user].amount = r.coins
         /\ Moves(r)[r.user].key = PurchaseKey(r.ext)
<1>1. r.kind = "purchase"
  BY DEF PurchaseReqs
<1> QED BY <1>1 DEF Moves

\* An adjustment moves coins under the key the admin chose.
LEMMA AdjustMoves ==
  ASSUME NEW r \in AdjustReqs
  PROVE  /\ DOMAIN Moves(r) = {r.user}
         /\ Moves(r)[r.user].type = "ADJUSTMENT"
         /\ Moves(r)[r.user].key = AdminKey(r.user, r.key)
<1>1. r.kind = "adjust"
  BY DEF AdjustReqs
<1> QED BY <1>1 DEF Moves

\* The snapshot BeginTx takes.
Now == [balance |-> balance, ledger |-> ledger, bought |-> Bought]

\* A step that writes no purchase and moves no coins keeps the purchases right,
\* as long as it reports only what is there.
LEMMA PurchasesStay ==
  ASSUME PurchaseInv, TypeOK, UNCHANGED <<walletVars, purchases>>,
         \A e \in StripeEvents : acked'[e] = "credited" => e \in Bought,
         consumed' \subseteq Bought,
         \A d \in Workers : view'[d] \in {view[d], NoView, Now},
         \A d \in Workers : pc'[d] = "reply" => req'[d].ext \in Bought
  PROVE  PurchaseInv'
<1>1. Bought' = Bought /\ ledger' = ledger
  BY DEF Bought, walletVars
<1>2. CreditedOnce'
  BY DEF PurchaseInv, CreditedOnce, walletVars
<1>3. DoneMeansCredited' /\ RepliesCredited'
  BY <1>1 DEF DoneMeansCredited, RepliesCredited
<1>4. ViewsLag'
  <2> SUFFICES ASSUME NEW d \in Workers
               PROVE  /\ view'[d].bought \subseteq Bought
                      /\ \A k \in Keys : KeyUsed(view'[d].ledger, k) => KeyUsed(ledger, k)
    BY <1>1 DEF ViewsLag
  <2>1. CASE view'[d] = view[d]
    BY <2>1 DEF PurchaseInv, ViewsLag
  <2>2. CASE view'[d] = NoView
    BY <2>2 DEF NoView, KeyUsed
  <2>3. CASE view'[d] = Now
    BY <2>3 DEF Now
  <2> QED BY <2>1, <2>2, <2>3
<1> QED BY <1>2, <1>3, <1>4 DEF PurchaseInv

\* A commit leaves the snapshots of the others behind the tables, and its own
\* is dropped.
LEMMA ViewsStayBehind ==
  ASSUME IInv, PurchaseInv, NEW c \in Workers, pc[c] = "commit",
         ApplyMoves(view[c], Moves(req[c])), purchases \subseteq purchases',
         view' = [view EXCEPT ![c] = NoView]
  PROVE  ViewsLag' /\ Bought \subseteq Bought'
<1>1. Bought \subseteq Bought'
  BY DEF Bought
<1>2. SnapshotOK(view[c]) /\ MovesOK(Moves(req[c])) /\ WalletInv
  BY CommitReady, IInvParts
<1> SUFFICES ASSUME NEW d \in Workers
             PROVE  /\ view'[d].bought \subseteq Bought'
                    /\ \A k \in Keys : KeyUsed(view'[d].ledger, k) => KeyUsed(ledger', k)
  BY <1>1 DEF ViewsLag
<1>3. CASE d = c
  <2>1. view'[d] = NoView
    BY <1>3 DEF IInv, TypeOK
  <2> QED BY <2>1 DEF NoView, KeyUsed
<1>4. CASE d # c
  <2>1. view'[d] = view[d]
    BY <1>4 DEF IInv, TypeOK
  <2> QED BY <1>1, <1>2, <2>1, KeysAfter DEF PurchaseInv, ViewsLag
<1> QED BY <1>3, <1>4

\* A key that no row has is in no snapshot either: its move is fresh.
LEMMA UnusedIsFresh ==
  ASSUME PurchaseInv, NEW c \in Workers, NEW moves, MovesOK(moves),
         NEW u \in DOMAIN moves, ~KeyUsed(ledger, moves[u].key)
  PROVE  u \in Fresh(view[c], moves)
BY DEF PurchaseInv, ViewsLag, MovesOK, Fresh

\* A commit of anything but a purchase: no purchase key is used by it.
LEMMA OtherCommitsKeepPurchases ==
  ASSUME IInv, PurchaseInv, NEW c \in Workers, pc[c] = "commit",
         req[c].kind # "purchase",
         ApplyMoves(view[c], Moves(req[c])), Leave(c),
         UNCHANGED <<purchases, acked, consumed>>
  PROVE  PurchaseInv'
<1>1. /\ SnapshotOK(view[c]) /\ MovesOK(Moves(req[c])) /\ WalletInv
      /\ req[c] \in UnlockReqs \cup AdjustReqs
  BY CommitReady, IInvParts DEF CallsOK, Requests, PurchaseReqs
<1>2. ViewsLag' /\ Bought' = Bought
  BY ViewsStayBehind DEF Leave, Bought
<1>3. \A u \in DOMAIN Moves(req[c]), e \in ExternalIds : Moves(req[c])[u].key # PurchaseKey(e)
  <2> SUFFICES ASSUME NEW u \in DOMAIN Moves(req[c]), NEW e \in ExternalIds
               PROVE  Moves(req[c])[u].key # PurchaseKey(e)
    OBVIOUS
  <2>1. CASE req[c] \in UnlockReqs
    <3>1. Moves(req[c])[u].key
            \in {SpendKey(req[c].user, req[c].post, req[c].uuid),
                 EarnKey(Author[req[c].post], req[c].post, req[c].uuid)}
      BY <2>1, UnlockMoves
    <3> QED BY <3>1, KeysDiffer
  <2>2. CASE req[c] \in AdjustReqs
    <3>1. Moves(req[c])[u].key = AdminKey(req[c].user, req[c].key)
      BY <2>2, AdjustMoves
    <3> QED BY <3>1, KeysDiffer
  <2> QED BY <1>1, <2>1, <2>2
<1>4. CreditedOnce'
  <2>1. ASSUME NEW u \in Users, NEW i \in 1..Len(ledger'[u]), NEW e \in ExternalIds,
               ledger'[u][i].key = PurchaseKey(e)
        PROVE  [ext |-> e, user |-> u, coins |-> ledger'[u][i].amount] \in purchases
    <3>1. i \in 1..Len(ledger[u]) /\ ledger'[u][i] = ledger[u][i]
      BY <1>1, <1>3, <2>1, RowsAfter
    <3> QED BY <2>1, <3>1 DEF PurchaseInv, CreditedOnce
  <2>2. ASSUME NEW b \in purchases
        PROVE  \E i \in 1..Len(ledger'[b.user]) : ledger'[b.user][i].key = PurchaseKey(b.ext)
    <3>1. b.user \in Users
      BY DEF IInv, TypeOK, Purchases
    <3>2. PICK i \in 1..Len(ledger[b.user]) : ledger[b.user][i].key = PurchaseKey(b.ext)
      BY DEF PurchaseInv, CreditedOnce
    <3> QED BY <1>1, <3>1, <3>2, RowsAfter
  <2> QED BY <2>1, <2>2 DEF PurchaseInv, CreditedOnce
<1>5. DoneMeansCredited' /\ RepliesCredited'
  BY <1>2 DEF PurchaseInv, DoneMeansCredited, RepliesCredited, Leave, IInv, TypeOK
<1> QED BY <1>2, <1>4, <1>5 DEF PurchaseInv

\* The commit of a purchase: under the unique index its event is new, so its
\* key is, so the credit is made.
LEMMA CommitPurchaseKeeps ==
  ASSUME IInv, PurchaseInv, NEW c \in Workers, CommitPurchase(c)
  PROVE  PurchaseInv'
<1> DEFINE r == req[c]
           new == [ext |-> r.ext, user |-> r.user, coins |-> r.coins]
<1>1. /\ pc[c] = "commit" /\ r.kind = "purchase" /\ r.ext \notin Bought
      /\ ApplyMoves(view[c], Moves(r)) /\ Goto(c, "reply")
      /\ purchases' = purchases \cup {new}
      /\ view' = [view EXCEPT ![c] = NoView]
      /\ UNCHANGED <<acked, consumed, req>>
  BY DEF CommitPurchase
<1>2. SnapshotOK(view[c]) /\ MovesOK(Moves(r)) /\ WalletInv /\ r \in PurchaseReqs
  BY <1>1, CommitReady, IInvParts, KindTells
<1>3. ViewsLag' /\ Bought \subseteq Bought' /\ r.ext \in Bought'
  <2>1. new \in purchases' /\ purchases \subseteq purchases' /\ new.ext = r.ext
    BY <1>1
  <2>2. r.ext \in Bought'
    BY <2>1 DEF Bought
  <2> QED BY <1>1, <2>1, <2>2, ViewsStayBehind
<1>4. r.user \in Users /\ r.ext \in ExternalIds /\ PurchaseKey(r.ext) \in Keys
  BY <1>2, CoinsAssumption DEF PurchaseReqs
<1>5. r.user \in Fresh(view[c], Moves(r))
  <2>1. ~KeyUsed(ledger, PurchaseKey(r.ext))
    <3> SUFFICES ASSUME KeyUsed(ledger, PurchaseKey(r.ext)) PROVE FALSE
      OBVIOUS
    <3>1. PICK u \in Users : \E i \in 1..Len(ledger[u]) : ledger[u][i].key = PurchaseKey(r.ext)
      BY <1>2 DEF KeyUsed, WalletInv, WalletTypeOK
    <3>2. PICK i \in 1..Len(ledger[u]) : ledger[u][i].key = PurchaseKey(r.ext)
      BY <3>1
    <3>3. [ext |-> r.ext, user |-> u, coins |-> ledger[u][i].amount] \in purchases
      BY <1>4, <3>2 DEF PurchaseInv, CreditedOnce
    <3>4. r.ext \in Bought
      BY <3>3 DEF Bought
    <3> QED BY <1>1, <3>4
  <2> QED BY <1>2, <2>1, PurchaseMoves, UnusedIsFresh
<1>6. CreditedOnce'
  <2>1. ASSUME NEW a \in purchases', NEW b \in purchases', a.ext = b.ext PROVE a = b
    BY <1>1, <2>1 DEF PurchaseInv, CreditedOnce, Bought
  <2>2. ASSUME NEW u \in Users, NEW i \in 1..Len(ledger'[u]), NEW e \in ExternalIds,
               ledger'[u][i].key = PurchaseKey(e)
        PROVE  [ext |-> e, user |-> u, coins |-> ledger'[u][i].amount] \in purchases'
    <3>1. CASE i \in 1..Len(ledger[u])
      BY <1>1, <1>2, <2>2, <3>1, RowsAfter DEF PurchaseInv, CreditedOnce
    <3>2. CASE i \notin 1..Len(ledger[u])
      <4>1. /\ u = r.user /\ ledger'[u][i].key = PurchaseKey(r.ext)
            /\ ledger'[u][i].amount = r.coins
        <5>1. /\ u \in DOMAIN Moves(r) /\ ledger'[u][i].key = Moves(r)[u].key
              /\ ledger'[u][i].amount = Moves(r)[u].amount
          BY <1>1, <1>2, <2>2, <3>2, RowsAfter
        <5> QED BY <1>2, <5>1, PurchaseMoves
      <4> QED BY <1>1, <2>2, <4>1, KeysDiffer
    <3> QED BY <3>1, <3>2
  <2>3. ASSUME NEW b \in purchases'
        PROVE  \E i \in 1..Len(ledger'[b.user]) : ledger'[b.user][i].key = PurchaseKey(b.ext)
    <3>1. CASE b \in purchases
      <4>1. b.user \in Users
        BY <3>1 DEF IInv, TypeOK, Purchases
      <4>2. PICK i \in 1..Len(ledger[b.user]) : ledger[b.user][i].key = PurchaseKey(b.ext)
        BY <3>1 DEF PurchaseInv, CreditedOnce
      <4> QED BY <1>1, <1>2, <4>1, <4>2, RowsAfter
    <3>2. CASE b = new
      <4>1. /\ Len(ledger[r.user]) + 1 \in 1..Len(ledger'[r.user])
            /\ ledger'[r.user][Len(ledger[r.user]) + 1] = RowOf(view[c], Moves(r), r.user)
        BY <1>1, <1>2, <1>4, <1>5, RowsAfter
      <4>2. RowOf(view[c], Moves(r), r.user).key = PurchaseKey(r.ext)
        BY <1>2, PurchaseMoves DEF RowOf
      <4> QED BY <3>2, <4>1, <4>2
    <3> QED BY <1>1, <3>1, <3>2
  <2> QED BY <2>1, <2>2, <2>3 DEF CreditedOnce
<1>7. DoneMeansCredited'
  BY <1>1, <1>3 DEF PurchaseInv, DoneMeansCredited
<1>8. RepliesCredited'
  BY <1>1, <1>3 DEF PurchaseInv, RepliesCredited, Goto, IInv, TypeOK
<1> QED BY <1>3, <1>6, <1>7, <1>8 DEF PurchaseInv

\* At first nothing is bought.
LEMMA InitPurchaseInv == Init => PurchaseInv
<1> SUFFICES ASSUME Init PROVE PurchaseInv
  OBVIOUS
<1>1. CreditedOnce /\ DoneMeansCredited
  BY DEF Init, WalletInit, CreditedOnce, DoneMeansCredited
<1>2. ViewsLag /\ RepliesCredited
  BY DEF Init, NoView, KeyUsed, ViewsLag, RepliesCredited
<1> QED BY <1>1, <1>2 DEF PurchaseInv

\* The answers of a step that has just begun, found its work done, or ended.
LEMMA NextPurchaseInv ==
  ASSUME IInv, PurchaseInv, [Next]_vars
  PROVE  PurchaseInv'
<1> USE DEF PurchaseInv
<1>0. /\ TypeOK
      /\ \A e \in StripeEvents : acked[e] = "credited" => e \in Bought
      /\ consumed \subseteq Bought
      /\ \A d \in Workers : view[d] \in {view[d], NoView, Now}
      /\ \A d \in Workers : pc[d] = "reply" => req[d].ext \in Bought
  BY DEF IInv, DoneMeansCredited, RepliesCredited
<1>1. CASE UNCHANGED <<walletVars, purchases, acked, consumed, callVars>>
  BY <1>0, <1>1, PurchasesStay DEF callVars
<1>2. ASSUME NEW c \in Workers, NEW r, Enter(c, "lookup", r) \/ Enter(c, "begin", r),
             UNCHANGED <<walletVars, shopVars>>
      PROVE  PurchaseInv'
  <2>1. \A d \in Workers : pc'[d] = "reply" => pc[d] = "reply" /\ req'[d] = req[d]
    BY <1>0, <1>2 DEF Enter, Goto, TypeOK
  <2>2. view' = view /\ UNCHANGED <<walletVars, purchases, acked, consumed>>
    BY <1>2 DEF Enter, shopVars
  <2> QED BY <1>0, <2>1, <2>2, PurchasesStay
<1>3. ASSUME NEW c \in Workers, Leave(c), UNCHANGED <<walletVars, purchases>>,
             \A e \in StripeEvents : acked'[e] = "credited" => e \in Bought,
             consumed' \subseteq Bought
      PROVE  PurchaseInv'
  <2>1. \A d \in Workers : pc'[d] = "reply" => pc[d] = "reply" /\ req'[d] = req[d]
    BY <1>0, <1>3 DEF Leave, TypeOK
  <2>2. \A d \in Workers : view'[d] \in {view[d], NoView, Now}
    BY <1>0, <1>3 DEF Leave, TypeOK
  <2> QED BY <1>0, <1>3, <2>1, <2>2, PurchasesStay
<1>4. ASSUME NEW c \in Workers, NEW l \in PCs, Goto(c, l), req' = req,
             l = "reply" => req[c].ext \in Bought,
             \/ view' = view
             \/ view' = [view EXCEPT ![c] = NoView]
             \/ view' = [view EXCEPT ![c] = Now],
             UNCHANGED <<walletVars, shopVars>>
      PROVE  PurchaseInv'
  <2>1. \A d \in Workers : pc'[d] = "reply" => req'[d].ext \in Bought
    BY <1>0, <1>4 DEF Goto, TypeOK
  <2>2. \A d \in Workers : view'[d] \in {view[d], NoView, Now}
    BY <1>0, <1>4 DEF TypeOK
  <2>3. UNCHANGED <<walletVars, purchases, acked, consumed>>
    BY <1>4 DEF shopVars
  <2> QED BY <1>0, <2>1, <2>2, <2>3, PurchasesStay
<1>5. CASE \/ \E p \in Posts : DeletePost(p) \/ \E x \in Prices \cup {0} : EditPost(p, x)
           \/ \E k \in Packages, a \in BOOLEAN, n \in CoinAmounts : PatchPackage(k, a, n)
           \/ \E s \in Sessions, u \in Users, k \in Packages :
                CreateStripeCheckoutSession(s, u, k)
  BY <1>1, <1>5 DEF DeletePost, EditPost, PatchPackage, CreateStripeCheckoutSession
<1>6. ASSUME NEW c \in Workers, NEW u \in Users, NEW p \in Posts, NEW x \in Uuids,
             UnlockPost(c, u, p, x)
      PROVE  PurchaseInv'
  BY <1>2, <1>6 DEF UnlockPost
<1>7. ASSUME NEW c \in Workers, NEW e \in StripeEvents, Webhook(c, e)
      PROVE  PurchaseInv'
  <2> DEFINE s == sessions[SessionOf[e]]
  <2>1. CASE packages[s.package].active
    <3>1. /\ Enter(c, "lookup", [kind |-> "purchase", user |-> s.user, ext |-> e,
                                 coins |-> packages[s.package].coins])
          /\ UNCHANGED <<walletVars, shopVars>>
      BY <1>7, <2>1 DEF Webhook, shopVars
    <3> QED BY <1>2, <3>1
  <2>2. CASE ~packages[s.package].active
    <3>1. /\ acked' = [acked EXCEPT ![e] = IF @ = "no" THEN "skipped" ELSE @]
          /\ UNCHANGED <<walletVars, purchases, consumed, callVars>>
      BY <1>7, <2>2 DEF Webhook
    <3>2. \A f \in StripeEvents : acked'[f] = "credited" => f \in Bought
      BY <1>0, <3>1 DEF TypeOK
    <3> QED BY <1>0, <3>1, <3>2, PurchasesStay DEF callVars
  <2> QED BY <2>1, <2>2
<1>8. ASSUME NEW c \in Workers,
             \/ \E u \in Users, t \in StoreTxns : StoreCredit(c, u, t)
             \/ \E u \in Users, n \in AdminAmounts, k \in AdminKeys : Adjustment(c, u, n, k)
      PROVE  PurchaseInv'
  BY <1>2, <1>8 DEF StoreCredit, Adjustment
<1>9. ASSUME NEW c \in Workers, Lookup(c) PROVE PurchaseInv'
  <2>1. CASE Leave(c)
    BY <1>0, <1>3, <1>9, <2>1 DEF Lookup, shopVars
  <2>2. CASE Goto(c, "reply") /\ req[c].ext \in Bought /\ UNCHANGED <<req, view>>
    BY <1>4, <1>9, <2>2 DEF Lookup, PCs
  <2>3. CASE Goto(c, "begin") /\ UNCHANGED <<req, view>>
    BY <1>4, <1>9, <2>3 DEF Lookup, PCs
  <2> QED BY <1>9, <2>1, <2>2, <2>3 DEF Lookup
<1>10. ASSUME NEW c \in Workers, BeginTx(c) PROVE PurchaseInv'
  BY <1>4, <1>10 DEF BeginTx, PCs, Now
<1>11. ASSUME NEW c \in Workers, CommitUnlock(c) PROVE PurchaseInv'
  <2>1. /\ pc[c] = "commit" /\ req[c].kind # "purchase" /\ Leave(c)
        /\ ApplyMoves(view[c], Moves(req[c])) /\ UNCHANGED <<purchases, acked, consumed>>
    BY <1>11 DEF CommitUnlock
  <2> QED BY <2>1, OtherCommitsKeepPurchases
<1>12. ASSUME NEW c \in Workers, CommitAdjustment(c) PROVE PurchaseInv'
  <2>1. /\ pc[c] = "commit" /\ req[c].kind # "purchase" /\ Leave(c)
        /\ ApplyMoves(view[c], Moves(req[c])) /\ UNCHANGED <<purchases, acked, consumed>>
    BY <1>12 DEF CommitAdjustment, shopVars
  <2> QED BY <2>1, OtherCommitsKeepPurchases
<1>13. ASSUME NEW c \in Workers, CommitPurchase(c) PROVE PurchaseInv'
  BY <1>13, CommitPurchaseKeeps
<1>14. ASSUME NEW c \in Workers, FindPurchase(c) PROVE PurchaseInv'
  <2>1. req[c].ext \in Bought
    BY <1>14 DEF FindPurchase, ViewsLag
  <2> QED BY <1>4, <1>14, <2>1 DEF FindPurchase, PCs
<1>15. ASSUME NEW c \in Workers, AbortTx(c) \/ Crash(c) PROVE PurchaseInv'
  BY <1>0, <1>3, <1>15 DEF AbortTx, Crash, shopVars
<1>16. ASSUME NEW c \in Workers, Reply(c) PROVE PurchaseInv'
  <2>1. req[c].ext \in Bought /\ Leave(c) /\ UNCHANGED <<walletVars, purchases>>
    BY <1>0, <1>16 DEF Reply
  <2>2. \A f \in StripeEvents : acked'[f] = "credited" => f \in Bought
    BY <1>0, <1>16, <2>1 DEF Reply, TypeOK
  <2>3. consumed' \subseteq Bought
    BY <1>0, <1>16, <2>1 DEF Reply
  <2> QED BY <1>3, <2>1, <2>2, <2>3
<1>17. CASE UNCHANGED vars
  BY <1>1, <1>17 DEF vars, shopVars
<1> QED BY <1>5, <1>6, <1>7, <1>8, <1>9, <1>10, <1>11, <1>12, <1>13, <1>14, <1>15, <1>16,
           <1>17 DEF Next, Step

\* What is bought is credited, in every state (PurchaseInv).
THEOREM PurchaseInvariance == Spec => []PurchaseInv
<1>1. IInv /\ PurchaseInv /\ [Next]_vars => PurchaseInv'
  BY NextPurchaseInv
<1> QED BY InitPurchaseInv, Invariance, <1>1, PTL DEF Spec

\* Every store purchase and Stripe event is credited once, to one user, with
\* the coins of its purchase row (coin-purchase.service.ts), under redelivered
\* and concurrent webhooks, conflicts and crashes.
THEOREM PurchasesCreditedOnce == Spec => []CreditedOnce
BY PurchaseInvariance, PTL DEF PurchaseInv

\* An event acknowledged as credited and a consumed token have their purchase.
THEOREM ToldOnlyWhenCredited == Spec => []DoneMeansCredited
BY PurchaseInvariance, PTL DEF PurchaseInv
---------------------------------------------------------------------------
(* Unlocks: who paid, how often, and who earned.                           *)

\* The correlation id of an unlock in flight is its own, in no ledger row yet,
\* and nobody unlocks a post of their own.
UuidsFresh ==
  /\ \A c \in Workers : req[c] \in UnlockReqs =>
       /\ Author[req[c].post] # req[c].user
       /\ \A u \in Users, p \in Posts :
            /\ ~KeyUsed(ledger, SpendKey(u, p, req[c].uuid))
            /\ ~KeyUsed(ledger, EarnKey(u, p, req[c].uuid))
  /\ \A c, d \in Workers :
       req[c] \in UnlockReqs /\ req[d] \in UnlockReqs /\ req[c].uuid = req[d].uuid => c = d

\* UnlockPaidOnce for one viewer and one post, without counting.
PaidOnce(u, p) ==
  /\ \A i, j \in SpendRows(u, p) : i = j
  /\ p \notin deleted => (SpendRows(u, p) # {} <=> Unlocked(u, p))
  /\ \A r \in unlocks : r.user = u /\ r.post = p =>
       \A i \in SpendRows(u, p) : ledger[u][i].amount = -r.paid

\* The inductive invariant of unlocks, on top of IInv and ViewsLag.
UnlockInv ==
  /\ UuidsFresh
  /\ \A u \in Users, p \in Posts : PaidOnce(u, p)
  /\ ChargePaysAuthor

\* Requests that end, go on, or are no unlocks leave the ids as they are.
LEMMA UuidsStay ==
  ASSUME UuidsFresh, ledger' = ledger,
         \A d \in Workers : req'[d] = req[d] \/ req'[d] \notin UnlockReqs
  PROVE  UuidsFresh'
BY DEF UuidsFresh

\* Posts that go take their unlocks along; the rows stay.
LEMMA UnlocksStay ==
  ASSUME UnlockInv, ledger' = ledger, UuidsFresh', deleted \subseteq deleted',
         unlocks' = {r \in unlocks : r.post \notin deleted' \ deleted}
  PROVE  UnlockInv'
<1>1. ASSUME NEW u \in Users, NEW p \in Posts PROVE SpendRows(u, p)' = SpendRows(u, p)
  BY DEF SpendRows
<1>2. ASSUME NEW u \in Users, NEW p \in Posts PROVE PaidOnce(u, p)'
  <2>1. PaidOnce(u, p)
    BY DEF UnlockInv
  <2>2. p \notin deleted' => (Unlocked(u, p)' <=> Unlocked(u, p))
    BY DEF Unlocked
  <2> QED BY <1>1, <2>1, <2>2 DEF PaidOnce
<1>3. ChargePaysAuthor'
  BY DEF UnlockInv, ChargePaysAuthor
<1> QED BY <1>2, <1>3 DEF UnlockInv

\* A commit of anything but an unlock adds no row with an unlock's key.
LEMMA OtherCommitsKeepUnlocks ==
  ASSUME IInv, UnlockInv, NEW c \in Workers, pc[c] = "commit",
         req[c].kind # "unlock",
         ApplyMoves(view[c], Moves(req[c])),
         \A d \in Workers : req'[d] = req[d] \/ req'[d] \notin UnlockReqs,
         UNCHANGED <<unlocks, deleted>>
  PROVE  UnlockInv'
<1>1. /\ SnapshotOK(view[c]) /\ MovesOK(Moves(req[c])) /\ WalletInv
      /\ req[c] \in PurchaseReqs \cup AdjustReqs
  BY CommitReady, IInvParts DEF CallsOK, Requests, UnlockReqs
<1>2. ASSUME NEW v \in DOMAIN Moves(req[c]), NEW u, NEW p, NEW x
      PROVE  Moves(req[c])[v].key # SpendKey(u, p, x) /\ Moves(req[c])[v].key # EarnKey(u, p, x)
  <2>1. CASE req[c] \in PurchaseReqs
    <3>1. Moves(req[c])[v].key = PurchaseKey(req[c].ext)
      BY <2>1, PurchaseMoves
    <3> QED BY <3>1, KeysDiffer
  <2>2. CASE req[c] \in AdjustReqs
    <3>1. Moves(req[c])[v].key = AdminKey(req[c].user, req[c].key)
      BY <2>2, AdjustMoves
    <3> QED BY <3>1, KeysDiffer
  <2> QED BY <1>1, <2>1, <2>2
<1>3. ASSUME NEW v \in Users, NEW u, NEW p, NEW x, NEW i \in 1..Len(ledger'[v]),
             ledger'[v][i].key = SpendKey(u, p, x) \/ ledger'[v][i].key = EarnKey(u, p, x)
      PROVE  i \in 1..Len(ledger[v]) /\ ledger'[v][i] = ledger[v][i]
  <2>1. CASE i \in 1..Len(ledger[v])
    BY <1>1, <2>1, RowsAfter
  <2>2. CASE i \notin 1..Len(ledger[v])
    <3>1. v \in DOMAIN Moves(req[c]) /\ ledger'[v][i].key = Moves(req[c])[v].key
      BY <1>1, <2>2, RowsAfter
    <3> QED BY <1>2, <1>3, <3>1
  <2> QED BY <2>1, <2>2
<1>4. ASSUME NEW v \in Users, NEW i \in 1..Len(ledger[v])
      PROVE  i \in 1..Len(ledger'[v]) /\ ledger'[v][i] = ledger[v][i]
  BY <1>1, RowsAfter
<1>5. UuidsFresh'
  <2>1. ASSUME NEW d \in Workers, req'[d] \in UnlockReqs, NEW u \in Users, NEW p \in Posts
        PROVE  /\ ~KeyUsed(ledger', SpendKey(u, p, req[d].uuid))
               /\ ~KeyUsed(ledger', EarnKey(u, p, req[d].uuid))
    BY <1>1, <1>2, <2>1, KeysAfter DEF UnlockInv, UuidsFresh
  <2> QED BY <2>1 DEF UnlockInv, UuidsFresh
<1>6. ASSUME NEW u \in Users, NEW p \in Posts PROVE PaidOnce(u, p)'
  <2>1. PaidOnce(u, p)
    BY DEF UnlockInv
  <2>2. SpendRows(u, p)' = SpendRows(u, p)
    BY <1>3, <1>4 DEF SpendRows
  <2>3. \A i \in SpendRows(u, p) : ledger'[u][i] = ledger[u][i]
    BY <1>4 DEF SpendRows
  <2> QED BY <2>1, <2>2, <2>3 DEF PaidOnce, Unlocked
<1>7. ChargePaysAuthor'
  <2> SUFFICES ASSUME NEW u \in Users, NEW p \in Posts, NEW x \in Uuids,
                      NEW s \in 1..Len(ledger'[u]), ledger'[u][s].key = SpendKey(u, p, x)
               PROVE  \E i \in 1..Len(ledger'[u]), j \in 1..Len(ledger'[Author[p]]) :
                        /\ ledger'[u][i].key = SpendKey(u, p, x)
                        /\ ledger'[Author[p]][j].key = EarnKey(Author[p], p, x)
                        /\ \A r \in unlocks : r.user = u /\ r.post = p =>
                             ledger'[u][i].amount + ledger'[Author[p]][j].amount + r.fee = 0
    BY DEF ChargePaysAuthor
  <2>1. Author[p] \in Users
    BY CoinsAssumption
  <2>2. s \in 1..Len(ledger[u]) /\ ledger[u][s].key = SpendKey(u, p, x)
    BY <1>3
  <2>3. PICK i \in 1..Len(ledger[u]), j \in 1..Len(ledger[Author[p]]) :
               /\ ledger[u][i].key = SpendKey(u, p, x)
               /\ ledger[Author[p]][j].key = EarnKey(Author[p], p, x)
               /\ \A r \in unlocks : r.user = u /\ r.post = p =>
                    ledger[u][i].amount + ledger[Author[p]][j].amount + r.fee = 0
    BY <2>2 DEF UnlockInv, ChargePaysAuthor
  <2>4. /\ i \in 1..Len(ledger'[u]) /\ ledger'[u][i] = ledger[u][i]
        /\ j \in 1..Len(ledger'[Author[p]]) /\ ledger'[Author[p]][j] = ledger[Author[p]][j]
    BY <1>4, <2>1
  <2> QED BY <2>3, <2>4
<1> QED BY <1>5, <1>6, <1>7 DEF UnlockInv

\* The commit of an unlock: its ids are fresh, so both moves are made, and no
\* earlier row charges this viewer for this post.
LEMMA CommitUnlockKeeps ==
  ASSUME IInv, PurchaseInv, UnlockInv, NEW c \in Workers, CommitUnlock(c)
  PROVE  UnlockInv'
<1> DEFINE r == req[c]
           a == Author[r.post]
           n == Len(ledger[r.user]) + 1
           m == Len(ledger[a]) + 1
           new == [user |-> r.user, post |-> r.post, paid |-> r.price,
                   fee |-> PlatformFee(r.price)]
<1>1. /\ pc[c] = "commit" /\ r.kind = "unlock"
      /\ ~Unlocked(r.user, r.post) /\ r.post \notin deleted
      /\ ApplyMoves(view[c], Moves(r)) /\ Leave(c)
      /\ unlocks' = unlocks \cup {new}
      /\ deleted' = deleted
  BY DEF CommitUnlock
<1>2. SnapshotOK(view[c]) /\ MovesOK(Moves(r)) /\ WalletInv /\ r \in UnlockReqs
  BY <1>1, CommitReady, IInvParts, KindTells
<1>3. /\ r.user \in Users /\ r.post \in Posts /\ r.price \in Prices /\ r.uuid \in Uuids
      /\ a \in Users /\ a # r.user
      /\ \A u \in Users, p \in Posts :
           ~KeyUsed(ledger, SpendKey(u, p, r.uuid)) /\ ~KeyUsed(ledger, EarnKey(u, p, r.uuid))
  BY <1>2, CoinsAssumption DEF UnlockReqs, UnlockInv, UuidsFresh
<1> HIDE DEF r, a
<1>4. /\ DOMAIN Moves(r) = {r.user, a}
      /\ Moves(r)[r.user].amount = -r.price
      /\ Moves(r)[r.user].key = SpendKey(r.user, r.post, r.uuid)
      /\ Moves(r)[a].amount = CreatorShare(r.price)
      /\ Moves(r)[a].key = EarnKey(a, r.post, r.uuid)
  BY <1>2, <1>3, UnlockMoves DEF a
<1>5. r.user \in Fresh(view[c], Moves(r)) /\ a \in Fresh(view[c], Moves(r))
  BY <1>2, <1>3, <1>4, UnusedIsFresh
<1>6. ASSUME NEW v \in Users, NEW i \in 1..Len(ledger[v])
      PROVE  i \in 1..Len(ledger'[v]) /\ ledger'[v][i] = ledger[v][i]
  BY <1>1, <1>2, RowsAfter
<1>7. /\ n \in 1..Len(ledger'[r.user])
      /\ ledger'[r.user][n].key = SpendKey(r.user, r.post, r.uuid)
      /\ ledger'[r.user][n].amount = -r.price
  <2>1. ledger'[r.user][n] = RowOf(view[c], Moves(r), r.user) /\ n \in 1..Len(ledger'[r.user])
    BY <1>1, <1>2, <1>3, <1>5, RowsAfter
  <2> QED BY <1>4, <2>1 DEF RowOf
<1>8. /\ m \in 1..Len(ledger'[a])
      /\ ledger'[a][m].key = EarnKey(a, r.post, r.uuid)
      /\ ledger'[a][m].amount = CreatorShare(r.price)
  <2>1. ledger'[a][m] = RowOf(view[c], Moves(r), a) /\ m \in 1..Len(ledger'[a])
    BY <1>1, <1>2, <1>3, <1>5, RowsAfter
  <2> QED BY <1>4, <2>1 DEF RowOf
<1>9. ASSUME NEW u \in Users, NEW p, NEW x, NEW i \in 1..Len(ledger'[u]),
             ledger'[u][i].key = SpendKey(u, p, x)
      PROVE  \/ i \in 1..Len(ledger[u]) /\ ledger[u][i].key = SpendKey(u, p, x)
             \/ u = r.user /\ p = r.post /\ x = r.uuid /\ i = n
  <2>1. CASE i \in 1..Len(ledger[u])
    BY <1>6, <1>9, <2>1
  <2>2. CASE i \notin 1..Len(ledger[u])
    <3>1. /\ u \in {r.user, a} /\ i = Len(ledger[u]) + 1
          /\ ledger'[u][i].key = Moves(r)[u].key
      BY <1>1, <1>2, <1>4, <2>2, RowsAfter
    <3> QED BY <1>4, <1>9, <3>1, KeysDiffer
  <2> QED BY <2>1, <2>2
<1>10. UuidsFresh'
  <2>1. ASSUME NEW d \in Workers, req'[d] \in UnlockReqs
        PROVE  d # c /\ req'[d] = req[d] /\ req[d].uuid # r.uuid
    BY <1>1, <1>2, <2>1, NoReqOutside DEF Leave, UnlockInv, UuidsFresh, IInv, TypeOK, r
  <2>2. ASSUME NEW d \in Workers, req'[d] \in UnlockReqs, NEW u \in Users, NEW p \in Posts
        PROVE  /\ ~KeyUsed(ledger', SpendKey(u, p, req[d].uuid))
               /\ ~KeyUsed(ledger', EarnKey(u, p, req[d].uuid))
    <3>1. /\ ~KeyUsed(ledger, SpendKey(u, p, req[d].uuid))
          /\ ~KeyUsed(ledger, EarnKey(u, p, req[d].uuid))
      BY <2>1, <2>2 DEF UnlockInv, UuidsFresh
    <3>2. \A v \in DOMAIN Moves(r) :
            Moves(r)[v].key # SpendKey(u, p, req[d].uuid) /\ Moves(r)[v].key # EarnKey(u, p, req[d].uuid)
      BY <1>4, <2>1, <2>2, KeysDiffer
    <3> QED BY <1>1, <1>2, <3>1, <3>2, KeysAfter
  <2> QED BY <2>1, <2>2 DEF UnlockInv, UuidsFresh
<1>11. SpendRows(r.user, r.post) = {}
  BY <1>1, <1>3 DEF UnlockInv, PaidOnce
<1>12. ASSUME NEW q \in unlocks', q.user = r.user, q.post = r.post PROVE q = new
  BY <1>1, <1>12 DEF Unlocked
<1>13. ASSUME NEW u \in Users, NEW p \in Posts PROVE PaidOnce(u, p)'
  <2>1. PaidOnce(u, p)
    BY DEF UnlockInv
  <2>2. CASE u = r.user /\ p = r.post
    <3>1. SpendRows(u, p)' = {n}
      <4>1. n \in SpendRows(u, p)'
        BY <1>3, <1>7, <2>2 DEF SpendRows
      <4>2. ASSUME NEW i \in SpendRows(u, p)' PROVE i = n
        <5>1. PICK x \in Uuids : i \in 1..Len(ledger'[u]) /\ ledger'[u][i].key = SpendKey(u, p, x)
          BY DEF SpendRows
        <5> QED BY <1>9, <1>11, <2>2, <5>1 DEF SpendRows
      <4> QED BY <4>1, <4>2
    <3>2. Unlocked(u, p)'
      <4>1. new \in unlocks' /\ new.user = u /\ new.post = p
        BY <1>1, <2>2
      <4> QED BY <4>1 DEF Unlocked
    <3>3. \A q \in unlocks' : q.user = u /\ q.post = p => q.paid = r.price
      BY <1>12, <2>2
    <3> QED BY <1>7, <2>2, <3>1, <3>2, <3>3 DEF PaidOnce
  <2>3. CASE ~(u = r.user /\ p = r.post)
    <3>1. SpendRows(u, p)' = SpendRows(u, p)
      <4>1. ASSUME NEW i \in SpendRows(u, p) PROVE i \in SpendRows(u, p)'
        BY <1>6 DEF SpendRows
      <4>2. ASSUME NEW i \in SpendRows(u, p)' PROVE i \in SpendRows(u, p)
        <5>1. PICK x \in Uuids : i \in 1..Len(ledger'[u]) /\ ledger'[u][i].key = SpendKey(u, p, x)
          BY DEF SpendRows
        <5> QED BY <1>9, <2>3, <5>1 DEF SpendRows
      <4> QED BY <4>1, <4>2
    <3>2. Unlocked(u, p)' <=> Unlocked(u, p)
      BY <1>1, <2>3 DEF Unlocked
    <3>3. \A i \in SpendRows(u, p) : ledger'[u][i] = ledger[u][i]
      BY <1>6 DEF SpendRows
    <3>4. \A q \in unlocks' : q.user = u /\ q.post = p => q \in unlocks
      BY <1>1, <2>3
    <3> QED BY <1>1, <2>1, <3>1, <3>2, <3>3, <3>4 DEF PaidOnce
  <2> QED BY <2>2, <2>3
<1>14. ChargePaysAuthor'
  <2> SUFFICES ASSUME NEW u \in Users, NEW p \in Posts, NEW x \in Uuids,
                      NEW s \in 1..Len(ledger'[u]), ledger'[u][s].key = SpendKey(u, p, x)
               PROVE  \E i \in 1..Len(ledger'[u]), j \in 1..Len(ledger'[Author[p]]) :
                        /\ ledger'[u][i].key = SpendKey(u, p, x)
                        /\ ledger'[Author[p]][j].key = EarnKey(Author[p], p, x)
                        /\ \A q \in unlocks' : q.user = u /\ q.post = p =>
                             ledger'[u][i].amount + ledger'[Author[p]][j].amount + q.fee = 0
    BY DEF ChargePaysAuthor
  <2>1. CASE u = r.user /\ p = r.post /\ x = r.uuid
    <3>1. -r.price + CreatorShare(r.price) + PlatformFee(r.price) = 0
      <4>1. r.price \in Nat
        BY <1>3, CoinsAssumption
      <4>2. /\ CreatorShare(r.price) + PlatformFee(r.price) = r.price
            /\ CreatorShare(r.price) \in Int /\ PlatformFee(r.price) \in Int
        BY <4>1, SplitIsExact
      <4> QED BY <4>1, <4>2
    <3>2. \A q \in unlocks' : q.user = u /\ q.post = p => q.fee = PlatformFee(r.price)
      BY <1>12, <2>1
    <3> QED BY <1>7, <1>8, <2>1, <3>1, <3>2 DEF a
  <2>2. CASE ~(u = r.user /\ p = r.post /\ x = r.uuid)
    <3>1. s \in 1..Len(ledger[u]) /\ ledger[u][s].key = SpendKey(u, p, x)
      BY <1>9, <2>2
    <3>2. ~(u = r.user /\ p = r.post)
      BY <1>11, <3>1 DEF SpendRows
    <3>3. PICK i \in 1..Len(ledger[u]), j \in 1..Len(ledger[Author[p]]) :
                 /\ ledger[u][i].key = SpendKey(u, p, x)
                 /\ ledger[Author[p]][j].key = EarnKey(Author[p], p, x)
                 /\ \A q \in unlocks : q.user = u /\ q.post = p =>
                      ledger[u][i].amount + ledger[Author[p]][j].amount + q.fee = 0
      BY <3>1 DEF UnlockInv, ChargePaysAuthor
    <3>4. /\ i \in 1..Len(ledger'[u]) /\ ledger'[u][i] = ledger[u][i]
          /\ j \in 1..Len(ledger'[Author[p]]) /\ ledger'[Author[p]][j] = ledger[Author[p]][j]
      BY <1>6, CoinsAssumption
    <3>5. \A q \in unlocks' : q.user = u /\ q.post = p => q \in unlocks
      BY <1>1, <3>2
    <3> QED BY <3>3, <3>4, <3>5
  <2> QED BY <2>1, <2>2
<1> QED BY <1>10, <1>13, <1>14 DEF UnlockInv

\* At first nothing is unlocked.
LEMMA InitUnlockInv == Init => UnlockInv
<1> SUFFICES ASSUME Init PROVE UnlockInv
  OBVIOUS
<1>1. UuidsFresh
  BY NoReqOutside DEF Init, UuidsFresh
<1>2. \A u \in Users, p \in Posts : SpendRows(u, p) = {}
  BY DEF Init, WalletInit, SpendRows
<1>3. \A u \in Users, p \in Posts : PaidOnce(u, p)
  BY <1>2 DEF PaidOnce, Unlocked, Init
<1>4. ChargePaysAuthor
  BY DEF Init, WalletInit, ChargePaysAuthor
<1> QED BY <1>1, <1>3, <1>4 DEF UnlockInv

\* Every step keeps the unlocks paid; only CommitUnlock charges for one.
LEMMA NextUnlockInv ==
  ASSUME IInv, PurchaseInv, UnlockInv, [Next]_vars
  PROVE  UnlockInv'
<1>0. UuidsFresh /\ TypeOK /\ UnlockInv
  BY DEF UnlockInv, IInv
<1>1. ASSUME UNCHANGED <<walletVars, deleted, unlocks>>,
             \A d \in Workers : req'[d] = req[d] \/ req'[d] \notin UnlockReqs
      PROVE  UnlockInv'
  <2>1. UuidsFresh'
    BY <1>0, <1>1, UuidsStay DEF walletVars
  <2> QED BY <1>1, <2>1, UnlocksStay DEF walletVars
<1>2. ASSUME NEW c \in Workers, NEW label, NEW r, r \notin UnlockReqs, Enter(c, label, r),
             UNCHANGED <<walletVars, shopVars>>
      PROVE  UnlockInv'
  <2>1. \A d \in Workers : req'[d] = req[d] \/ req'[d] \notin UnlockReqs
    BY <1>0, <1>2 DEF Enter, TypeOK
  <2> QED BY <1>1, <1>2, <2>1 DEF shopVars
<1>3. ASSUME NEW c \in Workers, Leave(c), UNCHANGED <<walletVars, deleted, unlocks>>
      PROVE  UnlockInv'
  <2>1. \A d \in Workers : req'[d] = req[d] \/ req'[d] \notin UnlockReqs
    BY <1>0, <1>3, NoReqOutside DEF Leave, TypeOK
  <2> QED BY <1>1, <1>3, <2>1
<1>4. ASSUME UNCHANGED <<walletVars, deleted, unlocks, req>> PROVE UnlockInv'
  BY <1>1, <1>4
<1>5. ASSUME NEW p \in Posts, DeletePost(p) PROVE UnlockInv'
  <2>1. /\ p \notin deleted /\ deleted' = deleted \cup {p}
        /\ unlocks' = {r \in unlocks : r.post # p}
        /\ ledger' = ledger /\ req' = req
    BY <1>5 DEF DeletePost, walletVars, callVars
  <2>2. UuidsFresh'
    BY <1>0, <2>1, UuidsStay
  <2>3. unlocks' = {r \in unlocks : r.post \notin deleted' \ deleted}
    BY <2>1
  <2> QED BY <2>1, <2>2, <2>3, UnlocksStay
<1>6. CASE \/ \E p \in Posts, x \in Prices \cup {0} : EditPost(p, x)
           \/ \E k \in Packages, a \in BOOLEAN, n \in CoinAmounts : PatchPackage(k, a, n)
           \/ \E s \in Sessions, u \in Users, k \in Packages :
                CreateStripeCheckoutSession(s, u, k)
  BY <1>4, <1>6 DEF EditPost, PatchPackage, CreateStripeCheckoutSession, callVars
<1>7. ASSUME NEW c \in Workers, NEW u \in Users, NEW p \in Posts, NEW x \in Uuids,
             UnlockPost(c, u, p, x)
      PROVE  UnlockInv'
  <2> DEFINE r == [kind |-> "unlock", user |-> u, post |-> p, price |-> offer[p], uuid |-> x]
  <2>1. /\ Author[p] # u /\ FreshUuid(x) /\ req' = [req EXCEPT ![c] = r]
        /\ ledger' = ledger /\ unlocks' = unlocks /\ deleted' = deleted
    BY <1>7 DEF UnlockPost, Enter, walletVars, shopVars
  <2>2. req'[c] = r /\ \A d \in Workers \ {c} : req'[d] = req[d]
    BY <1>0, <2>1 DEF TypeOK
  <2>3. UuidsFresh'
    <3>1. ASSUME NEW d \in Workers, req'[d] \in UnlockReqs
          PROVE  /\ Author[req'[d].post] # req'[d].user
                 /\ \A v \in Users, q \in Posts :
                      /\ ~KeyUsed(ledger, SpendKey(v, q, req'[d].uuid))
                      /\ ~KeyUsed(ledger, EarnKey(v, q, req'[d].uuid))
      <4>1. CASE d = c
        BY <2>1, <2>2, <4>1 DEF FreshUuid
      <4>2. CASE d # c
        BY <1>0, <2>2, <3>1, <4>2 DEF UuidsFresh
      <4> QED BY <4>1, <4>2
    <3>2. ASSUME NEW d \in Workers, NEW e \in Workers, req'[d] \in UnlockReqs,
                 req'[e] \in UnlockReqs, req'[d].uuid = req'[e].uuid
          PROVE  d = e
      BY <1>0, <2>1, <2>2, <3>2 DEF UuidsFresh, FreshUuid
    <3> QED BY <2>1, <3>1, <3>2 DEF UuidsFresh
  <2> QED BY <2>1, <2>3, UnlocksStay
<1>8. ASSUME NEW c \in Workers, NEW e \in StripeEvents, Webhook(c, e)
      PROVE  UnlockInv'
  <2> DEFINE s == sessions[SessionOf[e]]
             r == [kind |-> "purchase", user |-> s.user, ext |-> e,
                   coins |-> packages[s.package].coins]
  <2>1. CASE packages[s.package].active
    <3>1. Enter(c, "lookup", r) /\ UNCHANGED <<walletVars, shopVars>>
      BY <1>8, <2>1 DEF Webhook, shopVars
    <3>2. r \notin UnlockReqs
      BY DEF UnlockReqs
    <3> QED BY <1>2, <3>1, <3>2
  <2>2. CASE ~packages[s.package].active
    BY <1>4, <1>8, <2>2 DEF Webhook, callVars
  <2> QED BY <2>1, <2>2
<1>9. ASSUME NEW c \in Workers, NEW u \in Users, NEW t \in StoreTxns, StoreCredit(c, u, t)
      PROVE  UnlockInv'
  <2>1. [kind |-> "purchase", user |-> u, ext |-> t, coins |-> packages[ProductOf[t]].coins]
          \notin UnlockReqs
    BY DEF UnlockReqs
  <2> QED BY <1>2, <1>9, <2>1 DEF StoreCredit
<1>10. ASSUME NEW c \in Workers, NEW u \in Users, NEW n \in AdminAmounts, NEW k \in AdminKeys,
              Adjustment(c, u, n, k)
       PROVE  UnlockInv'
  <2>1. [kind |-> "adjust", user |-> u, amount |-> n, key |-> k] \notin UnlockReqs
    BY DEF UnlockReqs
  <2> QED BY <1>2, <1>10, <2>1 DEF Adjustment
<1>11. ASSUME NEW c \in Workers, Lookup(c) \/ BeginTx(c) \/ FindPurchase(c) PROVE UnlockInv'
  BY <1>3, <1>4, <1>11 DEF Lookup, BeginTx, FindPurchase, shopVars
<1>12. ASSUME NEW c \in Workers, AbortTx(c) \/ Crash(c) \/ Reply(c) PROVE UnlockInv'
  BY <1>3, <1>12 DEF AbortTx, Crash, Reply, shopVars
<1>13. ASSUME NEW c \in Workers, CommitUnlock(c) PROVE UnlockInv'
  BY <1>13, CommitUnlockKeeps
<1>14. ASSUME NEW c \in Workers, CommitPurchase(c) PROVE UnlockInv'
  <2>1. /\ pc[c] = "commit" /\ req[c].kind # "unlock" /\ req' = req
        /\ ApplyMoves(view[c], Moves(req[c])) /\ UNCHANGED <<unlocks, deleted>>
    BY <1>14 DEF CommitPurchase
  <2> QED BY <2>1, OtherCommitsKeepUnlocks
<1>15. ASSUME NEW c \in Workers, CommitAdjustment(c) PROVE UnlockInv'
  <2>1. /\ pc[c] = "commit" /\ req[c].kind # "unlock" /\ Leave(c)
        /\ ApplyMoves(view[c], Moves(req[c])) /\ UNCHANGED <<unlocks, deleted>>
    BY <1>15 DEF CommitAdjustment, shopVars
  <2>2. \A d \in Workers : req'[d] = req[d] \/ req'[d] \notin UnlockReqs
    BY <1>0, <2>1, NoReqOutside DEF Leave, TypeOK
  <2> QED BY <2>1, <2>2, OtherCommitsKeepUnlocks
<1>16. CASE UNCHANGED vars
  BY <1>4, <1>16 DEF vars, shopVars, callVars
<1> QED BY <1>5, <1>6, <1>7, <1>8, <1>9, <1>10, <1>11, <1>12, <1>13, <1>14, <1>15, <1>16
        DEF Next, Step

\* What is unlocked is paid for, in every state (UnlockInv).
THEOREM UnlockInvariance == Spec => []UnlockInv
<1>1. IInv /\ PurchaseInv /\ UnlockInv /\ [Next]_vars => UnlockInv'
  BY NextUnlockInv
<1> QED BY InitUnlockInv, Invariance, PurchaseInvariance, <1>1, PTL DEF Spec

\* The rows of one viewer for one post are none or one: counting them.
LEMMA PaidOnceCounts ==
  ASSUME NEW u \in Users, NEW p \in Posts, PaidOnce(u, p)
  PROVE  Cardinality(SpendRows(u, p)) <= 1
<1>1. CASE SpendRows(u, p) = {}
  BY <1>1, FS_EmptySet
<1>2. CASE SpendRows(u, p) # {}
  <2>1. PICK i : SpendRows(u, p) = {i}
    BY <1>2 DEF PaidOnce
  <2> QED BY <2>1, FS_Singleton
<1> QED BY <1>1, <1>2

\* Whatever the interleaving, a viewer pays for a post at most once, and as
\* long as the post exists the charge and the PostUnlock row go together, for
\* the amount the row says (coin-unlock.service.ts, unlockPost).
THEOREM UnlocksPaidOnce == Spec => []UnlockPaidOnce
<1>1. UnlockInv => UnlockPaidOnce
  BY PaidOnceCounts DEF UnlockInv, UnlockPaidOnce, PaidOnce
<1> QED BY <1>1, UnlockInvariance, PTL

\* No charge without the author's earning, and charge, earning and platform fee
\* add up to zero for every price.
THEOREM ChargesPayAuthors == Spec => []ChargePaysAuthor
BY UnlockInvariance, PTL DEF UnlockInv

---------------------------------------------------------------------------
(* Who can take coins out of a wallet.                                     *)

SpendStep ==
  \A u \in Users : balance'[u] < balance[u] =>
    \/ ledger'[u][Len(ledger'[u])].type = "ADJUSTMENT"
    \/ \E r \in unlocks' \ unlocks : r.user = u /\ r.paid = balance[u] - balance'[u]

\* A commit that takes coins from u has a negative move for u, on the balance u
\* has now.
LEMMA DebitIsMove ==
  ASSUME IInv, NEW c \in Workers, pc[c] = "commit", ApplyMoves(view[c], Moves(req[c])),
         NEW u \in Users, balance'[u] < balance[u]
  PROVE  /\ u \in DOMAIN Moves(req[c])
         /\ Moves(req[c])[u].amount \in Int
         /\ balance[u] \in Int
         /\ balance'[u] = balance[u] + Moves(req[c])[u].amount
         /\ ledger'[u][Len(ledger'[u])].type = Moves(req[c])[u].type
<1>1. SnapshotOK(view[c]) /\ MovesOK(Moves(req[c])) /\ WalletInv
  BY CommitReady, IInvParts
<1>2. balance[u] \in Int
  BY <1>1 DEF WalletInv, WalletTypeOK
<1>3. /\ u \in Fresh(view[c], Moves(req[c]))
      /\ Len(ledger'[u]) = Len(ledger[u]) + 1
      /\ ledger'[u][Len(ledger[u]) + 1] = RowOf(view[c], Moves(req[c]), u)
      /\ balance'[u] = NextBalance(view[c], Moves(req[c]), u)
  BY <1>1, <1>2, LedgerStep
<1>4. u \in DOMAIN Moves(req[c]) /\ balance[u] = view[c].balance[u]
  BY <1>1, <1>3, TouchedIsCurrent DEF ApplyMoves, Fresh
<1>5. Moves(req[c])[u].amount \in Int
  BY <1>1, <1>4 DEF MovesOK
<1> QED BY <1>2, <1>3, <1>4, <1>5 DEF NextBalance, RowOf

\* Only a granted unlock or an adjustment lowers a balance.
LEMMA SpendStepHolds ==
  ASSUME IInv, UnlockInv, [Next]_vars
  PROVE  [SpendStep]_vars
<1>1. ASSUME UNCHANGED walletVars PROVE SpendStep
  BY <1>1 DEF SpendStep, walletVars, IInv, TypeOK, WalletTypeOK
<1>2. ASSUME NEW c \in Workers, CommitUnlock(c) PROVE SpendStep
  <2> DEFINE r == req[c]
             new == [user |-> r.user, post |-> r.post, paid |-> r.price,
                     fee |-> PlatformFee(r.price)]
  <2>1. /\ pc[c] = "commit" /\ r.kind = "unlock" /\ ~Unlocked(r.user, r.post)
        /\ ApplyMoves(view[c], Moves(r)) /\ unlocks' = unlocks \cup {new}
    BY <1>2 DEF CommitUnlock
  <2>2. r \in UnlockReqs
    BY <2>1, CommitReady, KindTells
  <2>3. /\ DOMAIN Moves(r) = {r.user, Author[r.post]}
        /\ Moves(r)[r.user].amount = -r.price
        /\ Moves(r)[Author[r.post]].amount = CreatorShare(r.price)
        /\ r.price \in Nat /\ CreatorShare(r.price) \in Nat
    <3>1. Author[r.post] # r.user
      BY <2>2 DEF UnlockInv, UuidsFresh
    <3>2. r.price \in Nat
      BY <2>2, CoinsAssumption DEF UnlockReqs
    <3>3. CreatorShare(r.price) \in 0..r.price
      BY <3>2, SplitIsExact
    <3>4. CreatorShare(r.price) \in Nat
      BY <3>2, <3>3
    <3> HIDE DEF r
    <3> QED BY <2>2, <3>1, <3>2, <3>4, UnlockMoves
  <2>4. ASSUME NEW u \in Users, balance'[u] < balance[u]
        PROVE  \E q \in unlocks' \ unlocks : q.user = u /\ q.paid = balance[u] - balance'[u]
    <3>1. /\ u \in {r.user, Author[r.post]} /\ balance[u] \in Int
          /\ balance'[u] = balance[u] + Moves(r)[u].amount
      BY <2>1, <2>3, <2>4, DebitIsMove
    <3>2. u = r.user
      BY <2>3, <2>4, <3>1
    <3>3. new \in unlocks' \ unlocks
      BY <2>1 DEF Unlocked
    <3>4. new.user = u /\ new.paid = balance[u] - balance'[u]
      BY <2>3, <3>1, <3>2
    <3> QED BY <3>3, <3>4
  <2> QED BY <2>4 DEF SpendStep
<1>3. ASSUME NEW c \in Workers, CommitPurchase(c) PROVE SpendStep
  <2>1. pc[c] = "commit" /\ ApplyMoves(view[c], Moves(req[c])) /\ req[c].kind = "purchase"
    BY <1>3 DEF CommitPurchase
  <2>2. req[c] \in PurchaseReqs
    BY <2>1, CommitReady, KindTells
  <2>3. req[c].coins \in Nat
    BY <2>2, CoinsAssumption DEF PurchaseReqs
  <2>4. ASSUME NEW u \in Users, balance'[u] < balance[u] PROVE FALSE
    <3>1. /\ u \in DOMAIN Moves(req[c]) /\ balance[u] \in Int
          /\ balance'[u] = balance[u] + Moves(req[c])[u].amount
      BY <2>1, <2>4, DebitIsMove
    <3>2. Moves(req[c])[u].amount = req[c].coins
      BY <2>2, <3>1, PurchaseMoves
    <3> QED BY <2>3, <2>4, <3>1, <3>2
  <2> QED BY <2>4 DEF SpendStep
<1>4. ASSUME NEW c \in Workers, CommitAdjustment(c) PROVE SpendStep
  <2>1. pc[c] = "commit" /\ ApplyMoves(view[c], Moves(req[c])) /\ req[c].kind = "adjust"
    BY <1>4 DEF CommitAdjustment
  <2>2. req[c] \in AdjustReqs
    BY <2>1, CommitReady, KindTells
  <2>3. ASSUME NEW u \in Users, balance'[u] < balance[u]
        PROVE  ledger'[u][Len(ledger'[u])].type = "ADJUSTMENT"
    <3>1. /\ u \in DOMAIN Moves(req[c])
          /\ ledger'[u][Len(ledger'[u])].type = Moves(req[c])[u].type
      BY <2>1, <2>3, DebitIsMove
    <3> QED BY <2>2, <3>1, AdjustMoves
  <2> QED BY <2>3 DEF SpendStep
<1>5. CASE \/ \E p \in Posts : DeletePost(p) \/ \E x \in Prices \cup {0} : EditPost(p, x)
           \/ \E k \in Packages, a \in BOOLEAN, n \in CoinAmounts : PatchPackage(k, a, n)
           \/ \E s \in Sessions, u \in Users, k \in Packages :
                CreateStripeCheckoutSession(s, u, k)
  <2>1. UNCHANGED walletVars
    BY <1>5, ShopSteps
  <2> QED BY <1>1, <2>1
<1>6. ASSUME NEW c \in Workers,
             \/ \E u \in Users, p \in Posts, x \in Uuids : UnlockPost(c, u, p, x)
             \/ \E e \in StripeEvents : Webhook(c, e)
             \/ \E u \in Users, t \in StoreTxns : StoreCredit(c, u, t)
             \/ \E u \in Users, n \in AdminAmounts, k \in AdminKeys : Adjustment(c, u, n, k)
      PROVE  SpendStep
  <2>1. UNCHANGED walletVars
    BY <1>6, ArrivalSteps
  <2> QED BY <1>1, <2>1
<1>7. ASSUME NEW c \in Workers,
             \/ Lookup(c) \/ BeginTx(c) \/ FindPurchase(c) \/ AbortTx(c) \/ Reply(c) \/ Crash(c)
      PROVE  SpendStep
  BY <1>1, <1>7 DEF Lookup, BeginTx, FindPurchase, AbortTx, Reply, Crash
<1>8. CASE UNCHANGED vars
  BY <1>8
<1> QED BY <1>2, <1>3, <1>4, <1>5, <1>6, <1>7, <1>8 DEF Next, Step

\* Coins leave a wallet only for an unlock granted by the very step that takes
\* them, at the price it records, or by an admin's adjustment.
THEOREM DebitsAreAccounted == Spec => SpendsOnlyForUnlock
<1>1. IInv /\ UnlockInv /\ [Next]_vars => [SpendStep]_vars
  BY SpendStepHolds
<1> QED BY <1>1, Invariance, UnlockInvariance, PTL DEF Spec, SpendsOnlyForUnlock, SpendStep
=============================================================================
