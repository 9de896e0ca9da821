---------------------------------- MODULE Coins ----------------------------------
(***************************************************************************)
(* The coin economy of the API: buying coins (Stripe checkout and its      *)
(* webhook, Apple and Google receipts), unlocking a monetized post, and    *)
(* admin adjustments, all on the wallets of CoinWallet.                    *)
(*                                                                         *)
(* The server is one Node process; requests interleave at every await.  A  *)
(* request is carried by a worker c: pc[c] is the await it is suspended    *)
(* at, req[c] what it has read so far, view[c] the snapshot of its         *)
(* transaction.                                                            *)
(***************************************************************************)
EXTENDS CoinWallet, Pricing

CONSTANTS
  Workers,        \* requests the server handles concurrently
  Posts, Author,  \* Author \in [Posts -> Users]
  Prices,         \* fixed prices a monetized post can have
  Uuids,          \* correlation ids randomUUID can return
  Packages, CoinAmounts,     \* coin packages and what one can be worth
  Sessions, StripeEvents,    \* checkout sessions, and the events Stripe sends
  SessionOf,                 \* SessionOf \in [StripeEvents -> Sessions]
  AppleTxns, GoogleTokens,   \* store purchases (already paid at the store)
  ProductOf,      \* ProductOf \in [AppleTxns \cup GoogleTokens -> Packages]
  AdminKeys, AdminAmounts    \* idempotency keys and amounts admins use

StoreTxns == AppleTxns \cup GoogleTokens
ExternalIds == StripeEvents \cup StoreTxns

\* The idempotency keys, as the services build them.
SpendKey(u, p, x) == <<"unlock:spend", p, u, x>>
EarnKey(u, p, x) == <<"unlock:earn", p, u, x>>
PurchaseKey(e) == <<"purchase", e>>
AdminKey(u, k) == <<"admin-adjust", u, k>>

ASSUME CoinsAssumption ==
  /\ Author \in [Posts -> Users]
  /\ Prices \subseteq Nat \ {0} /\ CoinAmounts \subseteq Nat \ {0}
  /\ AdminAmounts \subseteq Int
  /\ SessionOf \in [StripeEvents -> Sessions]
  /\ ProductOf \in [StoreTxns -> Packages]
  /\ \A u \in Users, p \in Posts, x \in Uuids :
       SpendKey(u, p, x) \in Keys /\ EarnKey(u, p, x) \in Keys
  /\ \A e \in ExternalIds : PurchaseKey(e) \in Keys
  /\ \A u \in Users, k \in AdminKeys : AdminKey(u, k) \in Keys

VARIABLES
  offer,      \* price of each post; 0 while it cannot be unlocked (unpublished,
              \* not monetized or without a fixed price)
  deleted,    \* posts whose row is gone
  unlocks,    \* PostUnlock rows
  purchases,  \* CoinPurchase rows, all COMPLETED
  packages,   \* CoinPackage rows
  sessions,   \* Stripe checkout sessions: what their metadata says
  acked,      \* events the webhook answered with 2xx, and the answer
  consumed,   \* Google tokens reported as consumed
  pc, req, view

shopVars == <<offer, deleted, unlocks, purchases, packages, sessions, acked, consumed>>
callVars == <<pc, req, view>>
vars == <<walletVars, shopVars, callVars>>

---------------------------------------------------------------------------
Unlocks == [user: Users, post: Posts, paid: Prices, fee: Nat]
Purchases == [ext: ExternalIds, user: Users, coins: CoinAmounts]
NoReq == [kind |-> "none"]
UnlockReqs == [kind: {"unlock"}, user: Users, post: Posts, price: Prices, uuid: Uuids]
PurchaseReqs == [kind: {"purchase"}, user: Users, ext: ExternalIds, coins: CoinAmounts]
AdjustReqs == [kind: {"adjust"}, user: Users, amount: AdminAmounts, key: AdminKeys]
Requests == {NoReq} \cup UnlockReqs \cup PurchaseReqs \cup AdjustReqs
PCs == {"idle", "lookup", "begin", "commit", "reply"}
Views == [balance: [Users -> 0..MaxInt], ledger: [Users -> Seq(Rows)],
          bought: SUBSET ExternalIds]
NoView == [balance |-> [u \in Users |-> 0], ledger |-> [u \in Users |-> <<>>],
           bought |-> {}]

TypeOK ==
  /\ WalletTypeOK
  /\ offer \in [Posts -> Prices \cup {0}]
  /\ deleted \subseteq Posts
  /\ unlocks \subseteq Unlocks
  /\ purchases \subseteq Purchases
  /\ packages \in [Packages -> [active: BOOLEAN, coins: CoinAmounts]]
  /\ sessions \in [Sessions -> [user: Users, package: Packages] \cup {NoReq}]
  /\ acked \in [StripeEvents -> {"no", "credited", "skipped"}]
  /\ consumed \subseteq GoogleTokens
  /\ pc \in [Workers -> PCs]
  /\ req \in [Workers -> Requests]
  /\ view \in [Workers -> Views]

Init ==
  /\ WalletInit
  /\ offer = [p \in Posts |-> 0]
  /\ deleted = {}
  /\ unlocks = {} /\ purchases = {}
  /\ packages \in [Packages -> [active: {TRUE}, coins: CoinAmounts]]
  /\ sessions = [s \in Sessions |-> NoReq]
  /\ acked = [e \in StripeEvents |-> "no"]
  /\ consumed = {}
  /\ pc = [c \in Workers |-> "idle"]
  /\ req = [c \in Workers |-> NoReq]
  /\ view = [c \in Workers |-> NoView]
---------------------------------------------------------------------------
(* Authors, admins and shoppers, outside any wallet transaction.           *)

\* updatePost and syncMonetizationPricingToDb leave the post with some price,
\* or with none.
EditPost(p, price) ==
  /\ p \notin deleted
  /\ offer' = [offer EXCEPT ![p] = price]
  /\ UNCHANGED <<walletVars, deleted, unlocks, purchases, packages, sessions,
                 acked, consumed, callVars>>

\* deletePost: the row goes, and the foreign key takes its unlocks along.
DeletePost(p) ==
  /\ p \notin deleted
  /\ deleted' = deleted \cup {p}
  /\ unlocks' = {r \in unlocks : r.post # p}
  /\ UNCHANGED <<walletVars, offer, purchases, packages, sessions, acked,
                 consumed, callVars>>

\* patchPackage: an admin reprices a package, or takes it off sale or back on.
PatchPackage(k, active, coins) ==
  /\ packages' = [packages EXCEPT ![k] = [active |-> active, coins |-> coins]]
  /\ UNCHANGED <<walletVars, offer, deleted, unlocks, purchases, sessions,
                 acked, consumed, callVars>>

\* createStripeCheckoutSession: the session's metadata names buyer and package.
\* The buyer then pays at Stripe, which sends the session's events.
CreateStripeCheckoutSession(s, u, k) ==
  /\ sessions[s] = NoReq
  /\ packages[k].active
  /\ sessions' = [sessions EXCEPT ![s] = [user |-> u, package |-> k]]
  /\ UNCHANGED <<walletVars, offer, deleted, unlocks, purchases, packages,
                 acked, consumed, callVars>>

---------------------------------------------------------------------------
(* Requests, up to their wallet transaction.                               *)

Goto(c, label) == pc' = [pc EXCEPT ![c] = label]

\* A request arrives at an idle worker and is suspended at its next await.
Enter(c, label, r) ==
  /\ pc[c] = "idle"
  /\ Goto(c, label)
  /\ req' = [req EXCEPT ![c] = r]
  /\ UNCHANGED view

\* The request is over: answered, failed, or lost with the process.
Leave(c) ==
  /\ pc' = [pc EXCEPT ![c] = "idle"]
  /\ req' = [req EXCEPT ![c] = NoReq]
  /\ view' = [view EXCEPT ![c] = NoView]

\* A correlation id nobody holds: not in a ledger row, not in another request.
FreshUuid(x) ==
  /\ \A u \in Users, p \in Posts :
       ~KeyUsed(ledger, SpendKey(u, p, x)) /\ ~KeyUsed(ledger, EarnKey(u, p, x))
  /\ \A c \in Workers : req[c] \in UnlockReqs => req[c].uuid # x

\* unlockPost reads the post and refuses what cannot be unlocked.  The price
\* read here is the one charged later.
UnlockPost(c, u, p, x) ==
  /\ p \notin deleted /\ offer[p] # 0 /\ Author[p] # u
  /\ FreshUuid(x)
  /\ Enter(c, "lookup", [kind |-> "unlock", user |-> u, post |-> p,
                         price |-> offer[p], uuid |-> x])
  /\ UNCHANGED <<walletVars, shopVars>>

\* handleCheckoutSessionCompleted: the session's metadata, the package if it is
\* still on sale, and the coins it is worth now.  A package off sale is
\* answered "skipped", which Stripe takes as delivered.
Webhook(c, e) ==
  LET s == sessions[SessionOf[e]] IN
  /\ pc[c] = "idle" /\ s # NoReq
  /\ IF packages[s.package].active
     THEN /\ Enter(c, "lookup", [kind |-> "purchase", user |-> s.user, ext |-> e,
                                 coins |-> packages[s.package].coins])
          /\ UNCHANGED acked
     ELSE /\ acked' = [acked EXCEPT ![e] = IF @ = "no" THEN "skipped" ELSE @]
          /\ UNCHANGED callVars
  /\ UNCHANGED <<walletVars, offer, deleted, unlocks, purchases, packages,
                 sessions, consumed>>

\* Mutant: the token is consumed before the wallet transaction.
StoreCreditConsumesFirst(c, u, t) ==
  /\ packages[ProductOf[t]].active
  /\ Enter(c, "begin", [kind |-> "purchase", user |-> u, ext |-> t,
                        coins |-> packages[ProductOf[t]].coins])
  /\ consumed' = consumed \cup ({t} \cap GoogleTokens)
  /\ UNCHANGED <<walletVars, offer, deleted, unlocks, purchases, packages,
                 sessions, acked>>

\* creditFromAppleTransaction, creditFromGooglePurchase: the store confirms the
\* purchase, whoever presents it; there is no look-up before the transaction.
StoreCredit(c, u, t) ==
  /\ packages[ProductOf[t]].active
  /\ Enter(c, "begin", [kind |-> "purchase", user |-> u, ext |-> t,
                        coins |-> packages[ProductOf[t]].coins])
  /\ UNCHANGED <<walletVars, shopVars>>

\* AdminCoinsController.adjustment.
Adjustment(c, u, amount, k) ==
  /\ Enter(c, "begin", [kind |-> "adjust", user |-> u, amount |-> amount, key |-> k])
  /\ UNCHANGED <<walletVars, shopVars>>
---------------------------------------------------------------------------
(* The wallet transaction of a request.                                    *)

\* The move a purchase makes in the buyer's wallet.
PurchaseType(e) == IF e \in StripeEvents THEN "PURCHASE_STRIPE"
                   ELSE IF e \in AppleTxns THEN "PURCHASE_APPLE" ELSE "PURCHASE_GOOGLE"

\* The applyDeltaTx calls of the request's transaction.
Moves(r) ==
  CASE r.kind = "unlock" ->
         [u \in {r.user, Author[r.post]} |->
            IF u = r.user
            THEN [type |-> "SPEND_UNLOCK", amount |-> -r.price,
                  key |-> SpendKey(u, r.post, r.uuid)]
            ELSE [type |-> "CREATOR_EARN", amount |-> CreatorShare(r.price),
                  key |-> EarnKey(u, r.post, r.uuid)]]
    [] r.kind = "purchase" ->
         [u \in {r.user} |-> [type |-> PurchaseType(r.ext), amount |-> r.coins,
                              key |-> PurchaseKey(r.ext)]]
    [] r.kind = "adjust" ->
         [u \in {r.user} |-> [type |-> "ADJUSTMENT", amount |-> r.amount,
                              key |-> AdminKey(u, r.key)]]

Bought == {b.ext : b \in purchases}
Unlocked(u, p) == \E r \in unlocks : r.user = u /\ r.post = p

\* Mutant: a webhook that finds its purchase done throws.
LookupThrowsOnDuplicate(c) ==
  /\ pc[c] = "lookup"
  /\ \/ /\ req[c].kind = "unlock" /\ Unlocked(req[c].user, req[c].post)
        /\ Leave(c)
     \/ /\ req[c].kind = "purchase" /\ req[c].ext \in Bought
        /\ Leave(c)
     \/ /\ req[c].kind = "unlock" => ~Unlocked(req[c].user, req[c].post)
        /\ req[c].kind = "purchase" => req[c].ext \notin Bought
        /\ Goto(c, "begin")
        /\ UNCHANGED <<req, view>>
  /\ UNCHANGED <<walletVars, shopVars>>

\* The look-up before the transaction: an unlock or a webhook that finds its
\* work done answers at once.
Lookup(c) ==
  /\ pc[c] = "lookup"
  /\ \/ /\ req[c].kind = "unlock" /\ Unlocked(req[c].user, req[c].post)
        /\ Leave(c)
     \/ /\ req[c].kind = "purchase" /\ req[c].ext \in Bought
        /\ Goto(c, "reply")
        /\ UNCHANGED <<req, view>>
     \/ /\ req[c].kind = "unlock" => ~Unlocked(req[c].user, req[c].post)
        /\ req[c].kind = "purchase" => req[c].ext \notin Bought
        /\ Goto(c, "begin")
        /\ UNCHANGED <<req, view>>
  /\ UNCHANGED <<walletVars, shopVars>>

\* The transaction's snapshot, taken by its first query.
BeginTx(c) ==
  /\ pc[c] = "begin"
  /\ Goto(c, "commit")
  /\ view' = [view EXCEPT ![c] = [balance |-> balance, ledger |-> ledger,
                                  bought |-> Bought]]
  /\ UNCHANGED <<walletVars, shopVars, req>>

\* Mutant: no unique index on (userId, postId).
CommitUnlockNoIndex(c) ==
  LET r == req[c] IN
  /\ pc[c] = "commit" /\ r.kind = "unlock"
  /\ r.post \notin deleted
  /\ ApplyMoves(view[c], Moves(r))
  /\ unlocks' = unlocks \cup {[user |-> r.user, post |-> r.post, paid |-> r.price,
                               fee |-> PlatformFee(r.price)]}
  /\ Leave(c)
  /\ UNCHANGED <<offer, deleted, purchases, packages, sessions, acked, consumed>>

\* Mutant: the PostUnlock row is left to a later write.
CommitUnlockChargesOnly(c) ==
  LET r == req[c] IN
  /\ pc[c] = "commit" /\ r.kind = "unlock"
  /\ ~Unlocked(r.user, r.post) /\ r.post \notin deleted
  /\ ApplyMoves(view[c], Moves(r))
  /\ Leave(c)
  /\ UNCHANGED shopVars

\* The unlock commits: both moves and the PostUnlock row, whose unique index
\* and foreign key are checked against the committed rows.
CommitUnlock(c) ==
  LET r == req[c] IN
  /\ pc[c] = "commit" /\ r.kind = "unlock"
  /\ ~Unlocked(r.user, r.post) /\ r.post \notin deleted
  /\ ApplyMoves(view[c], Moves(r))
  /\ unlocks' = unlocks \cup {[user |-> r.user, post |-> r.post, paid |-> r.price,
                               fee |-> PlatformFee(r.price)]}
  /\ Leave(c)
  /\ UNCHANGED <<offer, deleted, purchases, packages, sessions, acked, consumed>>

\* Mutant: neither the look-up nor the unique index on (provider, externalId).
CommitPurchaseNoIndex(c) ==
  LET r == req[c] IN
  /\ pc[c] = "commit" /\ r.kind = "purchase"
  /\ ApplyMoves(view[c], Moves(r))
  /\ purchases' = purchases \cup {[ext |-> r.ext, user |-> r.user, coins |-> r.coins]}
  /\ Goto(c, "reply")
  /\ view' = [view EXCEPT ![c] = NoView]
  /\ UNCHANGED <<offer, deleted, unlocks, packages, sessions, acked, consumed, req>>

\* The purchase commits: the CoinPurchase row, under its unique index, and the
\* credit.
CommitPurchase(c) ==
  LET r == req[c] IN
  /\ pc[c] = "commit" /\ r.kind = "purchase"
  /\ r.ext \notin view[c].bought /\ r.ext \notin Bought
  /\ ApplyMoves(view[c], Moves(r))
  /\ purchases' = purchases \cup {[ext |-> r.ext, user |-> r.user, coins |-> r.coins]}
  /\ Goto(c, "reply")
  /\ view' = [view EXCEPT ![c] = NoView]
  /\ UNCHANGED <<offer, deleted, unlocks, packages, sessions, acked, consumed, req>>

\* The snapshot already holds the COMPLETED purchase: nothing is written, and
\* the caller is told "credited" all the same.
FindPurchase(c) ==
  /\ pc[c] = "commit" /\ req[c].kind = "purchase"
  /\ req[c].ext \in view[c].bought
  /\ Goto(c, "reply")
  /\ view' = [view EXCEPT ![c] = NoView]
  /\ UNCHANGED <<walletVars, shopVars, req>>

\* The admin adjustment commits; under a used key it changes nothing.
CommitAdjustment(c) ==
  /\ pc[c] = "commit" /\ req[c].kind = "adjust"
  /\ ApplyMoves(view[c], Moves(req[c]))
  /\ Leave(c)
  /\ UNCHANGED shopVars

\* The transaction throws (insufficient balance, P2034, P2002, foreign key,
\* database down) and the request answers an error.  Stripe sees no 2xx.
AbortTx(c) ==
  /\ pc[c] = "commit"
  /\ Leave(c)
  /\ UNCHANGED <<walletVars, shopVars>>

\* After the commit: the webhook answers 2xx, a Google token is consumed if the
\* store takes the call, an Apple credit just answers.
Reply(c) ==
  LET e == req[c].ext IN
  /\ pc[c] = "reply"
  /\ acked' = IF e \in StripeEvents THEN [acked EXCEPT ![e] = "credited"] ELSE acked
  /\ consumed' \in IF e \in GoogleTokens THEN {consumed, consumed \cup {e}}
                   ELSE {consumed}
  /\ Leave(c)
  /\ UNCHANGED <<walletVars, offer, deleted, unlocks, purchases, packages, sessions>>

\* The process restarts while the request is in flight; an open transaction
\* is rolled back by the database.
Crash(c) ==
  /\ pc[c] # "idle"
  /\ Leave(c)
  /\ UNCHANGED <<walletVars, shopVars>>

Step(c) ==
  \/ Lookup(c) \/ BeginTx(c)
  \/ CommitUnlock(c) \/ CommitPurchase(c) \/ FindPurchase(c) \/ CommitAdjustment(c)
  \/ AbortTx(c) \/ Reply(c)

Next ==
  \/ \E p \in Posts : DeletePost(p) \/ \E x \in Prices \cup {0} : EditPost(p, x)
  \/ \E k \in Packages, a \in BOOLEAN, n \in CoinAmounts : PatchPackage(k, a, n)
  \/ \E s \in Sessions, u \in Users, k \in Packages : CreateStripeCheckoutSession(s, u, k)
  \/ \E c \in Workers :
       \/ \E u \in Users, p \in Posts, x \in Uuids : UnlockPost(c, u, p, x)
       \/ \E e \in StripeEvents : Webhook(c, e)
       \/ \E u \in Users, t \in StoreTxns : StoreCredit(c, u, t)
       \/ \E u \in Users, n \in AdminAmounts, k \in AdminKeys : Adjustment(c, u, n, k)
       \/ Step(c) \/ Crash(c)

Spec == Init /\ [][Next]_vars

\* Stripe redelivers an event until it is answered 2xx.
Redelivery(e) == acked[e] = "no" /\ \E c \in Workers : Webhook(c, e)

\* Worker c is handling event e.
Handling(c, e) == req[c].kind = "purchase" /\ req[c].ext = e

\* A worker does not stop at an await for ever (WF).  The deliveries of one
\* event are not all cut short by a crash at the same await, and its
\* transaction, retried for ever, commits once nothing conflicts with it (SF).
FairSpec ==
  /\ Spec
  /\ \A c \in Workers : WF_vars(Step(c))
  /\ \A e \in StripeEvents :
       /\ SF_vars(Redelivery(e))
       /\ SF_vars(\E c \in Workers : Handling(c, e) /\ Lookup(c))
       /\ SF_vars(\E c \in Workers : Handling(c, e) /\ BeginTx(c))
       /\ SF_vars(\E c \in Workers : Handling(c, e) /\ (CommitPurchase(c) \/ FindPurchase(c)))
       /\ SF_vars(\E c \in Workers : Handling(c, e) /\ Reply(c))

---------------------------------------------------------------------------
(* Properties.                                                             *)

\* The wallets implement the abstract journal: whatever the interleaving of
\* snapshots and commits, coins move one atomic posting at a time.
Journal == INSTANCE Ledger
ImplementsLedger == Journal!Spec

\* Where the ledger of u records the unlock of p.
SpendRows(u, p) ==
  {i \in 1..Len(ledger[u]) : \E x \in Uuids : ledger[u][i].key = SpendKey(u, p, x)}

\* A viewer pays a post once, at most: two concurrent unlock requests of one
\* viewer cannot both charge, and while the post exists the charge and the
\* unlock go together, with the amount the unlock row says was paid.
UnlockPaidOnce ==
  \A u \in Users, p \in Posts :
    /\ Cardinality(SpendRows(u, p)) <= 1
    /\ p \notin deleted => (SpendRows(u, p) # {} <=> Unlocked(u, p))
    /\ \A r \in unlocks : r.user = u /\ r.post = p =>
         \A i \in SpendRows(u, p) : ledger[u][i].amount = -r.paid

\* Every charge pays its author in the same breath, and charge, earning and
\* platform fee of an unlock add up to zero, rounding included.
ChargePaysAuthor ==
  \A u \in Users, p \in Posts, x \in Uuids :
    LET spent == {i \in 1..Len(ledger[u]) : ledger[u][i].key = SpendKey(u, p, x)}
        a == Author[p]
        earned == {j \in 1..Len(ledger[a]) : ledger[a][j].key = EarnKey(a, p, x)}
    IN spent # {} =>
         \E i \in spent, j \in earned :
           \A r \in unlocks : r.user = u /\ r.post = p =>
             ledger[u][i].amount + ledger[a][j].amount + r.fee = 0

\* Each store purchase or Stripe event is credited once, to one user, with the
\* coins its purchase row says; there is no row without its credit.  Holds
\* under duplicated and concurrent deliveries and retries after a crash.
CreditedOnce ==
  /\ \A a, b \in purchases : a.ext = b.ext => a = b
  /\ \A u \in Users : \A i \in 1..Len(ledger[u]) : \A e \in ExternalIds :
       ledger[u][i].key = PurchaseKey(e) =>
         [ext |-> e, user |-> u, coins |-> ledger[u][i].amount] \in purchases
  /\ \A b \in purchases : \E i \in 1..Len(ledger[b.user]) :
       ledger[b.user][i].key = PurchaseKey(b.ext)

\* The server tells the outside world "done" only after the coins are there:
\* an event it acknowledged as credited, and a Google token it consumed, has
\* its purchase row.  A crash in between may only cause a redelivery.
DoneMeansCredited ==
  /\ \A e \in StripeEvents : acked[e] = "credited" => e \in Bought
  /\ consumed \subseteq Bought

\* Coins leave a wallet only for an unlock granted by the same step, or by an
\* admin's adjustment.
SpendsOnlyForUnlock ==
  [][\A u \in Users : balance'[u] < balance[u] =>
       \/ ledger'[u][Len(ledger'[u])].type = "ADJUSTMENT"
       \/ \E r \in unlocks' \ unlocks :
            r.user = u /\ r.paid = balance[u] - balance'[u]]_vars

\* An event of a paid session is answered in the end: crashes, conflicts and
\* concurrent duplicates only delay it.
EventsAnswered ==
  \A e \in StripeEvents : sessions[SessionOf[e]] # NoReq ~> acked[e] # "no"
=============================================================================
