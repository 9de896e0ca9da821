------------------------------ MODULE DeviceKeysProofs ------------------------------
(***************************************************************************)
(* Olm keys, for every set of users, devices and keys, every limit of the  *)
(* pool and any finite number of concurrent requests: a one-time key goes  *)
(* to one peer, an active device has a fallback key, the pool is bounded,  *)
(* and peers see the atomic server of KeyServer.                           *)
(***************************************************************************)
EXTENDS DeviceKeys, FiniteSetTheorems, TLAPS

\* What a request carries from one await to the next.  An upload that brings no
\* fallback key retires none, and a device that is being revoked has its row.
CarriedBy(c) ==
  /\ pc[c] = "idle" => req[c] = NoReq
  /\ pc[c] = "register" => req[c] \in RegisterReqs
  /\ pc[c] \in {"count", "dups", "retire", "upload"} =>
       req[c] \in UploadReqs /\ (req[c].fallback = NoKey => req[c].retire = {})
  /\ pc[c] \in {"count", "dups"} => req[c].retire = {}
  /\ pc[c] = "retire" => req[c].fallback # NoKey
  /\ pc[c] = "revoke" => req[c] \in RevokeReqs /\ status[req[c].device] # "none"
  /\ pc[c] \in {"claim", "fallback"} => req[c] \in ClaimReqs

Carried == \A c \in Workers : CarriedBy(c)

\* A key of a device has at most one row (the unique index), and it was handed to
\* a peer exactly if that row is claimed.
RowsUnique ==
  \A r, s \in otks : r.device = s.device /\ r.key = s.key => r = s
HandedIfClaimed ==
  \A d \in Devices, k \in OneTimeKeys :
    handed[d][k] = IF [device |-> d, key |-> k, claimed |-> TRUE] \in otks THEN 1 ELSE 0

\* The uploads for d that have counted its pool, and not committed yet.
Counted(d) ==
  {c \in Workers : pc[c] \in {"dups", "retire", "upload"} /\ req[c].device = d}

\* The pool and what the counted uploads can still add to it: u keys are unclaimed
\* and c \in C brings k[c] more.  The upload that counted last saw a pool with room
\* for its keys, each of the others brings PoolMax at most.
Fits(u, C, k) ==
  /\ C = {} => u <= PoolMax * Cardinality(Workers)
  /\ C # {} => \E c \in C :
       u + k[c] + PoolMax * (Cardinality(C) - 1) <= PoolMax * Cardinality(Workers)

SizesOf(d) == [c \in Counted(d) |-> Cardinality(req[c].keys)]

PoolRoom(d) ==
  /\ IsFiniteSet(Unclaimed(d))
  /\ Fits(Cardinality(Unclaimed(d)), Counted(d), SizesOf(d))

DeviceInv ==
  /\ TypeOK /\ Carried
  /\ RowsUnique /\ HandedIfClaimed
  /\ FallbackAvailable
  /\ \A d \in Devices : PoolRoom(d)
---------------------------------------------------------------------------
(* How requests move.                                                      *)

Reqs == {NoReq} \cup RegisterReqs \cup UploadReqs \cup RevokeReqs \cup ClaimReqs

\* The requests, by their kind.
LEMMA ReqKinds ==
  /\ NoReq \in Reqs /\ RegisterReqs \subseteq Reqs /\ UploadReqs \subseteq Reqs
  /\ RevokeReqs \subseteq Reqs /\ ClaimReqs \subseteq Reqs
  /\ \A r \in Reqs : r.kind = "upload" => r \in UploadReqs
  /\ NoReq \notin UploadReqs
BY DEF Reqs, NoReq, RegisterReqs, UploadReqs, RevokeReqs, ClaimReqs

\* Each worker is at an await, with a request.
LEMMA WorkerTypes == TypeOK => pc \in [Workers -> PCs] /\ req \in [Workers -> Reqs]
BY DEF TypeOK, Reqs

\* A worker moves, and the others stay where they are.
LEMMA WorkerMoves ==
  ASSUME TypeOK, NEW c \in Workers
  PROVE  /\ \A label : Goto(c, label) =>
              pc'[c] = label /\ \A x \in Workers \ {c} : pc'[x] = pc[x]
         /\ \A label \in PCs : Goto(c, label) => pc' \in [Workers -> PCs]
         /\ Leave(c) =>
              /\ pc'[c] = "idle" /\ req'[c] = NoReq
              /\ \A x \in Workers \ {c} : pc'[x] = pc[x] /\ req'[x] = req[x]
              /\ pc' \in [Workers -> PCs] /\ req' \in [Workers -> Reqs]
         /\ \A label, r : Enter(c, label, r) =>
              /\ pc[c] = "idle" /\ pc'[c] = label /\ req'[c] = r
              /\ \A x \in Workers \ {c} : pc'[x] = pc[x] /\ req'[x] = req[x]
         /\ \A label \in PCs, r \in Reqs : Enter(c, label, r) =>
              pc' \in [Workers -> PCs] /\ req' \in [Workers -> Reqs]
<1>1. pc \in [Workers -> PCs] /\ req \in [Workers -> Reqs] /\ NoReq \in Reqs /\ "idle" \in PCs
  BY WorkerTypes, ReqKinds DEF PCs
<1> QED BY <1>1 DEF Goto, Leave, Enter

\* Registration and revocation end the request, and the uploads in flight for the
\* device have nothing left to retire.
LEMMA KeysReplaced ==
  ASSUME TypeOK, NEW c \in Workers, NEW d \in Devices, NEW O, NEW F, ReplaceKeys(c, d, O, F)
  PROVE  /\ pc'[c] = "idle" /\ req'[c] = NoReq
         /\ \A x \in Workers \ {c} :
              /\ pc'[x] = pc[x]
              /\ \/ req'[x] = req[x]
                 \/ /\ req[x] \in UploadReqs /\ req[x].device = d
                    /\ req'[x] \in UploadReqs /\ req'[x].retire = {}
                    /\ req'[x].device = d /\ req'[x].keys = req[x].keys
                    /\ req'[x].fallback = req[x].fallback
         /\ pc' \in [Workers -> PCs] /\ req' \in [Workers -> Reqs]
<1>1. pc' \in [Workers -> PCs] /\ pc'[c] = "idle" /\ \A x \in Workers \ {c} : pc'[x] = pc[x]
  BY WorkerMoves DEF ReplaceKeys, PCs
<1>2. req'[c] = NoReq
  BY DEF ReplaceKeys
<1>3. ASSUME NEW x \in Workers \ {c}, req'[x] # req[x]
      PROVE  /\ req[x] \in UploadReqs /\ req[x].device = d
             /\ req'[x] = [req[x] EXCEPT !.retire = {}]
  <2>1. req[x].kind = "upload" /\ req[x].device = d /\ req'[x] = [req[x] EXCEPT !.retire = {}]
    BY <1>3 DEF ReplaceKeys
  <2> QED BY <2>1, WorkerTypes, ReqKinds
<1>4. ASSUME NEW r \in UploadReqs, NEW s, s = [r EXCEPT !.retire = {}]
      PROVE  /\ s \in UploadReqs /\ s.retire = {} /\ s.device = r.device /\ s.keys = r.keys
             /\ s.fallback = r.fallback
  BY <1>4 DEF UploadReqs
<1>5. \A x \in Workers \ {c} : req'[x] \in Reqs
  BY <1>3, <1>4, WorkerTypes, ReqKinds
<1>6. req' \in [Workers -> Reqs]
  BY <1>2, <1>5, ReqKinds DEF ReplaceKeys
<1>7. ASSUME NEW x \in Workers \ {c}
      PROVE  /\ pc'[x] = pc[x]
              /\ \/ req'[x] = req[x]
                 \/ /\ req[x] \in UploadReqs /\ req[x].device = d
                    /\ req'[x] \in UploadReqs /\ req'[x].retire = {}
                    /\ req'[x].device = d /\ req'[x].keys = req[x].keys
                    /\ req'[x].fallback = req[x].fallback
  <2>1. CASE req'[x] = req[x]
    BY <1>1, <2>1
  <2>2. CASE req'[x] # req[x]
    <3>1. /\ req[x] \in UploadReqs /\ req[x].device = d
          /\ req'[x] = [req[x] EXCEPT !.retire = {}]
      BY <1>3, <2>2
    <3> QED BY <1>1, <1>4, <3>1
  <2> QED BY <2>1, <2>2
<1> QED BY <1>1, <1>2, <1>6, <1>7

\* The lists of keys: what is left of one is one, and they can be counted.
LEMMA Lists ==
  ASSUME NEW K \in KeyLists
  PROVE  /\ K \subseteq OneTimeKeys /\ IsFiniteSet(K)
         /\ Cardinality(K) \in Nat /\ Cardinality(K) <= PoolMax
         /\ \A L \in SUBSET K : L \in KeyLists /\ Cardinality(L) \in Nat
                                /\ Cardinality(L) <= Cardinality(K)
<1>1. K \subseteq OneTimeKeys /\ IsFiniteSet(K) /\ Cardinality(K) <= PoolMax
  BY DEF KeyLists
<1>2. Cardinality(K) \in Nat /\ PoolMax \in Nat
  BY <1>1, FS_CardinalityType, DeviceAssumption
<1>3. ASSUME NEW L \in SUBSET K
      PROVE  L \in KeyLists /\ Cardinality(L) \in Nat /\ Cardinality(L) <= Cardinality(K)
  <2>1. IsFiniteSet(L) /\ Cardinality(L) <= Cardinality(K)
    BY <1>1, FS_Subset
  <2>2. Cardinality(L) \in Nat
    BY <2>1, FS_CardinalityType
  <2>3. Cardinality(L) <= PoolMax
    BY <1>1, <1>2, <2>1, <2>2
  <2> QED BY <1>1, <2>1, <2>2, <2>3 DEF KeyLists
<1> QED BY <1>1, <1>2, <1>3
---------------------------------------------------------------------------
(* Types, and what requests carry.                                         *)

\* Everything but registrations and revocations, uploads and claims of a one-time
\* key, leaves the rows alone.
RowsAlone == UNCHANGED <<status, otks, fallbacks, handed, spent>>

\* Steps of one request that leave the rows alone, with what it carries then.
Moves(c) ==
  /\ RowsAlone
  /\ renewals' \in [Devices -> 0..MaxRenewals]
  /\ pc' \in [Workers -> PCs] /\ req' \in [Workers -> Reqs]
  /\ \A x \in Workers \ {c} : pc'[x] = pc[x] /\ req'[x] = req[x]

\* register has read whether the device has a row.
LEMMA RegisterMoves ==
  ASSUME TypeOK, NEW c \in Workers, NEW d \in Devices, NEW K \in KeyLists \ {{}},
         NEW f \in FallbackKeys, Register(c, d, K, f)
  PROVE  Moves(c) /\ pc'[c] = "register" /\ req'[c] \in RegisterReqs
<1> DEFINE r == [kind |-> "register", device |-> d, keys |-> K,
                 fallback |-> f, known |-> status[d] # "none"]
<1>1. r \in RegisterReqs
  BY DEF RegisterReqs
<1>2. Enter(c, "register", r)
  BY DEF Register
<1>3. renewals' \in [Devices -> 0..MaxRenewals]
  BY DeviceAssumption DEF Register, Renew, TypeOK
<1> HIDE DEF r
<1> QED BY <1>1, <1>2, <1>3, WorkerMoves, ReqKinds DEF Register, Moves, RowsAlone, PCs

\* revoke has found its device.
LEMMA RevokeMoves ==
  ASSUME TypeOK, NEW c \in Workers, NEW d \in Devices, Revoke(c, d)
  PROVE  /\ Moves(c) /\ pc'[c] = "revoke" /\ req'[c] \in RevokeReqs
         /\ status'[req'[c].device] # "none"
<1> DEFINE r == [kind |-> "revoke", device |-> d]
<1>1. r \in RevokeReqs /\ r.device = d
  BY DEF RevokeReqs
<1>2. Enter(c, "revoke", r) /\ status' = status /\ status[d] = "active"
  BY DEF Revoke
<1>3. renewals' \in [Devices -> 0..MaxRenewals]
  BY DeviceAssumption DEF Revoke, Renew, TypeOK
<1> HIDE DEF r
<1> QED BY <1>1, <1>2, <1>3, WorkerMoves, ReqKinds DEF Revoke, Moves, RowsAlone, PCs

\* An upload begins, with no row to retire yet.
LEMMA UploadMoves ==
  ASSUME TypeOK, NEW c \in Workers, NEW d \in Devices, NEW K \in KeyLists,
         NEW f \in FallbackKeys \cup {NoKey}, UploadOneTimeKeys(c, d, K, f)
  PROVE  Moves(c) /\ pc'[c] = "count" /\ req'[c] \in UploadReqs /\ req'[c].retire = {}
<1> DEFINE r == [kind |-> "upload", device |-> d, keys |-> K, fallback |-> f, retire |-> {}]
<1>1. r \in UploadReqs /\ r.retire = {}
  BY DEF UploadReqs
<1>2. Enter(c, "count", r)
  BY DEF UploadOneTimeKeys
<1> HIDE DEF r
<1> QED
  BY <1>1, <1>2, WorkerMoves, ReqKinds DEF UploadOneTimeKeys, Moves, RowsAlone, keyVars, PCs, TypeOK

\* claimKeys has listed the devices it will visit.
LEMMA ClaimMoves ==
  ASSUME TypeOK, NEW c \in Workers, NEW u \in Users, ClaimKeys(c, u)
  PROVE  Moves(c) /\ pc'[c] = "claim" /\ req'[c] \in ClaimReqs
<1> DEFINE r == [kind |-> "claim",
                 todo |-> {d \in Devices : Owner[d] = u /\ status[d] = "active"}]
<1>1. r \in ClaimReqs
  BY DEF ClaimReqs
<1>2. Enter(c, "claim", r)
  BY DEF ClaimKeys
<1> HIDE DEF r
<1> QED
  BY <1>1, <1>2, WorkerMoves, ReqKinds DEF ClaimKeys, Moves, RowsAlone, keyVars, PCs, TypeOK

\* The steps of an upload before its transaction.
LEMMA CountMoves ==
  ASSUME TypeOK, Carried, NEW c \in Workers, CountOtks(c)
  PROVE  /\ Moves(c) /\ pc[c] = "count"
         /\ \/ pc'[c] = "idle" /\ req'[c] = NoReq
            \/ /\ pc'[c] = "dups" /\ req'[c] = req[c] /\ req[c] \in UploadReqs
               /\ ~(Cardinality(Unclaimed(req[c].device)) + Cardinality(req[c].keys) > PoolMax)
<1>1. req[c] \in UploadReqs /\ UNCHANGED keyVars
  BY DEF CountOtks, Carried, CarriedBy
<1>2. CASE Leave(c)
  BY <1>1, <1>2, WorkerMoves DEF CountOtks, Moves, RowsAlone, keyVars, TypeOK
<1>3. CASE ~Leave(c)
  BY <1>1, <1>3, WorkerMoves, WorkerTypes DEF CountOtks, Moves, RowsAlone, keyVars, PCs, TypeOK
<1> QED BY <1>2, <1>3

\* An upload drops the keys that have a row, and retires only for a new fallback.
LEMMA SkipMoves ==
  ASSUME TypeOK, Carried, NEW c \in Workers, SkipDuplicates(c)
  PROVE  /\ Moves(c) /\ pc[c] = "dups" /\ pc'[c] \in {"upload", "retire"}
         /\ pc'[c] = "retire" => req[c].fallback # NoKey
         /\ req[c] \in UploadReqs /\ req'[c] \in UploadReqs
         /\ req'[c].device = req[c].device /\ req'[c].fallback = req[c].fallback
         /\ req'[c].retire = {} /\ req'[c].keys = req[c].keys \ OtksOf(req[c].device)
<1> DEFINE K == req[c].keys \ OtksOf(req[c].device)
           r == [req[c] EXCEPT !.keys = K]
<1>1. req[c] \in UploadReqs /\ req[c].retire = {} /\ pc[c] = "dups"
  BY DEF SkipDuplicates, Carried, CarriedBy
<1>2. K \in KeyLists
  <2>1. req[c].keys \in KeyLists
    BY <1>1 DEF UploadReqs
  <2> QED BY <2>1, Lists
<1>3. /\ r \in UploadReqs /\ r.device = req[c].device /\ r.fallback = req[c].fallback
      /\ r.retire = {} /\ r.keys = K
  <2> HIDE DEF K
  <2> QED BY <1>1, <1>2 DEF UploadReqs
<1>4. req' = [req EXCEPT ![c] = r] /\ UNCHANGED keyVars
  BY DEF SkipDuplicates
<1> HIDE DEF r
<1>5. req' \in [Workers -> Reqs] /\ req'[c] = r /\ \A x \in Workers \ {c} : req'[x] = req[x]
  BY <1>3, <1>4, WorkerTypes, ReqKinds
<1>6. /\ pc'[c] = IF req[c].fallback = NoKey THEN "upload" ELSE "retire"
      /\ pc' \in [Workers -> PCs] /\ \A x \in Workers \ {c} : pc'[x] = pc[x]
  BY WorkerMoves DEF SkipDuplicates, PCs
<1>7. Moves(c)
  BY <1>4, <1>5, <1>6 DEF Moves, RowsAlone, keyVars, TypeOK
<1> QED BY <1>1, <1>3, <1>5, <1>6, <1>7

\* An upload has read the fallback rows it will retire.
LEMMA RetireMoves ==
  ASSUME TypeOK, Carried, NEW c \in Workers, RetireFallbacks(c)
  PROVE  /\ Moves(c) /\ pc[c] = "retire" /\ pc'[c] = "upload"
         /\ req[c] \in UploadReqs /\ req'[c] \in UploadReqs
         /\ req'[c].device = req[c].device /\ req'[c].fallback = req[c].fallback
         /\ req'[c].keys = req[c].keys /\ req[c].fallback # NoKey
<1> DEFINE R == {s.key : s \in ActiveFallbacks(req[c].device)}
           r == [req[c] EXCEPT !.retire = R]
<1>1. req[c] \in UploadReqs /\ req[c].fallback # NoKey /\ pc[c] = "retire"
  BY DEF RetireFallbacks, Carried, CarriedBy
<1>2. R \subseteq FallbackKeys
  BY DEF ActiveFallbacks, TypeOK
<1>3. /\ r \in UploadReqs /\ r.device = req[c].device /\ r.fallback = req[c].fallback
      /\ r.keys = req[c].keys
  <2> HIDE DEF R
  <2> QED BY <1>1, <1>2 DEF UploadReqs
<1>4. req' = [req EXCEPT ![c] = r] /\ UNCHANGED keyVars
  BY DEF RetireFallbacks
<1> HIDE DEF r
<1>5. req' \in [Workers -> Reqs] /\ req'[c] = r /\ \A x \in Workers \ {c} : req'[x] = req[x]
  BY <1>3, <1>4, WorkerTypes, ReqKinds
<1>6. /\ pc'[c] = "upload"
      /\ pc' \in [Workers -> PCs] /\ \A x \in Workers \ {c} : pc'[x] = pc[x]
  BY WorkerMoves DEF RetireFallbacks, PCs
<1>7. Moves(c)
  BY <1>4, <1>5, <1>6 DEF Moves, RowsAlone, keyVars, TypeOK
<1> QED BY <1>1, <1>3, <1>5, <1>6, <1>7

\* The steps of a claim that take no key, and the end of a request.
LEMMA OtherMoves ==
  ASSUME TypeOK, Carried, NEW c \in Workers,
         \/ \E d \in Devices : ClaimNone(c, d)
         \/ ClaimFallback(c) \/ ClaimDone(c) \/ Fail(c)
  PROVE  /\ Moves(c)
         /\ \/ pc'[c] = "idle" /\ req'[c] = NoReq
            \/ pc'[c] \in {"claim", "fallback"} /\ req'[c] \in ClaimReqs
<1>0. renewals' \in [Devices -> 0..MaxRenewals] /\ RowsAlone
  BY DEF ClaimNone, ClaimFallback, ClaimDone, Fail, RowsAlone, keyVars, TypeOK
<1>1. ASSUME NEW d \in Devices, ClaimNone(c, d)
      PROVE  Moves(c) /\ pc'[c] = "fallback" /\ req'[c] \in ClaimReqs
  <2> DEFINE r == [req[c] EXCEPT !.todo = @ \ {d}]
  <2>1. req[c] \in ClaimReqs
    BY <1>1 DEF ClaimNone, Carried, CarriedBy
  <2>2. r \in ClaimReqs
    BY <2>1 DEF ClaimReqs
  <2>3. req' = [req EXCEPT ![c] = r]
    BY <1>1 DEF ClaimNone
  <2> HIDE DEF r
  <2>4. req' \in [Workers -> Reqs] /\ req'[c] = r /\ \A x \in Workers \ {c} : req'[x] = req[x]
    BY <2>2, <2>3, WorkerTypes, ReqKinds
  <2>5. /\ pc'[c] = "fallback"
        /\ pc' \in [Workers -> PCs] /\ \A x \in Workers \ {c} : pc'[x] = pc[x]
    BY <1>1, WorkerMoves DEF ClaimNone, PCs
  <2> QED BY <1>0, <2>2, <2>4, <2>5 DEF Moves
<1>2. ASSUME ClaimFallback(c)
      PROVE  Moves(c) /\ pc'[c] = "claim" /\ req'[c] \in ClaimReqs
  BY <1>0, <1>2, WorkerMoves, WorkerTypes DEF ClaimFallback, PCs, Moves, Carried, CarriedBy
<1>3. ASSUME ClaimDone(c) \/ Fail(c)
      PROVE  Moves(c) /\ pc'[c] = "idle" /\ req'[c] = NoReq
  BY <1>0, <1>3, WorkerMoves DEF ClaimDone, Fail, Moves
<1> QED BY <1>1, <1>2, <1>3
\* What such a step means for the pool of a device.
Uncounted(c) == pc'[c] \notin {"dups", "retire", "upload"}

Counts(c) ==
  /\ pc[c] = "count" /\ pc'[c] = "dups" /\ req'[c] = req[c] /\ req[c] \in UploadReqs
  /\ ~(Cardinality(Unclaimed(req[c].device)) + Cardinality(req[c].keys) > PoolMax)

GoesOn(c) ==
  /\ pc[c] \in {"dups", "retire"} /\ pc'[c] \in {"retire", "upload"}
  /\ req[c] \in UploadReqs /\ req'[c] \in UploadReqs
  /\ req'[c].device = req[c].device /\ req'[c].keys \subseteq req[c].keys

\* A step is one of a request that leaves the rows alone, or a transaction.
LEMMA Steps ==
  ASSUME TypeOK, Carried, [Next]_vars
  PROVE  \/ UNCHANGED vars
         \/ \E c \in Workers :
              Moves(c) /\ CarriedBy(c)' /\ (Uncounted(c) \/ Counts(c) \/ GoesOn(c))
         \/ \E c \in Workers :
              CommitRegister(c) \/ CommitRevoke(c) \/ CommitUpload(c)
                \/ \E d \in Devices : ClaimOtk(c, d)
<1> DEFINE Goal(c) == Moves(c) /\ CarriedBy(c)' /\ (Uncounted(c) \/ Counts(c) \/ GoesOn(c))
<1> USE DEF Uncounted
<1>1. ASSUME NEW c \in Workers, NEW d \in Devices, NEW K \in KeyLists \ {{}},
             NEW f \in FallbackKeys, Register(c, d, K, f)
      PROVE  Goal(c)
  BY <1>1, RegisterMoves DEF CarriedBy
<1>2. ASSUME NEW c \in Workers, NEW d \in Devices, NEW K \in KeyLists,
             NEW f \in FallbackKeys \cup {NoKey}, UploadOneTimeKeys(c, d, K, f)
      PROVE  Goal(c)
  BY <1>2, UploadMoves DEF CarriedBy
<1>3. ASSUME NEW c \in Workers, NEW d \in Devices, Revoke(c, d)
      PROVE  Goal(c)
  BY <1>3, RevokeMoves DEF CarriedBy
<1>4. ASSUME NEW c \in Workers, NEW u \in Users, ClaimKeys(c, u)
      PROVE  Goal(c)
  BY <1>4, ClaimMoves DEF CarriedBy
<1>5. ASSUME NEW c \in Workers, CountOtks(c)
      PROVE  Goal(c)
  BY <1>5, CountMoves DEF CarriedBy, Counts, Carried
<1>6. ASSUME NEW c \in Workers, SkipDuplicates(c)
      PROVE  Goal(c)
  <2>1. GoesOn(c)
    BY <1>6, SkipMoves DEF GoesOn
  <2>2. CarriedBy(c)'
    BY <1>6, SkipMoves DEF CarriedBy
  <2> QED BY <1>6, <2>1, <2>2, SkipMoves
<1>7. ASSUME NEW c \in Workers, RetireFallbacks(c)
      PROVE  Goal(c)
  <2>1. GoesOn(c)
    BY <1>7, RetireMoves DEF GoesOn
  <2>2. CarriedBy(c)'
    BY <1>7, RetireMoves DEF CarriedBy
  <2> QED BY <1>7, <2>1, <2>2, RetireMoves
<1>8. ASSUME NEW c \in Workers,
             \/ \E d \in Devices : ClaimNone(c, d)
             \/ ClaimFallback(c) \/ ClaimDone(c) \/ Fail(c)
      PROVE  Goal(c)
  BY <1>8, OtherMoves DEF CarriedBy
<1> HIDE DEF Goal
<1>9. \/ UNCHANGED vars \/ \E c \in Workers : Goal(c)
      \/ \E c \in Workers :
           CommitRegister(c) \/ CommitRevoke(c) \/ CommitUpload(c)
             \/ \E d \in Devices : ClaimOtk(c, d)
  BY <1>1, <1>2, <1>3, <1>4, <1>5, <1>6, <1>7, <1>8, Zenon DEF Next
<1> QED BY <1>9 DEF Goal

---------------------------------------------------------------------------
(* What the transactions write.                                            *)

\* register replaces the keys of the device by those it brings.
LEMMA RegisterCommits ==
  ASSUME TypeOK, Carried, NEW c \in Workers, CommitRegister(c)
  PROVE  /\ pc[c] = "register" /\ req[c] \in RegisterReqs
         /\ status' = [status EXCEPT ![req[c].device] = "active"]
         /\ \E O, F :
              /\ O = [device: {req[c].device}, key: req[c].keys, claimed: {FALSE}]
              /\ F = [device: {req[c].device}, key: {req[c].fallback}, retired: {FALSE}]
              /\ ReplaceKeys(c, req[c].device, O, F)
BY DEF CommitRegister, Carried, CarriedBy

\* revoke removes the keys of the device.
LEMMA RevokeCommits ==
  ASSUME TypeOK, Carried, NEW c \in Workers, CommitRevoke(c)
  PROVE  /\ pc[c] = "revoke" /\ req[c].device \in Devices /\ status[req[c].device] # "none"
         /\ status' = [status EXCEPT ![req[c].device] = "revoked"]
         /\ ReplaceKeys(c, req[c].device, {}, {})
BY DEF CommitRevoke, Carried, CarriedBy, RevokeReqs

\* uploadOneTimeKeys adds the keys it brings, and retires the rows it has read.
LEMMA UploadCommits ==
  ASSUME TypeOK, Carried, NEW c \in Workers, CommitUpload(c)
  PROVE  /\ pc[c] = "upload" /\ req[c] \in UploadReqs
         /\ req[c].keys \cap OtksOf(req[c].device) = {}
         /\ otks' = otks \cup [device: {req[c].device}, key: req[c].keys, claimed: {FALSE}]
         /\ fallbacks' = {[s EXCEPT !.retired =
                              @ \/ (s.device = req[c].device /\ s.key \in req[c].retire)] :
                            s \in fallbacks}
                         \cup [device: {req[c].device}, key: {req[c].fallback} \ {NoKey},
                               retired: {FALSE}]
         /\ Leave(c) /\ UNCHANGED <<status, handed, spent, renewals>>
BY DEF CommitUpload, Carried, CarriedBy

\* tryClaimOtk marks one unclaimed row, which counts as handed to a peer.
LEMMA ClaimCommits ==
  ASSUME TypeOK, Carried, NEW c \in Workers, NEW d \in Devices, ClaimOtk(c, d)
  PROVE  /\ pc[c] = "claim" /\ req'[c] \in ClaimReqs
         /\ \E k \in OneTimeKeys :
              /\ [device |-> d, key |-> k, claimed |-> FALSE] \in otks
              /\ otks' = (otks \ {[device |-> d, key |-> k, claimed |-> FALSE]})
                         \cup {[device |-> d, key |-> k, claimed |-> TRUE]}
              /\ Handed(d, k)
         /\ UNCHANGED <<status, fallbacks, spent, renewals, pc>>
         /\ req' \in [Workers -> Reqs] /\ \A x \in Workers \ {c} : req'[x] = req[x]
<1>1. pc[c] = "claim" /\ req[c] \in ClaimReqs
  BY DEF ClaimOtk, Carried, CarriedBy
<1>2. PICK r \in Unclaimed(d) :
        /\ otks' = (otks \ {r}) \cup {[r EXCEPT !.claimed = TRUE]}
        /\ Handed(d, r.key)
  BY DEF ClaimOtk
<1>3. r \in [device: Devices, key: OneTimeKeys, claimed: BOOLEAN] /\ r.device = d /\ ~r.claimed
  BY DEF Unclaimed, TypeOK
<1>4. r = [device |-> d, key |-> r.key, claimed |-> FALSE] /\ r.key \in OneTimeKeys
  BY <1>3
<1>5. [r EXCEPT !.claimed = TRUE] = [device |-> d, key |-> r.key, claimed |-> TRUE]
  <2> DEFINE t == [r EXCEPT !.claimed = TRUE]
  <2>1. /\ t \in [device: Devices, key: OneTimeKeys, claimed: BOOLEAN]
        /\ t.device = d /\ t.key = r.key /\ t.claimed = TRUE
    BY <1>3
  <2> HIDE DEF t
  <2>2. t = [device |-> d, key |-> r.key, claimed |-> TRUE]
    BY <2>1
  <2> QED BY <2>2 DEF t
<1>6. r \in otks
  BY DEF Unclaimed
<1> DEFINE q == [req[c] EXCEPT !.todo = @ \ {d}]
<1>7. q \in ClaimReqs
  BY <1>1 DEF ClaimReqs
<1>8. req' = [req EXCEPT ![c] = q] /\ UNCHANGED <<status, fallbacks, spent, renewals, pc>>
  BY DEF ClaimOtk
<1> HIDE DEF q
<1>9. req' \in [Workers -> Reqs] /\ req'[c] = q /\ \A x \in Workers \ {c} : req'[x] = req[x]
  BY <1>7, <1>8, WorkerTypes, ReqKinds
<1>10. \E k \in OneTimeKeys :
          /\ [device |-> d, key |-> k, claimed |-> FALSE] \in otks
          /\ otks' = (otks \ {[device |-> d, key |-> k, claimed |-> FALSE]})
                     \cup {[device |-> d, key |-> k, claimed |-> TRUE]}
          /\ Handed(d, k)
  BY <1>2, <1>4, <1>5, <1>6
<1> QED BY <1>1, <1>7, <1>8, <1>9, <1>10
FallbackRows == [device: Devices, key: FallbackKeys, retired: BOOLEAN]

\* Retiring a row leaves the rest of it, and a row that is spared stays as it is.
LEMMA RetiredRow ==
  ASSUME NEW s \in FallbackRows, NEW b \in BOOLEAN, NEW t, t = [s EXCEPT !.retired = @ \/ b]
  PROVE  /\ t \in FallbackRows /\ t.device = s.device /\ t.key = s.key
         /\ t.retired = (s.retired \/ b)
         /\ ~b => t = s
BY DEF FallbackRows

\* What an upload makes of the fallback keys: those of other devices stay, an
\* active one is replaced, and without a new one nothing is retired.
LEMMA UploadFallbacks ==
  ASSUME TypeOK, Carried, NEW c \in Workers, CommitUpload(c),
         NEW d \in Devices, d = req[c].device
  PROVE  /\ fallbacks' \subseteq FallbackRows
         /\ \A e \in Devices \ {d} : ActiveFallbacks(e) \subseteq (ActiveFallbacks(e))'
         /\ IF req[c].fallback = NoKey
            THEN ActiveFallbacks(d) \subseteq (ActiveFallbacks(d))'
            ELSE (ActiveFallbacks(d))' # {}
<1> DEFINE Spent(s) == s.device = req[c].device /\ s.key \in req[c].retire
           New == [device: {req[c].device}, key: {req[c].fallback} \ {NoKey}, retired: {FALSE}]
<1>1. /\ req[c].fallback \in FallbackKeys \cup {NoKey}
      /\ req[c].fallback = NoKey => req[c].retire = {}
  BY UploadCommits DEF Carried, CarriedBy, UploadReqs
<1>2. fallbacks \subseteq FallbackRows
  BY DEF TypeOK, FallbackRows
<1>3. fallbacks' = {[s EXCEPT !.retired = @ \/ Spent(s)] : s \in fallbacks} \cup New
  BY UploadCommits
<1>4. New \subseteq FallbackRows
  BY <1>1 DEF FallbackRows
<1>5. \A s \in fallbacks : Spent(s) \in BOOLEAN
  OBVIOUS
<1>6. req[c].fallback # NoKey =>
        \E n \in New : n.device = d /\ ~n.retired
  <2> SUFFICES ASSUME req[c].fallback # NoKey
               PROVE  \E n \in New : n.device = d /\ ~n.retired
    OBVIOUS
  <2>1. [device |-> d, key |-> req[c].fallback, retired |-> FALSE] \in New
    OBVIOUS
  <2> QED BY <2>1
<1> DEFINE Old == {[s EXCEPT !.retired = @ \/ Spent(s)] : s \in fallbacks}
<1> HIDE DEF New
<1>7. ASSUME NEW s \in fallbacks, ~Spent(s)
      PROVE  s \in fallbacks'
  <2>1. s \in FallbackRows
    BY <1>2
  <2>2. [s EXCEPT !.retired = @ \/ Spent(s)] = s
    BY <1>7, <2>1, RetiredRow
  <2> QED BY <1>3, <2>2
<1>8. Old \subseteq FallbackRows
  <2> SUFFICES ASSUME NEW s \in fallbacks
               PROVE  [s EXCEPT !.retired = @ \/ Spent(s)] \in FallbackRows
    OBVIOUS
  <2>1. s \in FallbackRows
    BY <1>2
  <2> QED BY <2>1, RetiredRow
<1> HIDE DEF Old
<1>9. fallbacks' \subseteq FallbackRows
  BY <1>3, <1>4, <1>8 DEF Old
<1>10. \A e \in Devices \ {d} : ActiveFallbacks(e) \subseteq (ActiveFallbacks(e))'
  BY <1>7 DEF ActiveFallbacks
<1>11. CASE req[c].fallback = NoKey
  BY <1>1, <1>7, <1>9, <1>10, <1>11 DEF ActiveFallbacks
<1>12. CASE req[c].fallback # NoKey
  <2>1. (ActiveFallbacks(d))' # {}
    <3>1. PICK n \in New : n.device = d /\ ~n.retired
      BY <1>6, <1>12
    <3>2. n \in fallbacks'
      BY <1>3, <3>1
    <3>3. \E x \in fallbacks' : x.device = d /\ ~x.retired
      BY <3>1, <3>2
    <3> QED BY <3>3 DEF ActiveFallbacks
  <2> QED BY <1>9, <1>10, <1>12, <2>1
<1> QED BY <1>11, <1>12
---------------------------------------------------------------------------
(* Each part of the invariant is kept.                                     *)

OtkRows == [device: Devices, key: OneTimeKeys, claimed: BOOLEAN]

\* A device that starts over is well typed.
LEMMA ReplacedTypes ==
  ASSUME TypeOK, NEW c \in Workers, NEW d \in Devices,
         NEW O \in SUBSET OtkRows, NEW F \in SUBSET FallbackRows,
         status' \in [Devices -> {"none", "active", "revoked"}], ReplaceKeys(c, d, O, F)
  PROVE  TypeOK'
<1>1. otks' \subseteq OtkRows /\ fallbacks' \subseteq FallbackRows /\ UNCHANGED renewals
  BY DEF ReplaceKeys, Others, TypeOK, OtkRows, FallbackRows
<1>2. handed' \in [Devices -> [OneTimeKeys -> Nat]] /\ spent' \in [Devices -> SUBSET OneTimeKeys]
  BY DEF ReplaceKeys, TypeOK
<1>3. pc' \in [Workers -> PCs] /\ req' \in [Workers -> Reqs]
  BY KeysReplaced
<1> QED BY <1>1, <1>2, <1>3 DEF TypeOK, OtkRows, FallbackRows, Reqs

\* Each action keeps the types.
LEMMA DeviceTypeStep == TypeOK /\ Carried /\ [Next]_vars => TypeOK'
<1> SUFFICES ASSUME TypeOK, Carried, [Next]_vars PROVE TypeOK'
  OBVIOUS
<1>1. CASE UNCHANGED vars
  BY <1>1 DEF vars, keyVars, TypeOK
<1>2. ASSUME NEW c \in Workers, Moves(c)
      PROVE  TypeOK'
  BY <1>2 DEF Moves, RowsAlone, TypeOK, Reqs
<1>3. ASSUME NEW c \in Workers, CommitRegister(c)
      PROVE  TypeOK'
  <2>1. PICK O, F :
          /\ O = [device: {req[c].device}, key: req[c].keys, claimed: {FALSE}]
          /\ F = [device: {req[c].device}, key: {req[c].fallback}, retired: {FALSE}]
          /\ ReplaceKeys(c, req[c].device, O, F)
    BY <1>3, RegisterCommits
  <2>2. /\ req[c].device \in Devices /\ req[c].keys \subseteq OneTimeKeys
        /\ req[c].fallback \in FallbackKeys
    BY <1>3, RegisterCommits DEF RegisterReqs, KeyLists
  <2>3. O \subseteq OtkRows /\ F \subseteq FallbackRows
    BY <2>1, <2>2 DEF OtkRows, FallbackRows
  <2>4. status' \in [Devices -> {"none", "active", "revoked"}]
    BY <1>3, <2>2, RegisterCommits DEF TypeOK
  <2> QED BY <2>1, <2>2, <2>3, <2>4, ReplacedTypes
<1>4. ASSUME NEW c \in Workers, CommitRevoke(c)
      PROVE  TypeOK'
  <2>1. status' \in [Devices -> {"none", "active", "revoked"}]
    BY <1>4, RevokeCommits DEF TypeOK
  <2> QED BY <1>4, <2>1, RevokeCommits, ReplacedTypes
<1>5. ASSUME NEW c \in Workers, CommitUpload(c)
      PROVE  TypeOK'
  <2>1. req[c].device \in Devices /\ req[c].keys \subseteq OneTimeKeys
    BY <1>5, UploadCommits DEF UploadReqs, KeyLists
  <2>2. otks' \subseteq OtkRows
    <3>1. otks \subseteq OtkRows
      BY DEF TypeOK, OtkRows
    <3>2. [device: {req[c].device}, key: req[c].keys, claimed: {FALSE}] \subseteq OtkRows
      BY <2>1 DEF OtkRows
    <3> QED BY <1>5, <3>1, <3>2, UploadCommits
  <2>3. fallbacks' \subseteq FallbackRows
    BY <1>5, <2>1, UploadFallbacks
  <2>4. pc' \in [Workers -> PCs] /\ req' \in [Workers -> Reqs]
    BY <1>5, UploadCommits, WorkerMoves
  <2>5. UNCHANGED <<status, handed, spent, renewals>>
    BY <1>5, UploadCommits
  <2> QED BY <2>2, <2>3, <2>4, <2>5 DEF TypeOK, OtkRows, FallbackRows, Reqs
<1>6. ASSUME NEW c \in Workers, NEW d \in Devices, ClaimOtk(c, d)
      PROVE  TypeOK'
  <2>1. PICK k \in OneTimeKeys :
          /\ [device |-> d, key |-> k, claimed |-> FALSE] \in otks
          /\ otks' = (otks \ {[device |-> d, key |-> k, claimed |-> FALSE]})
                     \cup {[device |-> d, key |-> k, claimed |-> TRUE]}
          /\ Handed(d, k)
    BY <1>6, ClaimCommits
  <2>2. otks' \subseteq OtkRows
    <3>1. otks \subseteq OtkRows
      BY DEF TypeOK, OtkRows
    <3>2. [device |-> d, key |-> k, claimed |-> TRUE] \in OtkRows
      BY DEF OtkRows
    <3> QED BY <2>1, <3>1, <3>2
  <2>3. handed' \in [Devices -> [OneTimeKeys -> Nat]]
    BY <2>1 DEF Handed, TypeOK
  <2> QED BY <1>6, <2>2, <2>3, ClaimCommits DEF TypeOK, OtkRows, Reqs
<1> QED BY <1>1, <1>2, <1>3, <1>4, <1>5, <1>6, Steps

\* A request keeps what it carries while others move: a revoked device keeps its
\* row, and to forget what an upload would retire is harmless.
LEMMA CarriedStays ==
  ASSUME NEW x \in Workers, CarriedBy(x), pc'[x] = pc[x],
         \A e \in Devices : status[e] # "none" => status'[e] # "none",
         \/ req'[x] = req[x]
         \/ /\ req[x] \in UploadReqs /\ req'[x] \in UploadReqs /\ req'[x].retire = {}
            /\ req'[x].fallback = req[x].fallback
  PROVE  CarriedBy(x)'
<1>1. CASE req'[x] = req[x]
  BY <1>1 DEF CarriedBy, RevokeReqs
<1>2. CASE req[x] \in UploadReqs /\ req'[x] \in UploadReqs /\ req'[x].retire = {}
            /\ req'[x].fallback = req[x].fallback
  <2>1. req[x] \notin RegisterReqs \cup RevokeReqs \cup ClaimReqs \cup {NoReq}
    BY <1>2, ReqKinds DEF UploadReqs, RegisterReqs, RevokeReqs, ClaimReqs
  <2> QED BY <1>2, <2>1 DEF CarriedBy
<1> QED BY <1>1, <1>2

\* Each await leaves the request fit for the next.
LEMMA CarriedStep == TypeOK /\ Carried /\ [Next]_vars => Carried'
<1> SUFFICES ASSUME TypeOK, Carried, [Next]_vars PROVE Carried'
  OBVIOUS
<1>1. CASE UNCHANGED vars
  BY <1>1 DEF vars, keyVars, Carried, CarriedBy
<1>2. ASSUME NEW c \in Workers, Moves(c), CarriedBy(c)'
      PROVE  Carried'
  <2>1. ASSUME NEW x \in Workers \ {c} PROVE CarriedBy(x)'
    BY <1>2, CarriedStays DEF Moves, RowsAlone, Carried
  <2> QED BY <1>2, <2>1 DEF Carried
<1>3. ASSUME NEW c \in Workers, NEW d \in Devices, NEW O, NEW F, ReplaceKeys(c, d, O, F),
             NEW s \in {"active", "revoked"}, status' = [status EXCEPT ![d] = s]
      PROVE  Carried'
  <2>1. \A e \in Devices : status[e] # "none" => status'[e] # "none"
    BY <1>3 DEF TypeOK
  <2>2. ASSUME NEW x \in Workers \ {c} PROVE CarriedBy(x)'
    <3>1. CarriedBy(x)
      BY DEF Carried
    <3> QED BY <1>3, <2>1, <3>1, KeysReplaced, CarriedStays
  <2>3. CarriedBy(c)'
    BY <1>3, KeysReplaced DEF CarriedBy
  <2> QED BY <2>2, <2>3 DEF Carried
<1>4. ASSUME NEW c \in Workers, CommitRegister(c)
      PROVE  Carried'
  <2>1. req[c].device \in Devices
    BY <1>4, RegisterCommits DEF RegisterReqs
  <2> QED BY <1>3, <1>4, <2>1, RegisterCommits
<1>5. ASSUME NEW c \in Workers, CommitRevoke(c)
      PROVE  Carried'
  BY <1>3, <1>5, RevokeCommits
<1>6. ASSUME NEW c \in Workers, CommitUpload(c)
      PROVE  Carried'
  <2>1. Leave(c) /\ status' = status
    BY <1>6, UploadCommits
  <2>2. ASSUME NEW x \in Workers \ {c} PROVE CarriedBy(x)'
    BY <2>1, WorkerMoves, CarriedStays DEF Carried
  <2>3. CarriedBy(c)'
    BY <2>1, WorkerMoves DEF CarriedBy
  <2> QED BY <2>2, <2>3 DEF Carried
<1>7. ASSUME NEW c \in Workers, NEW d \in Devices, ClaimOtk(c, d)
      PROVE  Carried'
  <2>1. /\ pc' = pc /\ status' = status /\ pc[c] = "claim" /\ req'[c] \in ClaimReqs
        /\ \A x \in Workers \ {c} : req'[x] = req[x]
    BY <1>7, ClaimCommits
  <2>2. ASSUME NEW x \in Workers \ {c} PROVE CarriedBy(x)'
    BY <2>1, CarriedStays DEF Carried
  <2>3. CarriedBy(c)'
    BY <2>1 DEF CarriedBy
  <2> QED BY <2>2, <2>3 DEF Carried
<1> QED BY <1>1, <1>2, <1>4, <1>5, <1>6, <1>7, Steps

\* An active device keeps an active fallback key: an upload retires keys only if it
\* brings one, and a registration brings one.
LEMMA FallbackStep ==
  TypeOK /\ Carried /\ FallbackAvailable /\ [Next]_vars => FallbackAvailable'
<1> SUFFICES ASSUME TypeOK, Carried, FallbackAvailable, [Next]_vars,
                    NEW e \in Devices, status'[e] = "active"
             PROVE  (ActiveFallbacks(e))' # {}
  BY DEF FallbackAvailable
<1>1. ASSUME status[e] = "active", ActiveFallbacks(e) \subseteq (ActiveFallbacks(e))'
      PROVE  (ActiveFallbacks(e))' # {}
  BY <1>1 DEF FallbackAvailable
<1>2. CASE UNCHANGED <<status, fallbacks>>
  BY <1>1, <1>2 DEF ActiveFallbacks
<1>3. ASSUME NEW c \in Workers, NEW d \in Devices \ {e}, NEW O, NEW F, ReplaceKeys(c, d, O, F),
             NEW s, status' = [status EXCEPT ![d] = s]
      PROVE  (ActiveFallbacks(e))' # {}
  <2>1. ActiveFallbacks(e) \subseteq (ActiveFallbacks(e))'
    BY <1>3 DEF ReplaceKeys, Others, ActiveFallbacks
  <2>2. status[e] = "active"
    BY <1>3 DEF TypeOK
  <2> QED BY <1>1, <2>1, <2>2
<1>4. ASSUME NEW c \in Workers, CommitRegister(c)
      PROVE  (ActiveFallbacks(e))' # {}
  <2>1. req[c].device \in Devices
    BY <1>4, RegisterCommits DEF RegisterReqs
  <2>2. CASE req[c].device = e
    <3>1. PICK O, F :
            /\ F = [device: {req[c].device}, key: {req[c].fallback}, retired: {FALSE}]
            /\ ReplaceKeys(c, req[c].device, O, F)
      BY <1>4, RegisterCommits
    <3>2. F \subseteq fallbacks'
      BY <3>1 DEF ReplaceKeys
    <3>3. [device |-> e, key |-> req[c].fallback, retired |-> FALSE] \in F
      BY <2>2, <3>1
    <3>4. \E n \in fallbacks' : n.device = e /\ ~n.retired
      BY <3>2, <3>3
    <3> QED BY <3>4 DEF ActiveFallbacks
  <2> QED BY <1>3, <1>4, <2>1, <2>2, RegisterCommits
<1>5. ASSUME NEW c \in Workers, CommitRevoke(c)
      PROVE  (ActiveFallbacks(e))' # {}
  <2>1. req[c].device # e
    BY <1>5, RevokeCommits DEF TypeOK
  <2> QED BY <1>3, <1>5, <2>1, RevokeCommits
<1>6. ASSUME NEW c \in Workers, CommitUpload(c)
      PROVE  (ActiveFallbacks(e))' # {}
  <2>1. req[c].device \in Devices /\ status[e] = "active"
    BY <1>6, UploadCommits DEF UploadReqs
  <2>2. ActiveFallbacks(e) \subseteq (ActiveFallbacks(e))' \/ (ActiveFallbacks(e))' # {}
    BY <1>6, <2>1, UploadFallbacks
  <2> QED BY <1>1, <2>1, <2>2
<1> QED
  BY <1>2, <1>4, <1>5, <1>6, Steps, ClaimCommits DEF Moves, RowsAlone, vars, keyVars
\* A row is its fields.
LEMMA RowFields ==
  /\ TypeOK => otks \subseteq OtkRows
  /\ \A r, s \in OtkRows :
       r.device = s.device /\ r.key = s.key /\ r.claimed = s.claimed => r = s
  /\ \A d \in Devices, k \in OneTimeKeys, b \in BOOLEAN :
       [device |-> d, key |-> k, claimed |-> b] \in OtkRows
BY DEF TypeOK, OtkRows

\* The rows of keys that are stored anew.
LEMMA NewRows ==
  ASSUME NEW d \in Devices, NEW K \in SUBSET OneTimeKeys, NEW O,
         O = [device: {d}, key: K, claimed: {FALSE}]
  PROVE  /\ O \subseteq OtkRows
         /\ \A r \in O : r.device = d /\ r.key \in K /\ r.claimed = FALSE
         /\ \A k \in K : [device |-> d, key |-> k, claimed |-> FALSE] \in O
BY DEF OtkRows

\* The keys of a device that starts over are unclaimed, and none was handed.
LEMMA ReplacedKeys ==
  ASSUME TypeOK, RowsUnique, HandedIfClaimed, NEW c \in Workers, NEW d \in Devices,
         NEW K \in SUBSET OneTimeKeys, NEW O, NEW F, ReplaceKeys(c, d, O, F),
         O = [device: {d}, key: K, claimed: {FALSE}] \/ O = {}
  PROVE  RowsUnique' /\ HandedIfClaimed'
<1>1. /\ O \subseteq OtkRows
      /\ \A r \in O : r.device = d /\ r.key \in K /\ r.claimed = FALSE
  BY NewRows
<1>2. otks' = {r \in otks : r.device # d} \cup O
  BY DEF ReplaceKeys, Others
<1>3. RowsUnique'
  <2> SUFFICES ASSUME NEW r \in otks', NEW s \in otks', r.device = s.device, r.key = s.key
               PROVE  r = s
    BY DEF RowsUnique
  <2>1. CASE r.device = d
    BY <1>1, <1>2, <2>1, RowFields
  <2>2. CASE r.device # d
    BY <1>1, <1>2, <2>2 DEF RowsUnique
  <2> QED BY <2>1, <2>2
<1>4. HandedIfClaimed'
  <2> SUFFICES ASSUME NEW e \in Devices, NEW k \in OneTimeKeys
               PROVE  handed'[e][k] = IF [device |-> e, key |-> k, claimed |-> TRUE] \in otks'
                                      THEN 1 ELSE 0
    BY DEF HandedIfClaimed
  <2> DEFINE r == [device |-> e, key |-> k, claimed |-> TRUE]
  <2>0. r.device = e /\ r.claimed = TRUE
    OBVIOUS
  <2>1. handed[e][k] = IF r \in otks THEN 1 ELSE 0
    BY DEF HandedIfClaimed
  <2>2. CASE e = d
    <3>1. handed'[e][k] = 0
      BY <2>2 DEF ReplaceKeys, TypeOK
    <3>2. r \notin otks'
      BY <1>1, <1>2, <2>0, <2>2
    <3> QED BY <3>1, <3>2
  <2>3. CASE e # d
    <3>1. handed'[e] = handed[e]
      BY <2>3 DEF ReplaceKeys, TypeOK
    <3>2. r \in otks' <=> r \in otks
      BY <1>1, <1>2, <2>0, <2>3
    <3> QED BY <2>1, <3>1, <3>2
  <2> QED BY <2>2, <2>3
<1> QED BY <1>3, <1>4

\* An upload brings keys without a row, a claim takes a key whose row is unclaimed
\* and claims it.
LEMMA KeysStep ==
  TypeOK /\ Carried /\ RowsUnique /\ HandedIfClaimed /\ [Next]_vars
    => RowsUnique' /\ HandedIfClaimed'
<1> SUFFICES ASSUME TypeOK, Carried, RowsUnique, HandedIfClaimed, [Next]_vars
             PROVE  RowsUnique' /\ HandedIfClaimed'
  OBVIOUS
<1>1. CASE UNCHANGED <<otks, handed>>
  BY <1>1 DEF RowsUnique, HandedIfClaimed
<1>2. ASSUME NEW c \in Workers, CommitRegister(c)
      PROVE  RowsUnique' /\ HandedIfClaimed'
  <2>1. req[c].device \in Devices /\ req[c].keys \in SUBSET OneTimeKeys
    BY <1>2, RegisterCommits DEF RegisterReqs, KeyLists
  <2>2. PICK O, F : /\ O = [device: {req[c].device}, key: req[c].keys, claimed: {FALSE}]
                    /\ ReplaceKeys(c, req[c].device, O, F)
    BY <1>2, RegisterCommits
  <2> QED BY <2>1, <2>2, ReplacedKeys
<1>3. ASSUME NEW c \in Workers, CommitRevoke(c)
      PROVE  RowsUnique' /\ HandedIfClaimed'
  BY <1>3, RevokeCommits, ReplacedKeys
<1>4. ASSUME NEW c \in Workers, CommitUpload(c)
      PROVE  RowsUnique' /\ HandedIfClaimed'
  <2> DEFINE d == req[c].device  K == req[c].keys
             O == [device: {d}, key: K, claimed: {FALSE}]
  <2>1. /\ d \in Devices /\ K \in SUBSET OneTimeKeys /\ K \cap OtksOf(d) = {}
        /\ otks' = otks \cup O /\ handed' = handed
    BY <1>4, UploadCommits DEF UploadReqs, KeyLists
  <2>2. O \subseteq OtkRows /\ \A r \in O : r.device = d /\ r.key \in K /\ r.claimed = FALSE
    <3>1. O = [device: {d}, key: K, claimed: {FALSE}]
      OBVIOUS
    <3>2. d \in Devices /\ K \in SUBSET OneTimeKeys
      BY <2>1
    <3> HIDE DEF O, d, K
    <3>3. O \subseteq OtkRows
      BY <3>1, <3>2 DEF OtkRows
    <3> QED BY <3>1, <3>3
  <2> HIDE DEF O
  <2>3. \A r \in otks : r.device = d => r.key \notin K
    BY <2>1 DEF OtksOf
  <2>4. RowsUnique'
    <3> SUFFICES ASSUME NEW r \in otks', NEW s \in otks', r.device = s.device, r.key = s.key
                 PROVE  r = s
      BY DEF RowsUnique
    <3>1. CASE r \in otks /\ s \in otks
      BY <3>1 DEF RowsUnique
    <3>2. CASE r \in O /\ s \in O
      BY <2>2, <3>2, RowFields
    <3>3. ~(r \in otks /\ s \in O) /\ ~(r \in O /\ s \in otks)
      BY <2>2, <2>3
    <3> QED BY <2>1, <3>1, <3>2, <3>3
  <2>5. \A e \in Devices, k \in OneTimeKeys :
          [device |-> e, key |-> k, claimed |-> TRUE] \notin O
    BY <2>2
  <2> QED BY <2>1, <2>4, <2>5 DEF HandedIfClaimed
<1>5. ASSUME NEW c \in Workers, NEW d \in Devices, ClaimOtk(c, d)
      PROVE  RowsUnique' /\ HandedIfClaimed'
  <2>1. PICK k \in OneTimeKeys :
          /\ [device |-> d, key |-> k, claimed |-> FALSE] \in otks
          /\ otks' = (otks \ {[device |-> d, key |-> k, claimed |-> FALSE]})
                     \cup {[device |-> d, key |-> k, claimed |-> TRUE]}
          /\ Handed(d, k)
    BY <1>5, ClaimCommits
  <2> DEFINE p == [device |-> d, key |-> k, claimed |-> FALSE]
             q == [device |-> d, key |-> k, claimed |-> TRUE]
  <2>2. /\ p.device = d /\ p.key = k /\ p.claimed = FALSE
        /\ q.device = d /\ q.key = k /\ q.claimed = TRUE
    OBVIOUS
  <2>3. q \notin otks
    BY <2>1, <2>2 DEF RowsUnique
  <2>4. \A e \in Devices, l \in OneTimeKeys :
          LET r == [device |-> e, key |-> l, claimed |-> TRUE]
          IN  r.device = e /\ r.key = l /\ r.claimed = TRUE
    OBVIOUS
  <2>5. RowsUnique'
    <3> HIDE DEF p, q
    <3> SUFFICES ASSUME NEW r \in otks', NEW s \in otks', r.device = s.device, r.key = s.key
                 PROVE  r = s
      BY DEF RowsUnique
    <3>1. p \in otks /\ otks' = (otks \ {p}) \cup {q}
      BY <2>1 DEF p, q
    <3> QED BY <2>2, <3>1 DEF RowsUnique
  <2>6. HandedIfClaimed'
    <3> SUFFICES ASSUME NEW e \in Devices, NEW l \in OneTimeKeys
                 PROVE  handed'[e][l] = IF [device |-> e, key |-> l, claimed |-> TRUE] \in otks'
                                        THEN 1 ELSE 0
      BY DEF HandedIfClaimed
    <3> DEFINE r == [device |-> e, key |-> l, claimed |-> TRUE]
    <3>1. handed[e][l] = IF r \in otks THEN 1 ELSE 0
      BY DEF HandedIfClaimed
    <3>2. CASE e = d /\ l = k
      <4>1. handed'[e][l] = handed[e][l] + 1
        BY <2>1, <3>2 DEF Handed, TypeOK
      <4>2. r = q /\ r \in otks' /\ r \notin otks
        BY <2>1, <2>3, <3>2
      <4> HIDE DEF r
      <4>3. handed'[e][l] = IF r \in otks' THEN 1 ELSE 0
        BY <3>1, <4>1, <4>2
      <4> QED BY <4>3 DEF r
    <3>3. CASE ~(e = d /\ l = k)
      <4>1. handed'[e][l] = handed[e][l]
        BY <2>1, <3>3 DEF Handed, TypeOK
      <4>2. r.device = e /\ r.key = l /\ r.claimed = TRUE
        OBVIOUS
      <4>3. r # p /\ r # q
        BY <2>2, <3>3, <4>2
      <4>4. r \in otks' <=> r \in otks
        BY <2>1, <4>3
      <4> HIDE DEF r
      <4>5. handed'[e][l] = IF r \in otks' THEN 1 ELSE 0
        BY <3>1, <4>1, <4>4
      <4> QED BY <4>5 DEF r
    <3> QED BY <3>2, <3>3
  <2> QED BY <2>5, <2>6
<1> QED BY <1>1, <1>2, <1>3, <1>4, <1>5, Steps DEF Moves, RowsAlone, vars, keyVars
---------------------------------------------------------------------------
(* Counting the pool.                                                      *)

\* Multiples of PoolMax: the provers know little of products of two variables.
LEMMA Times ==
  ASSUME NEW a \in Nat, NEW b \in Nat
  PROVE  /\ PoolMax \in Nat /\ PoolMax * a \in Nat /\ PoolMax * (a + 1) = PoolMax * a + PoolMax
         /\ PoolMax * (a - 1) = PoolMax * a - PoolMax
         /\ a <= b => PoolMax * a <= PoolMax * b
<1>1. PoolMax \in Nat
  BY DeviceAssumption
<1>2. PoolMax * a \in Nat /\ PoolMax * (a + 1) = PoolMax * a + PoolMax
      /\ PoolMax * (a - 1) = PoolMax * a - PoolMax
  BY <1>1
<1>3. ASSUME a <= b
      PROVE  PoolMax * a <= PoolMax * b
  <2>1. b - a \in Nat /\ PoolMax * b = PoolMax * a + PoolMax * (b - a)
    BY <1>1, <1>3
  <2>2. PoolMax * (b - a) \in Nat
    BY <1>1, <2>1
  <2> QED BY <1>2, <2>1, <2>2
<1> QED BY <1>1, <1>2, <1>3

\* Any requests can be counted.
LEMMA Finitely ==
  ASSUME NEW C \in SUBSET Workers
  PROVE  /\ IsFiniteSet(C) /\ Cardinality(C) \in Nat /\ Cardinality(Workers) \in Nat
         /\ Cardinality(C) <= Cardinality(Workers)
         /\ C # {} => Cardinality(C) >= 1
         /\ \A c \in C : Cardinality(C \ {c}) = Cardinality(C) - 1
         /\ \A D \in SUBSET C : Cardinality(D) \in Nat /\ Cardinality(D) <= Cardinality(C)
<1>1. /\ IsFiniteSet(C) /\ IsFiniteSet(Workers) /\ Cardinality(C) <= Cardinality(Workers)
      /\ \A D \in SUBSET C : IsFiniteSet(D) /\ Cardinality(D) <= Cardinality(C)
  BY DeviceAssumption, FS_Subset
<1>2. /\ Cardinality(C) \in Nat /\ Cardinality(Workers) \in Nat
      /\ \A D \in SUBSET C : Cardinality(D) \in Nat
  BY <1>1, FS_CardinalityType
<1>3. C # {} => Cardinality(C) >= 1
  BY <1>1, <1>2, FS_EmptySet
<1>4. \A c \in C : Cardinality(C \ {c}) = Cardinality(C) - 1
  BY <1>1, FS_RemoveElement
<1> QED BY <1>1, <1>2, <1>3, <1>4

\* How many keys each of the uploads C can bring.
Sizes(C) == [C -> 0..PoolMax]

\* What fits is bounded.
LEMMA FitsBounded ==
  ASSUME NEW u \in Nat, NEW C \in SUBSET Workers, NEW k \in Sizes(C), Fits(u, C, k)
  PROVE  u <= PoolMax * Cardinality(Workers)
<1>1. CASE C = {}
  BY <1>1 DEF Fits
<1>2. CASE C # {}
  <2>1. PICK c \in C :
          u + k[c] + PoolMax * (Cardinality(C) - 1) <= PoolMax * Cardinality(Workers)
    BY <1>2 DEF Fits
  <2>2. Cardinality(C) - 1 \in Nat /\ Cardinality(Workers) \in Nat /\ k[c] \in Nat
    BY <1>2, Finitely, DeviceAssumption DEF Sizes
  <2>3. PoolMax * (Cardinality(C) - 1) \in Nat /\ PoolMax * Cardinality(Workers) \in Nat
    BY <2>2, Times
  <2> QED BY <2>1, <2>2, <2>3
<1> QED BY <1>1, <1>2

\* Fewer keys, fewer uploads, shorter lists.
LEMMA FitsFewer ==
  ASSUME NEW u \in Nat, NEW C \in SUBSET Workers, NEW k \in Sizes(C), Fits(u, C, k),
         NEW v \in Nat, v <= u, NEW D \in SUBSET C, NEW l \in Sizes(D),
         \A c \in D : l[c] <= k[c]
  PROVE  Fits(v, D, l)
<1> DEFINE M == PoolMax * Cardinality(Workers)
<1>0. PoolMax \in Nat /\ Cardinality(Workers) \in Nat /\ M \in Nat /\ Cardinality(C) \in Nat
      /\ Cardinality(D) \in Nat /\ Cardinality(D) <= Cardinality(C)
  BY Finitely, Times
<1>1. CASE D = {}
  BY <1>0, <1>1, FitsBounded DEF Fits
<1>2. CASE D # {}
  <2>1. PICK c \in C : u + k[c] + PoolMax * (Cardinality(C) - 1) <= M
    BY <1>2 DEF Fits
  <2>2. /\ Cardinality(D) >= 1 /\ Cardinality(D) - 1 \in Nat /\ Cardinality(C) - 1 \in Nat
        /\ k[c] \in 0..PoolMax
    BY <1>0, <1>2, Finitely DEF Sizes
  <2>3. /\ PoolMax * (Cardinality(D) - 1) \in Nat /\ PoolMax * (Cardinality(C) - 1) \in Nat
        /\ PoolMax * (Cardinality(D) - 1) <= PoolMax * (Cardinality(C) - 1)
    BY <1>0, <2>2, Times
  <2>4. CASE c \in D
    <3>1. l[c] \in 0..PoolMax /\ l[c] <= k[c]
      BY <2>4 DEF Sizes
    <3>2. v + l[c] + PoolMax * (Cardinality(D) - 1) <= M
      <4> DEFINE x == PoolMax * (Cardinality(D) - 1)  y == PoolMax * (Cardinality(C) - 1)
      <4>1. x \in Nat /\ y \in Nat /\ x <= y /\ u + k[c] + y <= M
        BY <2>1, <2>3
      <4> HIDE DEF x, y, M
      <4>2. v + l[c] + x <= M
        BY <1>0, <2>2, <3>1, <4>1
      <4> QED BY <4>2 DEF x
    <3> QED BY <1>2, <2>4, <3>2 DEF Fits
  <2>5. CASE c \notin D
    <3>1. PICK e \in D : TRUE
      BY <1>2
    <3>2. l[e] \in 0..PoolMax
      BY DEF Sizes
    <3>3. Cardinality(D) <= Cardinality(C) - 1
      <4>1. D \in SUBSET (C \ {c}) /\ C \ {c} \in SUBSET Workers
        BY <2>5
      <4> QED BY <4>1, Finitely
    <3>4. v + l[e] + PoolMax * (Cardinality(D) - 1) <= M
      <4> DEFINE x == PoolMax * (Cardinality(D) - 1)  y == PoolMax * (Cardinality(C) - 1)
      <4>1. x + PoolMax = PoolMax * Cardinality(D)
        BY <1>0, Times
      <4>2. PoolMax * Cardinality(D) <= y
        BY <1>0, <2>2, <3>3, Times
      <4>3. x \in Nat /\ y \in Nat /\ x + PoolMax <= y /\ u + k[c] + y <= M
        BY <2>1, <2>3, <4>1, <4>2
      <4> HIDE DEF x, y, M
      <4>4. v + l[e] + x <= M
        BY <1>0, <2>2, <3>2, <4>3
      <4> QED BY <4>4 DEF x
    <3> QED BY <1>2, <3>4 DEF Fits
  <2> QED BY <2>4, <2>5
<1> QED BY <1>1, <1>2
\* An upload commits: what it brought is in the pool, and it counts no more.
LEMMA FitsCommit ==
  ASSUME NEW u \in Nat, NEW C \in SUBSET Workers, NEW k \in Sizes(C), Fits(u, C, k),
         NEW e \in C, NEW v \in Nat, v <= u + k[e], NEW l \in Sizes(C \ {e}),
         \A c \in C \ {e} : l[c] <= k[c]
  PROVE  Fits(v, C \ {e}, l)
<1> DEFINE M == PoolMax * Cardinality(Workers)  D == C \ {e}
<1>0. /\ PoolMax \in Nat /\ Cardinality(Workers) \in Nat /\ M \in Nat /\ Cardinality(C) \in Nat
      /\ Cardinality(D) = Cardinality(C) - 1 /\ Cardinality(D) \in Nat /\ k[e] \in 0..PoolMax
  BY Finitely, Times DEF Sizes
<1>1. PICK c \in C : u + k[c] + PoolMax * Cardinality(D) <= M
  BY <1>0 DEF Fits
<1>2. PoolMax * Cardinality(D) \in Nat /\ k[c] \in 0..PoolMax
  BY <1>0, Times DEF Sizes
<1>3. CASE D = {}
  <2>1. c = e
    BY <1>3
  <2>2. v <= M
    <3> DEFINE x == PoolMax * Cardinality(D)
    <3>1. x \in Nat /\ u + k[e] + x <= M
      BY <1>1, <1>2, <2>1
    <3> HIDE DEF x, M
    <3> QED BY <1>0, <3>1
  <2> QED BY <1>3, <2>2 DEF Fits
<1>4. ASSUME NEW x \in D, l[x] + k[e] <= k[c] + PoolMax
      PROVE  Fits(v, D, l)
  <2>1. l[x] \in 0..PoolMax
    BY DEF Sizes
  <2>2. Cardinality(D) >= 1 /\ Cardinality(D) - 1 \in Nat
    BY <1>0, Finitely
  <2>3. /\ PoolMax * (Cardinality(D) - 1) \in Nat
        /\ PoolMax * (Cardinality(D) - 1) = PoolMax * Cardinality(D) - PoolMax
    BY <1>0, <2>2, Times
  <2>4. v + l[x] + PoolMax * (Cardinality(D) - 1) <= M
    <3> DEFINE y == PoolMax * (Cardinality(D) - 1)  z == PoolMax * Cardinality(D)
    <3>1. y \in Nat /\ z \in Nat /\ y = z - PoolMax /\ u + k[c] + z <= M
      BY <1>1, <1>2, <2>3
    <3> HIDE DEF y, z, M
    <3>2. v + l[x] + y <= M
      BY <1>0, <1>2, <1>4, <2>1, <3>1
    <3> QED BY <3>2 DEF y
  <2> QED BY <2>4 DEF Fits
<1>5. CASE D # {}
  <2>1. PICK x \in D : c # e => x = c
    BY <1>5
  <2>2. l[x] \in 0..PoolMax /\ l[x] <= k[x]
    BY DEF Sizes
  <2>3. l[x] + k[e] <= k[c] + PoolMax
    BY <1>0, <1>2, <2>1, <2>2
  <2> QED BY <1>4, <2>3
<1> QED BY <1>3, <1>5

\* An upload counts, and finds that the pool has room for its keys.
LEMMA FitsCount ==
  ASSUME NEW u \in Nat, NEW C \in SUBSET Workers, NEW k \in Sizes(C), NEW c \in C,
         u + k[c] <= PoolMax
  PROVE  Fits(u, C, k)
<1> DEFINE n == Cardinality(Workers)  p == Cardinality(C)
<1>1. n \in Nat /\ p \in Nat /\ p - 1 \in Nat /\ n - 1 \in Nat /\ p - 1 <= n - 1
  BY Finitely
<1>2. /\ PoolMax \in Nat /\ PoolMax * (p - 1) \in Nat /\ PoolMax * n \in Nat
      /\ PoolMax * (p - 1) <= PoolMax * (n - 1)
      /\ PoolMax * (n - 1) = PoolMax * n - PoolMax
  BY <1>1, Times
<1>3. k[c] \in 0..PoolMax
  BY DEF Sizes
<1>4. u + k[c] + PoolMax * (p - 1) <= PoolMax * n
  <2> DEFINE x == PoolMax * (p - 1)  y == PoolMax * (n - 1)  z == PoolMax * n
  <2>1. x \in Nat /\ z \in Nat /\ x <= y /\ y = z - PoolMax
    BY <1>2
  <2> HIDE DEF x, y, z
  <2>2. u + k[c] + x <= z
    BY <1>2, <1>3, <2>1
  <2> QED BY <2>2 DEF x, z
<1> QED BY <1>4 DEF Fits

\* The keys of a device are replaced by a worker that uploads none of them.
LEMMA FitsAnew ==
  ASSUME NEW u \in Nat, u <= PoolMax, NEW w \in Workers, NEW C \in SUBSET (Workers \ {w}),
         NEW k \in Sizes(C)
  PROVE  Fits(u, C, k)
<1> DEFINE n == Cardinality(Workers)  p == Cardinality(C)
<1>1. n \in Nat /\ n - 1 \in Nat /\ p \in Nat /\ p <= n - 1
  <2>1. Workers \in SUBSET Workers /\ Workers \ {w} \in SUBSET Workers
    OBVIOUS
  <2>2. n \in Nat /\ n >= 1 /\ Cardinality(Workers \ {w}) = n - 1
    BY <2>1, Finitely
  <2>3. p \in Nat /\ p <= Cardinality(Workers \ {w})
    BY <2>1, Finitely
  <2> QED BY <2>2, <2>3
<1>2. /\ PoolMax \in Nat /\ PoolMax * n \in Nat /\ PoolMax * (n - 1) \in Nat
      /\ PoolMax * (n - 1) = PoolMax * n - PoolMax
      /\ PoolMax * p \in Nat /\ PoolMax * p <= PoolMax * (n - 1)
      /\ PoolMax * (p - 1) = PoolMax * p - PoolMax
  BY <1>1, Times
<1> DEFINE x == PoolMax * (p - 1)  y == PoolMax * (n - 1)  z == PoolMax * n  q == PoolMax * p
<1>3. /\ PoolMax \in Nat /\ q \in Nat /\ y \in Nat /\ z \in Nat
      /\ x = q - PoolMax /\ q <= y /\ y = z - PoolMax
  BY <1>2
<1>4. CASE C = {}
  <2>1. u <= z
    <3> HIDE DEF x, y, z, q
    <3> QED BY <1>3
  <2> QED BY <1>4, <2>1 DEF Fits
<1>5. CASE C # {}
  <2>1. PICK c \in C : TRUE
    BY <1>5
  <2>2. k[c] \in 0..PoolMax
    BY DEF Sizes
  <2>3. u + k[c] + x <= z
    <3> HIDE DEF x, y, z, q
    <3> QED BY <1>3, <2>2
  <2> QED BY <1>5, <2>3 DEF Fits
<1> QED BY <1>4, <1>5
\* The rows of new keys are as many as the keys.
LEMMA NewRowsCounted ==
  ASSUME NEW d \in Devices, NEW K \in KeyLists, NEW O,
         O = [device: {d}, key: K, claimed: {FALSE}]
  PROVE  IsFiniteSet(O) /\ Cardinality(O) \in Nat /\ Cardinality(O) <= Cardinality(K)
<1>1. IsFiniteSet(K) /\ Cardinality(K) \in Nat
  BY Lists
<1> DEFINE f == [k \in K |-> [device |-> d, key |-> k, claimed |-> FALSE]]
<1>2. f \in Surjection(K, O)
  <2>1. f \in [K -> O]
    OBVIOUS
  <2>2. ASSUME NEW t \in O
        PROVE  \E k \in K : f[k] = t
    <3>1. t.key \in K
      OBVIOUS
    <3>2. t = [device |-> d, key |-> t.key, claimed |-> FALSE]
      OBVIOUS
    <3>3. f[t.key] = [device |-> d, key |-> t.key, claimed |-> FALSE]
      BY <3>1
    <3> QED BY <3>1, <3>2, <3>3
  <2> QED BY <2>1, <2>2 DEF Surjection
<1>3. IsFiniteSet(O) /\ Cardinality(O) <= Cardinality(K)
  BY <1>1, <1>2, FS_Surjection
<1> QED BY <1>1, <1>3, FS_CardinalityType

\* What is known of the counted uploads and their lists.
SizesKnown(d) ==
  /\ Counted(d) \in SUBSET Workers /\ SizesOf(d) \in Sizes(Counted(d))
  /\ \A c \in Counted(d) :
       req[c].keys \in KeyLists /\ SizesOf(d)[c] = Cardinality(req[c].keys)

\* The lists of counted uploads have sizes.
LEMMA SizesTyped == TypeOK /\ Carried => \A d \in Devices : SizesKnown(d)
<1> SUFFICES ASSUME TypeOK, Carried, NEW d \in Devices PROVE SizesKnown(d)
  OBVIOUS
<1>1. \A c \in Counted(d) : c \in Workers /\ req[c] \in UploadReqs
  BY DEF Counted, Carried, CarriedBy
<1>2. \A c \in Counted(d) : req[c].keys \in KeyLists
  BY <1>1 DEF UploadReqs
<1>3. \A c \in Counted(d) : Cardinality(req[c].keys) \in 0..PoolMax
  BY <1>2, Lists, DeviceAssumption
<1> QED BY <1>1, <1>2, <1>3 DEF SizesOf, Sizes, SizesKnown

\* And after a step.
LEMMA SizesTypedNext == (TypeOK /\ Carried)' => (\A d \in Devices : SizesKnown(d))'
BY SizesTyped, PTL

\* The pool of a device keeps its room while it is given no keys and no upload
\* counts it.
LEMMA RoomKept ==
  ASSUME TypeOK, Carried, TypeOK', Carried', NEW e \in Devices, PoolRoom(e),
         (Unclaimed(e))' \subseteq Unclaimed(e), (Counted(e))' \subseteq Counted(e),
         \A x \in (Counted(e))' : req'[x].keys \subseteq req[x].keys
  PROVE  PoolRoom(e)'
<1>1. SizesKnown(e) /\ SizesKnown(e)'
  BY SizesTyped, SizesTypedNext
<1>2. /\ IsFiniteSet(Unclaimed(e)) /\ Fits(Cardinality(Unclaimed(e)), Counted(e), SizesOf(e))
      /\ Cardinality(Unclaimed(e)) \in Nat
  BY FS_CardinalityType DEF PoolRoom
<1>3. /\ IsFiniteSet((Unclaimed(e))') /\ Cardinality((Unclaimed(e))') \in Nat
      /\ Cardinality((Unclaimed(e))') <= Cardinality(Unclaimed(e))
  BY <1>2, FS_Subset, FS_CardinalityType
<1>4. ASSUME NEW x \in (Counted(e))'
      PROVE  (SizesOf(e))'[x] <= SizesOf(e)[x]
  <2>1. /\ (SizesOf(e))'[x] = Cardinality(req'[x].keys)
        /\ SizesOf(e)[x] = Cardinality(req[x].keys) /\ req[x].keys \in KeyLists
    BY <1>1 DEF SizesKnown
  <2> QED BY <2>1, Lists
<1>5. Fits(Cardinality((Unclaimed(e))'), (Counted(e))', (SizesOf(e))')
  <2>1. /\ Counted(e) \in SUBSET Workers /\ SizesOf(e) \in Sizes(Counted(e))
        /\ (Counted(e))' \in SUBSET Counted(e) /\ (SizesOf(e))' \in Sizes((Counted(e))')
    BY <1>1 DEF SizesKnown, Sizes
  <2> QED BY <1>2, <1>3, <1>4, <2>1, FitsFewer
<1> QED BY <1>3, <1>5 DEF PoolRoom, Fits
\* An upload that has counted the pool finds room for its keys in it.
LEMMA RoomCounted ==
  ASSUME TypeOK, Carried, TypeOK', Carried', NEW e \in Devices, PoolRoom(e),
         NEW c \in Workers, Moves(c), Counts(c), req[c].device = e
  PROVE  PoolRoom(e)'
<1>1. (Unclaimed(e))' = Unclaimed(e)
  BY DEF Moves, RowsAlone, Unclaimed
<1>2. c \in (Counted(e))' /\ req'[c] = req[c] /\ req[c].keys \in KeyLists
  BY DEF Counts, Counted, UploadReqs
<1>3. SizesKnown(e)'
  BY SizesTypedNext
<1>4. /\ IsFiniteSet(Unclaimed(e)) /\ Cardinality(Unclaimed(e)) \in Nat
      /\ Cardinality(req[c].keys) \in Nat
  BY <1>2, Lists, FS_CardinalityType DEF PoolRoom
<1>5. (SizesOf(e))'[c] = Cardinality(req[c].keys)
  BY <1>2, <1>3 DEF SizesKnown
<1>6. Cardinality(Unclaimed(e)) + (SizesOf(e))'[c] <= PoolMax
  BY <1>4, <1>5, DeviceAssumption DEF Counts
<1>7. /\ (Counted(e))' \in SUBSET Workers /\ (SizesOf(e))' \in Sizes((Counted(e))')
  BY <1>3 DEF SizesKnown, Sizes
<1>8. Fits(Cardinality(Unclaimed(e)), (Counted(e))', (SizesOf(e))')
  BY <1>2, <1>4, <1>6, <1>7, FitsCount
<1> QED BY <1>1, <1>4, <1>8 DEF PoolRoom, Fits

\* The keys of a device are replaced by a worker that has no upload in flight.
LEMMA RoomReplaced ==
  ASSUME TypeOK, Carried, TypeOK', Carried', NEW e \in Devices,
         NEW c \in Workers, NEW O, NEW F, ReplaceKeys(c, e, O, F),
         IsFiniteSet(O), Cardinality(O) <= PoolMax,
         \A r \in O : r.device = e
  PROVE  PoolRoom(e)'
<1>1. otks' = {r \in otks : r.device # e} \cup O
  BY DEF ReplaceKeys, Others
<1>2. (Unclaimed(e))' \in SUBSET O
  BY <1>1 DEF Unclaimed
<1>3. /\ IsFiniteSet((Unclaimed(e))') /\ Cardinality((Unclaimed(e))') \in Nat
      /\ Cardinality((Unclaimed(e))') <= Cardinality(O) /\ Cardinality(O) \in Nat
  BY <1>2, FS_Subset, FS_CardinalityType
<1>4. Cardinality((Unclaimed(e))') <= PoolMax
  BY <1>3, DeviceAssumption
<1>5. SizesKnown(e)' /\ pc'[c] = "idle"
  BY SizesTypedNext, KeysReplaced
<1>6. /\ (Counted(e))' \in SUBSET (Workers \ {c}) /\ (SizesOf(e))' \in Sizes((Counted(e))')
  BY <1>5 DEF SizesKnown, Sizes, Counted
<1>7. Fits(Cardinality((Unclaimed(e))'), (Counted(e))', (SizesOf(e))')
  BY <1>3, <1>4, <1>6, FitsAnew
<1> QED BY <1>3, <1>7 DEF PoolRoom, Fits

\* An upload commits.
LEMMA RoomUploaded ==
  ASSUME TypeOK, Carried, TypeOK', Carried', NEW e \in Devices, PoolRoom(e),
         NEW c \in Workers, CommitUpload(c), req[c].device = e
  PROVE  PoolRoom(e)'
<1>1. SizesKnown(e) /\ SizesKnown(e)'
  BY SizesTyped, SizesTypedNext
<1>2. /\ pc[c] = "upload" /\ pc'[c] = "idle" /\ req[c].keys \in KeyLists
      /\ \A x \in Workers \ {c} : pc'[x] = pc[x] /\ req'[x] = req[x]
  BY UploadCommits, WorkerMoves DEF UploadReqs
<1>3. c \in Counted(e) /\ (Counted(e))' = Counted(e) \ {c}
  BY <1>2 DEF Counted
<1>4. PICK O : O = [device: {e}, key: req[c].keys, claimed: {FALSE}]
  OBVIOUS
<1>5. otks' = otks \cup O
  BY <1>4, UploadCommits
<1>6. IsFiniteSet(O) /\ Cardinality(O) \in Nat /\ Cardinality(O) <= Cardinality(req[c].keys)
  BY <1>2, <1>4, NewRowsCounted
<1> DEFINE U == Unclaimed(e)
<1>7. (Unclaimed(e))' \in SUBSET (U \cup O)
  BY <1>5 DEF Unclaimed
<1>8. /\ IsFiniteSet(U) /\ Cardinality(U) \in Nat
      /\ Fits(Cardinality(U), Counted(e), SizesOf(e))
  BY FS_CardinalityType DEF PoolRoom
<1> HIDE DEF U
<1>9. /\ IsFiniteSet(U \cup O) /\ Cardinality(U \cup O) \in Nat
      /\ Cardinality(U \cup O) <= Cardinality(U) + Cardinality(O)
  <2>1. /\ IsFiniteSet(U \cup O) /\ U \cap O \in SUBSET U
        /\ Cardinality(U \cup O) = Cardinality(U) + Cardinality(O) - Cardinality(U \cap O)
    BY <1>6, <1>8, FS_Union
  <2>2. Cardinality(U \cap O) \in Nat /\ Cardinality(U \cup O) \in Nat
    BY <1>8, <2>1, FS_Subset, FS_CardinalityType
  <2> QED BY <1>6, <1>8, <2>1, <2>2
<1>10. /\ IsFiniteSet((Unclaimed(e))') /\ Cardinality((Unclaimed(e))') \in Nat
       /\ Cardinality((Unclaimed(e))') <= Cardinality(U \cup O)
  BY <1>7, <1>9, FS_Subset, FS_CardinalityType
<1>11. SizesOf(e)[c] = Cardinality(req[c].keys) /\ Cardinality(req[c].keys) \in Nat
  BY <1>1, <1>2, <1>3, Lists DEF SizesKnown
<1>12. Cardinality((Unclaimed(e))') <= Cardinality(U) + SizesOf(e)[c]
  BY <1>6, <1>8, <1>9, <1>10, <1>11
<1>13. \A x \in Counted(e) \ {c} : (SizesOf(e))'[x] <= SizesOf(e)[x]
  <2> SUFFICES ASSUME NEW x \in Counted(e) \ {c}
               PROVE  (SizesOf(e))'[x] <= SizesOf(e)[x]
    OBVIOUS
  <2>1. x \in Workers \ {c} /\ x \in (Counted(e))' /\ req'[x] = req[x]
    BY <1>2, <1>3 DEF Counted
  <2>2. (SizesOf(e))'[x] = Cardinality(req'[x].keys) /\ SizesOf(e)[x] = Cardinality(req[x].keys)
        /\ req[x].keys \in KeyLists
    BY <1>1, <2>1 DEF SizesKnown
  <2> QED BY <2>1, <2>2, Lists
<1>14. /\ Counted(e) \in SUBSET Workers /\ SizesOf(e) \in Sizes(Counted(e))
       /\ (SizesOf(e))' \in Sizes(Counted(e) \ {c})
  BY <1>1, <1>3 DEF SizesKnown, Sizes
<1>15. Fits(Cardinality((Unclaimed(e))'), Counted(e) \ {c}, (SizesOf(e))')
  BY <1>3, <1>8, <1>10, <1>12, <1>13, <1>14, FitsCommit
<1> QED BY <1>3, <1>10, <1>15 DEF PoolRoom, Fits

\* Every step leaves the pools within what the counted uploads may fill.
LEMMA PoolStep ==
  TypeOK /\ Carried /\ TypeOK' /\ Carried' /\ (\A d \in Devices : PoolRoom(d)) /\ [Next]_vars
    => \A d \in Devices : PoolRoom(d)'
<1> SUFFICES ASSUME TypeOK, Carried, TypeOK', Carried', \A d \in Devices : PoolRoom(d),
                    [Next]_vars, NEW e \in Devices
             PROVE  PoolRoom(e)'
  OBVIOUS
<1>0. PoolRoom(e)
  OBVIOUS
<1>1. CASE UNCHANGED vars
  <2>1. /\ (Unclaimed(e))' = Unclaimed(e) /\ (Counted(e))' = Counted(e) /\ req' = req
    BY <1>1 DEF vars, keyVars, Unclaimed, Counted
  <2> QED BY <1>0, <2>1, RoomKept
<1>2. ASSUME NEW c \in Workers, Moves(c), Uncounted(c) \/ Counts(c) \/ GoesOn(c)
      PROVE  PoolRoom(e)'
  <2>1. (Unclaimed(e))' = Unclaimed(e)
    BY <1>2 DEF Moves, RowsAlone, Unclaimed
  <2>2. \A x \in Workers \ {c} : pc'[x] = pc[x] /\ req'[x] = req[x]
    BY <1>2 DEF Moves
  <2>3. CASE Uncounted(c)
    <3>1. /\ (Counted(e))' \subseteq Counted(e)
          /\ \A x \in (Counted(e))' : req'[x].keys \subseteq req[x].keys
      BY <2>2, <2>3 DEF Uncounted, Counted
    <3> QED BY <1>0, <2>1, <3>1, RoomKept
  <2>4. CASE GoesOn(c)
    <3>1. /\ (Counted(e))' \subseteq Counted(e)
          /\ \A x \in (Counted(e))' : req'[x].keys \subseteq req[x].keys
      BY <2>2, <2>4 DEF GoesOn, Counted
    <3> QED BY <1>0, <2>1, <3>1, RoomKept
  <2>5. CASE Counts(c) /\ req[c].device = e
    BY <1>0, <1>2, <2>5, RoomCounted
  <2>6. CASE Counts(c) /\ req[c].device # e
    <3>1. /\ (Counted(e))' \subseteq Counted(e)
          /\ \A x \in (Counted(e))' : req'[x].keys \subseteq req[x].keys
      BY <2>2, <2>6 DEF Counts, Counted
    <3> QED BY <1>0, <2>1, <3>1, RoomKept
  <2> QED BY <1>2, <2>3, <2>4, <2>5, <2>6
<1>3. ASSUME NEW c \in Workers, NEW d \in Devices \ {e}, NEW O, NEW F, ReplaceKeys(c, d, O, F),
             \A r \in O : r.device = d
      PROVE  PoolRoom(e)'
  <2>1. (Unclaimed(e))' \subseteq Unclaimed(e)
    BY <1>3 DEF ReplaceKeys, Others, Unclaimed
  <2>2. /\ pc'[c] = "idle"
        /\ \A x \in Workers \ {c} :
             /\ pc'[x] = pc[x] /\ req'[x].keys = req[x].keys /\ req'[x].device = req[x].device
    BY <1>3, KeysReplaced
  <2>3. /\ (Counted(e))' \subseteq Counted(e)
        /\ \A x \in (Counted(e))' : req'[x].keys \subseteq req[x].keys
    BY <2>2 DEF Counted
  <2> QED BY <1>0, <2>1, <2>3, RoomKept
<1>4. ASSUME NEW c \in Workers, CommitRegister(c)
      PROVE  PoolRoom(e)'
  <2>1. req[c].device \in Devices /\ req[c].keys \in KeyLists
    BY <1>4, RegisterCommits DEF RegisterReqs
  <2>2. PICK O, F : /\ O = [device: {req[c].device}, key: req[c].keys, claimed: {FALSE}]
                    /\ ReplaceKeys(c, req[c].device, O, F)
    BY <1>4, RegisterCommits
  <2>3. IsFiniteSet(O) /\ Cardinality(O) \in Nat /\ Cardinality(O) <= Cardinality(req[c].keys)
    BY <2>1, <2>2, NewRowsCounted
  <2>4. Cardinality(O) <= PoolMax
    BY <2>1, <2>3, Lists, DeviceAssumption
  <2>5. \A r \in O : r.device = req[c].device
    BY <2>2
  <2>6. CASE req[c].device = e
    BY <2>2, <2>3, <2>4, <2>5, <2>6, RoomReplaced
  <2>7. CASE req[c].device # e
    BY <1>3, <2>1, <2>2, <2>5, <2>7
  <2> QED BY <2>6, <2>7
<1>5. ASSUME NEW c \in Workers, CommitRevoke(c)
      PROVE  PoolRoom(e)'
  <2>1. req[c].device \in Devices /\ ReplaceKeys(c, req[c].device, {}, {})
    BY <1>5, RevokeCommits
  <2>2. IsFiniteSet({}) /\ Cardinality({}) <= PoolMax
    BY FS_EmptySet, DeviceAssumption
  <2>3. CASE req[c].device = e
    BY <2>1, <2>2, <2>3, RoomReplaced
  <2>4. CASE req[c].device # e
    BY <1>3, <2>1, <2>4
  <2> QED BY <2>3, <2>4
<1>6. ASSUME NEW c \in Workers, CommitUpload(c)
      PROVE  PoolRoom(e)'
  <2>1. CASE req[c].device = e
    BY <1>0, <1>6, <2>1, RoomUploaded
  <2>2. CASE req[c].device # e
    <3>1. /\ pc'[c] = "idle" /\ \A x \in Workers \ {c} : pc'[x] = pc[x] /\ req'[x] = req[x]
      BY <1>6, UploadCommits, WorkerMoves
    <3>2. PICK O : O = [device: {req[c].device}, key: req[c].keys, claimed: {FALSE}]
      OBVIOUS
    <3>3. otks' = otks \cup O /\ \A r \in O : r.device = req[c].device
      BY <1>6, <3>2, UploadCommits
    <3>4. (Unclaimed(e))' \subseteq Unclaimed(e)
      BY <2>2, <3>3 DEF Unclaimed
    <3>5. /\ (Counted(e))' \subseteq Counted(e)
          /\ \A x \in (Counted(e))' : req'[x].keys \subseteq req[x].keys
      BY <3>1 DEF Counted
    <3> QED BY <1>0, <3>4, <3>5, RoomKept
  <2> QED BY <2>1, <2>2
<1>7. ASSUME NEW c \in Workers, NEW d \in Devices, ClaimOtk(c, d)
      PROVE  PoolRoom(e)'
  <2>1. /\ pc[c] = "claim" /\ pc' = pc
        /\ \A x \in Workers \ {c} : req'[x] = req[x]
    BY <1>7, ClaimCommits
  <2>2. PICK k \in OneTimeKeys :
          otks' = (otks \ {[device |-> d, key |-> k, claimed |-> FALSE]})
                   \cup {[device |-> d, key |-> k, claimed |-> TRUE]}
    BY <1>7, ClaimCommits
  <2>3. (Unclaimed(e))' \subseteq Unclaimed(e)
    BY <2>2 DEF Unclaimed
  <2>4. /\ (Counted(e))' \subseteq Counted(e)
        /\ \A x \in (Counted(e))' : req'[x].keys \subseteq req[x].keys
    BY <2>1 DEF Counted
  <2> QED BY <1>0, <2>3, <2>4, RoomKept
<1> QED BY <1>1, <1>2, <1>4, <1>5, <1>6, <1>7, Steps

---------------------------------------------------------------------------
(* The theorems.                                                           *)

\* At first no device has a row.
LEMMA DeviceInvInit == Init => DeviceInv
<1> SUFFICES ASSUME Init PROVE DeviceInv
  OBVIOUS
<1>1. TypeOK
  BY DeviceAssumption DEF Init, TypeOK, PCs
<1>2. Carried
  BY DEF Init, Carried, CarriedBy
<1>3. RowsUnique /\ HandedIfClaimed /\ FallbackAvailable
  BY DEF Init, RowsUnique, HandedIfClaimed, FallbackAvailable
<1>4. ASSUME NEW d \in Devices
      PROVE  PoolRoom(d)
  <2>1. Unclaimed(d) = {} /\ Counted(d) = {}
    BY DEF Init, Unclaimed, Counted
  <2>2. Workers \in SUBSET Workers
    OBVIOUS
  <2>3. PoolMax * Cardinality(Workers) \in Nat
    BY <2>2, Finitely, Times
  <2> QED BY <2>1, <2>3, FS_EmptySet DEF PoolRoom, Fits
<1> QED BY <1>1, <1>2, <1>3, <1>4 DEF DeviceInv

\* Every step keeps every part of the invariant.
LEMMA DeviceInvStep == DeviceInv /\ [Next]_vars => DeviceInv'
<1> SUFFICES ASSUME DeviceInv, [Next]_vars PROVE DeviceInv'
  OBVIOUS
<1>1. /\ TypeOK /\ Carried /\ RowsUnique /\ HandedIfClaimed /\ FallbackAvailable
      /\ \A d \in Devices : PoolRoom(d)
  BY DEF DeviceInv
<1>2. TypeOK' /\ Carried'
  BY <1>1, DeviceTypeStep, CarriedStep
<1>3. RowsUnique' /\ HandedIfClaimed' /\ FallbackAvailable'
  BY <1>1, KeysStep, FallbackStep
<1>4. \A d \in Devices : PoolRoom(d)'
  BY <1>1, <1>2, PoolStep
<1> QED BY <1>2, <1>3, <1>4 DEF DeviceInv

\* What every state of the registry satisfies (DeviceInv).
THEOREM DeviceInvariance == Spec => []DeviceInv
BY DeviceInvInit, DeviceInvStep, PTL DEF Spec

\* The variables keep their types.
THEOREM DeviceTypeCorrect == Spec => []TypeOK
BY DeviceInvariance, PTL DEF DeviceInv

\* Until the keys of a device are cleared, a one-time key goes to at most one peer,
\* whatever claims and uploads run beside each other (tryClaimOtk, uploadOneTimeKeys).
THEOREM KeysHandedOnce == Spec => []HandedOnce
<1>1. DeviceInv => HandedOnce
  <2> SUFFICES ASSUME HandedIfClaimed, NEW d \in Devices, NEW k \in OneTimeKeys
               PROVE  handed[d][k] <= 1
    BY DEF DeviceInv, HandedOnce
  <2>1. handed[d][k] = 1 \/ handed[d][k] = 0
    BY DEF HandedIfClaimed
  <2> QED BY <2>1
<1> QED BY <1>1, DeviceInvariance, PTL

\* A device peers can see has a fallback key for the time its pool is empty.
THEOREM FallbackAlwaysAvailable == Spec => []FallbackAvailable
BY DeviceInvariance, PTL DEF DeviceInv

\* Concurrent uploads exceed OTK_POOL_MAX at most by a pool each, though each
\* counts the pool before its transaction.
THEOREM PoolsBounded == Spec => []PoolBounded
<1>1. DeviceInv => PoolBounded
  <2> SUFFICES ASSUME DeviceInv, NEW d \in Devices
               PROVE  Cardinality(Unclaimed(d)) <= PoolMax * Cardinality(Workers)
    BY DEF PoolBounded
  <2>1. SizesKnown(d) /\ PoolRoom(d)
    BY SizesTyped DEF DeviceInv
  <2>2. Cardinality(Unclaimed(d)) \in Nat
    BY <2>1, FS_CardinalityType DEF PoolRoom
  <2> QED BY <2>1, <2>2, FitsBounded DEF PoolRoom, SizesKnown
<1> QED BY <1>1, DeviceInvariance, PTL
---------------------------------------------------------------------------
(* The refinement of KeyServer.                                            *)

PoolOf(d) == {r.key : r \in Unclaimed(d)}
TakenOf(d) == OtksOf(d) \ PoolOf(d)
Pools == [d \in Devices |-> PoolOf(d)]
Takens == [d \in Devices |-> TakenOf(d)]

\* To show a step of the server, it is enough to say what becomes of each device.
LEMMA PoolsAre ==
  ASSUME NEW d \in Devices, NEW P, NEW T, (PoolOf(d))' = P, (TakenOf(d))' = T,
         \A e \in Devices \ {d} : (PoolOf(e))' = PoolOf(e) /\ (TakenOf(e))' = TakenOf(e)
  PROVE  Pools' = [Pools EXCEPT ![d] = P] /\ Takens' = [Takens EXCEPT ![d] = T]
BY DEF Pools, Takens

\* The keys of the rows.
LEMMA KeysOf ==
  ASSUME NEW d \in Devices, NEW k
  PROVE  /\ k \in PoolOf(d) <=> \E r \in otks : r.device = d /\ ~r.claimed /\ r.key = k
         /\ k \in OtksOf(d) <=> \E r \in otks : r.device = d /\ r.key = k
BY DEF PoolOf, Unclaimed, OtksOf

\* The keys of a device after a step, by its rows.
LEMMA KeysOfNext ==
  ASSUME NEW d \in Devices, NEW k
  PROVE  /\ k \in (PoolOf(d))' <=> \E r \in otks' : r.device = d /\ ~r.claimed /\ r.key = k
         /\ k \in (OtksOf(d))' <=> \E r \in otks' : r.device = d /\ r.key = k
BY DEF PoolOf, Unclaimed, OtksOf

\* Where the rows of a device do not change, its pool does not.
LEMMA OtherPools ==
  ASSUME NEW e \in Devices,
         \A r : r.device = e => (r \in otks' <=> r \in otks)
  PROVE  (PoolOf(e))' = PoolOf(e) /\ (TakenOf(e))' = TakenOf(e)
BY DEF TakenOf, PoolOf, Unclaimed, OtksOf

\* Registration and revocation start the pool over.
StartsOver(d, K) ==
  Pools' = [Pools EXCEPT ![d] = K] /\ Takens' = [Takens EXCEPT ![d] = {}]

\* The rows O are those of the unclaimed keys K of d.
RowsFor(d, K, O) ==
  /\ \A r \in O : r.device = d /\ r.key \in K /\ ~r.claimed
  /\ \A k \in K : \E r \in O : r.key = k

\* For peers, the keys of the device are cleared and a new pool is published.
LEMMA PoolsReplaced ==
  ASSUME NEW c \in Workers, NEW d \in Devices, NEW K, NEW O, NEW F, ReplaceKeys(c, d, O, F),
         RowsFor(d, K, O)
  PROVE  StartsOver(d, K)
<1>0. /\ \A r \in O : r.device = d /\ r.key \in K /\ ~r.claimed
      /\ \A k \in K : \E r \in O : r.key = k
  BY DEF RowsFor
<1>1. otks' = {r \in otks : r.device # d} \cup O
  BY DEF ReplaceKeys, Others
<1>2. (PoolOf(d))' = K
  <2>1. \A k : k \in (PoolOf(d))' <=> k \in K
    BY <1>0, <1>1, KeysOfNext
  <2> QED BY <2>1
<1>3. (TakenOf(d))' = {}
  <2>1. \A k : k \in (OtksOf(d))' => k \in K
    BY <1>0, <1>1, KeysOfNext
  <2> QED BY <1>2, <2>1 DEF TakenOf
<1>4. ASSUME NEW e \in Devices \ {d}
      PROVE  (PoolOf(e))' = PoolOf(e) /\ (TakenOf(e))' = TakenOf(e)
  BY <1>0, <1>1, OtherPools
<1> QED BY <1>2, <1>3, <1>4, PoolsAre DEF StartsOver

\* An upload fills the pool with keys that were in no row.
LEMMA PoolsFilled ==
  ASSUME TypeOK, Carried, NEW c \in Workers, CommitUpload(c)
  PROVE  \E d \in Devices : \E K \in SUBSET (OneTimeKeys \ (Pools[d] \cup Takens[d])) :
           Pools' = [Pools EXCEPT ![d] = @ \cup K] /\ Takens' = Takens
<1>1. PICK d \in Devices : d = req[c].device
  BY UploadCommits DEF UploadReqs
<1>2. PICK K \in SUBSET OneTimeKeys : K = req[c].keys
  BY UploadCommits DEF UploadReqs, KeyLists
<1>3. PICK O : O = [device: {d}, key: K, claimed: {FALSE}]
  OBVIOUS
<1>4. otks' = otks \cup O /\ K \cap OtksOf(d) = {}
  BY <1>1, <1>2, <1>3, UploadCommits
<1>5. /\ \A r \in O : r.device = d /\ r.key \in K /\ r.claimed = FALSE
      /\ \A k \in K : [device |-> d, key |-> k, claimed |-> FALSE] \in O
  BY <1>3, NewRows
<1>6. \A k \in K : \E r \in O : r.device = d /\ r.key = k /\ ~r.claimed
  <2> SUFFICES ASSUME NEW k \in K
               PROVE  \E r \in O : r.device = d /\ r.key = k /\ ~r.claimed
    OBVIOUS
  <2>1. [device |-> d, key |-> k, claimed |-> FALSE] \in O
    BY <1>5
  <2> QED BY <2>1
<1>7. PoolOf(d) \subseteq OtksOf(d)
  BY KeysOf
<1>8. (PoolOf(d))' = PoolOf(d) \cup K
  <2>1. \A k : k \in (PoolOf(d))' <=> k \in PoolOf(d) \/ k \in K
    BY <1>4, <1>5, <1>6, KeysOf, KeysOfNext
  <2> QED BY <2>1
<1>9. (TakenOf(d))' = TakenOf(d)
  <2>1. \A k : k \in (OtksOf(d))' <=> k \in OtksOf(d) \/ k \in K
    BY <1>4, <1>5, <1>6, KeysOf, KeysOfNext
  <2> QED BY <1>4, <1>7, <1>8, <2>1 DEF TakenOf
<1>10. ASSUME NEW e \in Devices \ {d}
       PROVE  (PoolOf(e))' = PoolOf(e) /\ (TakenOf(e))' = TakenOf(e)
  BY <1>4, <1>5, OtherPools
<1>11. /\ Pools' = [Pools EXCEPT ![d] = PoolOf(d) \cup K]
       /\ Takens' = [Takens EXCEPT ![d] = TakenOf(d)]
  BY <1>8, <1>9, <1>10, PoolsAre
<1>12. Pools[d] = PoolOf(d) /\ Takens[d] = TakenOf(d)
  BY DEF Pools, Takens
<1>13. Takens' = Takens /\ Pools' = [Pools EXCEPT ![d] = @ \cup K]
  BY <1>11, <1>12 DEF Takens, Pools
<1>14. K \in SUBSET (OneTimeKeys \ (Pools[d] \cup Takens[d]))
  BY <1>4, <1>7, <1>12 DEF TakenOf
<1> QED BY <1>13, <1>14

\* A claim takes one key out of the pool.
LEMMA PoolsClaimed ==
  ASSUME TypeOK, Carried, RowsUnique, NEW c \in Workers, NEW d \in Devices, ClaimOtk(c, d)
  PROVE  \E k \in Pools[d] :
           /\ Pools' = [Pools EXCEPT ![d] = @ \ {k}]
           /\ Takens' = [Takens EXCEPT ![d] = @ \cup {k}]
<1>1. PICK k \in OneTimeKeys :
        /\ [device |-> d, key |-> k, claimed |-> FALSE] \in otks
        /\ otks' = (otks \ {[device |-> d, key |-> k, claimed |-> FALSE]})
                   \cup {[device |-> d, key |-> k, claimed |-> TRUE]}
  BY ClaimCommits
<1> DEFINE p == [device |-> d, key |-> k, claimed |-> FALSE]
           q == [device |-> d, key |-> k, claimed |-> TRUE]
<1>2. /\ p.device = d /\ p.key = k /\ p.claimed = FALSE
      /\ q.device = d /\ q.key = k /\ q.claimed = TRUE
  OBVIOUS
<1>3. p \in otks /\ otks' = (otks \ {p}) \cup {q}
  BY <1>1
<1> HIDE DEF p, q
<1>4. k \in PoolOf(d) /\ k \in OtksOf(d) /\ PoolOf(d) \subseteq OtksOf(d)
  BY <1>2, <1>3, KeysOf
<1>5. (PoolOf(d))' = PoolOf(d) \ {k}
  <2>1. \A r \in otks : r.device = d /\ r.key = k => r = p
    BY <1>2, <1>3 DEF RowsUnique
  <2>2. \A l : l \in (PoolOf(d))' <=> l \in PoolOf(d) /\ l # k
    BY <1>2, <1>3, <2>1, KeysOf, KeysOfNext
  <2> QED BY <2>2
<1>6. (TakenOf(d))' = TakenOf(d) \cup {k}
  <2>1. \A l : l \in (OtksOf(d))' <=> l \in OtksOf(d)
    BY <1>2, <1>3, KeysOf, KeysOfNext
  <2> QED BY <1>4, <1>5, <2>1 DEF TakenOf
<1>7. ASSUME NEW e \in Devices \ {d}
      PROVE  (PoolOf(e))' = PoolOf(e) /\ (TakenOf(e))' = TakenOf(e)
  BY <1>2, <1>3, OtherPools
<1>8. /\ Pools' = [Pools EXCEPT ![d] = PoolOf(d) \ {k}]
      /\ Takens' = [Takens EXCEPT ![d] = TakenOf(d) \cup {k}]
  BY <1>5, <1>6, <1>7, PoolsAre
<1>9. Pools[d] = PoolOf(d) /\ Takens[d] = TakenOf(d)
  BY DEF Pools, Takens
<1> QED BY <1>4, <1>8, <1>9

\* A step that writes no one-time key does not show.
LEMMA PoolsUnchanged == UNCHANGED otks => UNCHANGED <<Pools, Takens>>
BY DEF Pools, Takens, TakenOf, PoolOf, Unclaimed, OtksOf

\* Each step is one operation of the server, or none.
LEMMA ServerStep ==
  ASSUME TypeOK, Carried, RowsUnique, [Next]_vars
  PROVE  \/ UNCHANGED <<status, Pools, Takens>>
         \/ \E d \in Devices :
              \/ /\ Server!Activate(d)
                 /\ \E K \in (SUBSET OneTimeKeys) \ {{}} : StartsOver(d, K)
              \/ Server!Retire(d) /\ StartsOver(d, {})
              \/ /\ \E K \in SUBSET (OneTimeKeys \ (Pools[d] \cup Takens[d])) :
                      Pools' = [Pools EXCEPT ![d] = @ \cup K]
                 /\ UNCHANGED <<status, Takens>>
              \/ /\ \E k \in Pools[d] :
                      /\ Pools' = [Pools EXCEPT ![d] = @ \ {k}]
                      /\ Takens' = [Takens EXCEPT ![d] = @ \cup {k}]
                 /\ UNCHANGED status
<1>1. CASE UNCHANGED vars
  BY <1>1, PoolsUnchanged DEF vars, keyVars
<1>2. ASSUME NEW c \in Workers, Moves(c)
      PROVE  UNCHANGED <<status, Pools, Takens>>
  BY <1>2, PoolsUnchanged DEF Moves, RowsAlone
<1>3. ASSUME NEW c \in Workers, CommitRegister(c)
      PROVE  \E d \in Devices :
               /\ Server!Activate(d)
               /\ \E K \in (SUBSET OneTimeKeys) \ {{}} : StartsOver(d, K)
  <2>1. PICK d \in Devices : d = req[c].device
    BY <1>3, RegisterCommits DEF RegisterReqs
  <2>2. PICK K \in (SUBSET OneTimeKeys) \ {{}} : K = req[c].keys
    BY <1>3, RegisterCommits DEF RegisterReqs, KeyLists
  <2>3. PICK O, F : O = [device: {d}, key: K, claimed: {FALSE}] /\ ReplaceKeys(c, d, O, F)
    BY <1>3, <2>1, <2>2, RegisterCommits
  <2>4. /\ \A r \in O : r.device = d /\ r.key \in K /\ r.claimed = FALSE
        /\ \A k \in K : [device |-> d, key |-> k, claimed |-> FALSE] \in O
    BY <2>2, <2>3, NewRows
  <2>5. \A k \in K : \E r \in O : r.key = k
    <3> SUFFICES ASSUME NEW k \in K PROVE \E r \in O : r.key = k
      OBVIOUS
    <3>1. [device |-> d, key |-> k, claimed |-> FALSE] \in O
      BY <2>4
    <3> QED BY <3>1
  <2>6. StartsOver(d, K)
    <3>1. RowsFor(d, K, O)
      BY <2>4, <2>5 DEF RowsFor
    <3> QED BY <2>3, <3>1, PoolsReplaced
  <2>7. Server!Activate(d)
    BY <1>3, <2>1, RegisterCommits DEF Server!Activate
  <2> QED BY <2>6, <2>7
<1>4. ASSUME NEW c \in Workers, CommitRevoke(c)
      PROVE  \E d \in Devices :
               Server!Retire(d) /\ StartsOver(d, {})
  <2>1. PICK d \in Devices : d = req[c].device
    BY <1>4, RevokeCommits
  <2>2. ReplaceKeys(c, d, {}, {})
    BY <1>4, <2>1, RevokeCommits
  <2>3. StartsOver(d, {})
    <3>1. RowsFor(d, {}, {})
      BY DEF RowsFor
    <3> QED BY <2>2, <3>1, PoolsReplaced
  <2>4. Server!Retire(d)
    BY <1>4, <2>1, RevokeCommits DEF Server!Retire
  <2> QED BY <2>3, <2>4
<1>5. ASSUME NEW c \in Workers, CommitUpload(c)
      PROVE  \E d \in Devices :
               /\ \E K \in SUBSET (OneTimeKeys \ (Pools[d] \cup Takens[d])) :
                    Pools' = [Pools EXCEPT ![d] = @ \cup K]
               /\ UNCHANGED <<status, Takens>>
  BY <1>5, PoolsFilled, UploadCommits
<1>6. ASSUME NEW c \in Workers, NEW d \in Devices, ClaimOtk(c, d)
      PROVE  /\ \E k \in Pools[d] :
                  /\ Pools' = [Pools EXCEPT ![d] = @ \ {k}]
                  /\ Takens' = [Takens EXCEPT ![d] = @ \cup {k}]
             /\ UNCHANGED status
  BY <1>6, PoolsClaimed, ClaimCommits
<1> QED BY <1>1, <1>2, <1>3, <1>4, <1>5, <1>6, Steps, Zenon

\* Peers see a server that does one registration, revocation, upload or claim at a
\* time: the requests, their stale reads and their failures do not show.
THEOREM DeviceKeysImplementKeyServer == Spec => ImplementsKeyServer
<1>1. Init => Server!ServerInit
  BY DEF Init, Server!ServerInit, Server!RegistryInit, Unclaimed, OtksOf
<1>2. DeviceInv /\ [Next]_vars => [Server!ServerNext]_(Server!serverVars)
  <2> SUFFICES ASSUME DeviceInv, [Next]_vars
               PROVE  [Server!ServerNext]_(Server!serverVars)
    OBVIOUS
  <2>1. TypeOK /\ Carried /\ RowsUnique
    BY DEF DeviceInv
  <2>2. CASE UNCHANGED <<status, Pools, Takens>>
    BY <2>2 DEF Server!serverVars, Pools, Takens, PoolOf, TakenOf
  <2>3. ASSUME NEW d \in Devices, Server!Activate(d),
               \E K \in (SUBSET OneTimeKeys) \ {{}} : StartsOver(d, K)
        PROVE  Server!Register(d)
    <3>1. PICK K \in (SUBSET OneTimeKeys) \ {{}} : StartsOver(d, K)
      BY <2>3
    <3>2. Server!Restart(d, K)
      BY <3>1 DEF StartsOver, Server!Restart, Pools, Takens, PoolOf, TakenOf
    <3> QED BY <2>3, <3>1, <3>2, Zenon DEF Server!Register
  <2>4. ASSUME NEW d \in Devices, Server!Retire(d), StartsOver(d, {})
        PROVE  Server!Revoke(d)
    BY <2>4 DEF StartsOver, Server!Revoke, Server!Restart, Pools, Takens, PoolOf, TakenOf
  <2>5. ASSUME NEW d \in Devices, UNCHANGED <<status, Takens>>,
               \E K \in SUBSET (OneTimeKeys \ (Pools[d] \cup Takens[d])) :
                 Pools' = [Pools EXCEPT ![d] = @ \cup K]
        PROVE  Server!Fill(d)
    BY <2>5 DEF Server!Fill, Pools, Takens, PoolOf, TakenOf
  <2>6. ASSUME NEW d \in Devices, UNCHANGED status,
               \E k \in Pools[d] : /\ Pools' = [Pools EXCEPT ![d] = @ \ {k}]
                                   /\ Takens' = [Takens EXCEPT ![d] = @ \cup {k}]
        PROVE  Server!Claim(d)
    BY <2>6 DEF Server!Claim, Pools, Takens, PoolOf, TakenOf
  <2> QED BY <2>1, <2>2, <2>3, <2>4, <2>5, <2>6, ServerStep, Zenon DEF Server!ServerNext
<1> QED
  BY <1>1, <1>2, DeviceInvariance, PTL DEF Spec, ImplementsKeyServer, Server!ServerSpec
=============================================================================
