--------------------------------- MODULE DeviceKeys ---------------------------------
(***************************************************************************)
(* Olm key material of a user's devices (src/src/device/device.service.ts):*)
(* registration, revocation, replenishing the pool of one-time keys,       *)
(* replacing the fallback key, and claiming one key bundle per device.     *)
(*                                                                         *)
(* The checks of a request read the database before its transaction, and   *)
(* the transactions run at READ COMMITTED: what a request acts on may be   *)
(* stale by the time it commits.                                           *)
(***************************************************************************)
EXTENDS Naturals, FiniteSets

CONSTANTS
  Users, Devices, Owner,    \* Owner \in [Devices -> Users]
  OneTimeKeys,              \* one-time keys a device can upload (id and key)
  FallbackKeys, NoKey,      \* fallback keys, and the absence of one
  PoolMax,                  \* OTK_POOL_MAX, also the longest list in a request
  Workers,                  \* requests the server handles concurrently
  MaxRenewals               \* bound: registrations and revocations of a device

ASSUME DeviceAssumption ==
  /\ Owner \in [Devices -> Users]
  /\ NoKey \notin FallbackKeys
  /\ PoolMax \in Nat \ {0} /\ MaxRenewals \in Nat
  /\ IsFiniteSet(Workers)

VARIABLES
  status,     \* no row yet, active, or revokedAt set
  otks,       \* DeviceOneTimeKey rows
  fallbacks,  \* DeviceFallbackKey rows
  handed,     \* how often a one-time key was given to a peer since the keys of
              \* its device were last cleared
  spent,      \* the one-time keys given to a peer before that
  renewals,   \* registrations and revocations asked for, per device
  pc, req

keyVars == <<status, otks, fallbacks, handed, spent, renewals>>
vars == <<keyVars, pc, req>>

NoReq == [kind |-> "none"]
KeyLists == {K \in SUBSET OneTimeKeys : IsFiniteSet(K) /\ Cardinality(K) <= PoolMax}
RegisterReqs == [kind: {"register"}, device: Devices, keys: KeyLists \ {{}},
                 fallback: FallbackKeys, known: BOOLEAN]
UploadReqs == [kind: {"upload"}, device: Devices, keys: KeyLists,
               fallback: FallbackKeys \cup {NoKey}, retire: SUBSET FallbackKeys]
RevokeReqs == [kind: {"revoke"}, device: Devices]
ClaimReqs == [kind: {"claim"}, todo: SUBSET Devices]
PCs == {"idle", "register", "count", "dups", "retire", "upload", "revoke",
        "claim", "fallback"}

TypeOK ==
  /\ status \in [Devices -> {"none", "active", "revoked"}]
  /\ otks \subseteq [device: Devices, key: OneTimeKeys, claimed: BOOLEAN]
  /\ fallbacks \subseteq [device: Devices, key: FallbackKeys, retired: BOOLEAN]
  /\ handed \in [Devices -> [OneTimeKeys -> Nat]]
  /\ spent \in [Devices -> SUBSET OneTimeKeys]
  /\ renewals \in [Devices -> 0..MaxRenewals]
  /\ pc \in [Workers -> PCs]
  /\ req \in [Workers -> {NoReq} \cup RegisterReqs \cup UploadReqs
                                 \cup RevokeReqs \cup ClaimReqs]

Init ==
  /\ status = [d \in Devices |-> "none"]
  /\ otks = {} /\ fallbacks = {}
  /\ handed = [d \in Devices |-> [k \in OneTimeKeys |-> 0]]
  /\ spent = [d \in Devices |-> {}]
  /\ renewals = [d \in Devices |-> 0]
  /\ pc = [c \in Workers |-> "idle"]
  /\ req = [c \in Workers |-> NoReq]

Unclaimed(d) == {r \in otks : r.device = d /\ ~r.claimed}
OtksOf(d) == {r.key : r \in {s \in otks : s.device = d}}
FallbacksOf(d) == {r.key : r \in {s \in fallbacks : s.device = d}}
ActiveFallbacks(d) == {r \in fallbacks : r.device = d /\ ~r.retired}
Others(rows, d) == {r \in rows : r.device # d}

Goto(c, label) == pc' = [pc EXCEPT ![c] = label]

Enter(c, label, r) ==
  /\ pc[c] = "idle"
  /\ Goto(c, label)
  /\ req' = [req EXCEPT ![c] = r]

Leave(c) ==
  /\ Goto(c, "idle")
  /\ req' = [req EXCEPT ![c] = NoReq]

---------------------------------------------------------------------------
(* Registration and revocation.                                            *)

\* Bound on the registrations and revocations of a device.
Renew(d) ==
  /\ renewals[d] < MaxRenewals
  /\ renewals' = [renewals EXCEPT ![d] = @ + 1]

\* register looks for a device with this identity key before its transaction.
Register(c, d, K, f) ==
  /\ Renew(d)
  /\ Enter(c, "register", [kind |-> "register", device |-> d, keys |-> K,
                           fallback |-> f, known |-> status[d] # "none"])
  /\ UNCHANGED <<status, otks, fallbacks, handed, spent>>

\* The request of worker c ends with the keys of d replaced by new rows.
\* Nothing is known of earlier claims, and the rows an upload in flight is
\* about to retire are gone.
ReplaceKeys(c, d, newOtks, newFallbacks) ==
  /\ otks' = Others(otks, d) \cup newOtks
  /\ fallbacks' = Others(fallbacks, d) \cup newFallbacks
  /\ handed' = [handed EXCEPT ![d] = [k \in OneTimeKeys |-> 0]]
  /\ spent' = [spent EXCEPT ![d] = @ \cup {k \in OneTimeKeys : handed[d][k] > 0}]
  /\ Goto(c, "idle")
  /\ req' = [x \in Workers |->
                IF x = c THEN NoReq
                ELSE IF req[x].kind = "upload" /\ req[x].device = d
                THEN [req[x] EXCEPT !.retire = {}] ELSE req[x]]
  /\ UNCHANGED renewals

\* A known device is revived and its old key material cleared; an unknown one
\* is created, unless the unique identity key was taken meanwhile.  The update
\* of the device row serializes this with other registrations and revocations.
CommitRegister(c) ==
  LET r == req[c] IN
  /\ pc[c] = "register"
  /\ r.known \/ status[r.device] = "none"
  /\ status' = [status EXCEPT ![r.device] = "active"]
  /\ ReplaceKeys(c, r.device, [device: {r.device}, key: r.keys, claimed: {FALSE}],
                                 [device: {r.device}, key: {r.fallback}, retired: {FALSE}])

\* revoke returns at once when the device is revoked already.
Revoke(c, d) ==
  /\ status[d] = "active" /\ Renew(d)
  /\ Enter(c, "revoke", [kind |-> "revoke", device |-> d])
  /\ UNCHANGED <<status, otks, fallbacks, handed, spent>>

CommitRevoke(c) ==
  LET d == req[c].device IN
  /\ pc[c] = "revoke"
  /\ status' = [status EXCEPT ![d] = "revoked"]
  /\ ReplaceKeys(c, d, {}, {})

---------------------------------------------------------------------------
(* uploadOneTimeKeys.                                                      *)

UploadOneTimeKeys(c, d, K, f) ==
  /\ status[d] = "active"
  /\ K # {} \/ f # NoKey
  /\ Enter(c, "count", [kind |-> "upload", device |-> d, keys |-> K, fallback |-> f,
                        retire |-> {}])
  /\ UNCHANGED keyVars

\* Mutant: no limit.
CountOtksUnchecked(c) ==
  /\ pc[c] = "count"
  /\ Goto(c, "dups")
  /\ UNCHANGED <<keyVars, req>>

\* The pool must have room for the keys of the request.
CountOtks(c) ==
  LET r == req[c] IN
  /\ pc[c] = "count"
  /\ IF Cardinality(Unclaimed(r.device)) + Cardinality(r.keys) > PoolMax
     THEN Leave(c)
     ELSE Goto(c, "dups") /\ UNCHANGED req
  /\ UNCHANGED keyVars

\* Keys the device already has, claimed or not, are left out.
SkipDuplicates(c) ==
  LET r == req[c] IN
  /\ pc[c] = "dups"
  /\ req' = [req EXCEPT ![c].keys = @ \ OtksOf(r.device)]
  /\ Goto(c, IF r.fallback = NoKey THEN "upload" ELSE "retire")
  /\ UNCHANGED keyVars

\* updateMany retires the fallback keys that are active, as its statement
\* sees them: rows committed later by another request are not among them.
RetireFallbacks(c) ==
  /\ pc[c] = "retire"
  /\ req' = [req EXCEPT ![c].retire = {r.key : r \in ActiveFallbacks(req[c].device)}]
  /\ Goto(c, "upload")
  /\ UNCHANGED keyVars

\* Mutant: the new key is inserted before the others are retired.
CommitUploadRetiresAll(c) ==
  LET r == req[c]
      d == r.device IN
  /\ pc[c] = "upload"
  /\ r.keys \cap OtksOf(d) = {} /\ r.fallback \notin FallbacksOf(d)
  /\ otks' = otks \cup [device: {d}, key: r.keys, claimed: {FALSE}]
  /\ fallbacks' = {[s EXCEPT !.retired = @ \/ (s.device = d /\ r.fallback # NoKey)] :
                     s \in fallbacks \cup
                           [device: {d}, key: {r.fallback} \ {NoKey}, retired: {FALSE}]}
  /\ Leave(c)
  /\ UNCHANGED <<status, handed, spent, renewals>>

\* Mutant: a fallback row is inserted whether the request has a key or not.
CommitUploadNoKey(c) ==
  LET r == req[c]
      d == r.device IN
  /\ pc[c] = "upload"
  /\ r.keys \cap OtksOf(d) = {} /\ r.fallback \notin FallbacksOf(d)
  /\ otks' = otks \cup [device: {d}, key: r.keys, claimed: {FALSE}]
  /\ fallbacks' = {[s EXCEPT !.retired = @ \/ (s.device = d /\ s.key \in r.retire)] :
                     s \in fallbacks}
                  \cup [device: {d}, key: {r.fallback}, retired: {FALSE}]
  /\ Leave(c)
  /\ UNCHANGED <<status, handed, spent, renewals>>

\* Mutant: keys that exist by now are written over.
CommitUploadUpserts(c) ==
  LET r == req[c]
      d == r.device IN
  /\ pc[c] = "upload"
  /\ r.fallback \notin FallbacksOf(d)
  /\ otks' = {s \in otks : s.device # d \/ s.key \notin r.keys}
             \cup [device: {d}, key: r.keys, claimed: {FALSE}]
  /\ fallbacks' = {[s EXCEPT !.retired = @ \/ (s.device = d /\ s.key \in r.retire)] :
                     s \in fallbacks}
                  \cup [device: {d}, key: {r.fallback} \ {NoKey}, retired: {FALSE}]
  /\ Leave(c)
  /\ UNCHANGED <<status, handed, spent, renewals>>

\* Mutant: nothing is retired.
CommitUploadKeepsOld(c) ==
  LET r == req[c]
      d == r.device IN
  /\ pc[c] = "upload"
  /\ r.keys \cap OtksOf(d) = {} /\ r.fallback \notin FallbacksOf(d)
  /\ otks' = otks \cup [device: {d}, key: r.keys, claimed: {FALSE}]
  /\ fallbacks' = fallbacks
                  \cup [device: {d}, key: {r.fallback} \ {NoKey}, retired: {FALSE}]
  /\ Leave(c)
  /\ UNCHANGED <<status, handed, spent, renewals>>

\* The keys are inserted; the unique index on device and key id decides.
CommitUpload(c) ==
  LET r == req[c]
      d == r.device IN
  /\ pc[c] = "upload"
  /\ r.keys \cap OtksOf(d) = {} /\ r.fallback \notin FallbacksOf(d)
  /\ otks' = otks \cup [device: {d}, key: r.keys, claimed: {FALSE}]
  /\ fallbacks' = {[s EXCEPT !.retired = @ \/ (s.device = d /\ s.key \in r.retire)] :
                     s \in fallbacks}
                  \cup [device: {d}, key: {r.fallback} \ {NoKey}, retired: {FALSE}]
  /\ Leave(c)
  /\ UNCHANGED <<status, handed, spent, renewals>>

---------------------------------------------------------------------------
(* claimKeys.                                                              *)

\* The devices of the target that are active now; the loop visits them one
\* after the other, with awaits in between.
ClaimKeys(c, u) ==
  /\ Enter(c, "claim", [kind |-> "claim",
                        todo |-> {d \in Devices : Owner[d] = u /\ status[d] = "active"}])
  /\ UNCHANGED keyVars

Handed(d, k) == handed' = [handed EXCEPT ![d][k] = @ + 1]

\* Mutant: the update does not look at claimedAt.
ClaimOtkAgain(c, d) ==
  /\ pc[c] = "claim" /\ d \in req[c].todo
  /\ \E r \in {s \in otks : s.device = d} :
       /\ otks' = (otks \ {r}) \cup {[r EXCEPT !.claimed = TRUE]}
       /\ Handed(d, r.key)
  /\ req' = [req EXCEPT ![c].todo = @ \ {d}]
  /\ UNCHANGED <<status, fallbacks, spent, renewals, pc>>

\* tryClaimOtk: one statement, one row.
ClaimOtk(c, d) ==
  /\ pc[c] = "claim" /\ d \in req[c].todo
  /\ \E r \in Unclaimed(d) :
       /\ otks' = (otks \ {r}) \cup {[r EXCEPT !.claimed = TRUE]}
       /\ Handed(d, r.key)
  /\ req' = [req EXCEPT ![c].todo = @ \ {d}]
  /\ UNCHANGED <<status, fallbacks, spent, renewals, pc>>

\* No row to claim: the fallback key is read next.
ClaimNone(c, d) ==
  /\ pc[c] = "claim" /\ d \in req[c].todo
  /\ Unclaimed(d) = {}
  /\ req' = [req EXCEPT ![c].todo = @ \ {d}]
  /\ Goto(c, "fallback")
  /\ UNCHANGED keyVars

\* The fallback key is handed out, or the device is left out of the answer.
ClaimFallback(c) ==
  /\ pc[c] = "fallback"
  /\ Goto(c, "claim")
  /\ UNCHANGED <<keyVars, req>>

ClaimDone(c) ==
  /\ pc[c] = "claim" /\ req[c].todo = {}
  /\ Leave(c)
  /\ UNCHANGED keyVars

---------------------------------------------------------------------------
\* A request fails: an error of the database or of its unique indexes, or the
\* process restarts.
Fail(c) ==
  /\ pc[c] # "idle"
  /\ Leave(c)
  /\ UNCHANGED keyVars

Next ==
  \E c \in Workers :
    \/ \E d \in Devices :
         \/ \E K \in KeyLists \ {{}}, f \in FallbackKeys : Register(c, d, K, f)
         \/ \E K \in KeyLists, f \in FallbackKeys \cup {NoKey} : UploadOneTimeKeys(c, d, K, f)
         \/ Revoke(c, d) \/ ClaimOtk(c, d) \/ ClaimNone(c, d)
    \/ \E u \in Users : ClaimKeys(c, u)
    \/ CommitRegister(c) \/ CommitRevoke(c)
    \/ CountOtks(c) \/ SkipDuplicates(c) \/ RetireFallbacks(c) \/ CommitUpload(c)
    \/ ClaimFallback(c) \/ ClaimDone(c)
    \/ Fail(c)

Spec == Init /\ [][Next]_vars

---------------------------------------------------------------------------
(* Properties.                                                             *)

\* "Two concurrent claims cannot both receive the same row" (claimKeys), and
\* no repeated or concurrent upload makes a claimed key available again: until
\* the keys of the device are cleared, a one-time key goes to one peer.
HandedOnce ==
  \A d \in Devices, k \in OneTimeKeys : handed[d][k] <= 1

\* A device that peers can see can always be reached: whatever uploads,
\* registrations and revocations interleave, an active device has a fallback
\* key for the time its pool is empty, so a claim never leaves it out.
FallbackAvailable ==
  \A d \in Devices : status[d] = "active" => ActiveFallbacks(d) # {}

\* "Exactly one row per device should have retiredAt null at a time"
\* (schema.prisma:316-318).  An upload retires the rows its statement sees, so each of
\* several concurrent requests may leave a row of its own; but whatever uploads and
\* registrations follow one another, there are never more than requests at a time.
FallbacksBounded ==
  \A d \in Devices : Cardinality(ActiveFallbacks(d)) <= Cardinality(Workers)

\* The pool is counted before the transaction that fills it, so OTK_POOL_MAX
\* ("to prevent unbounded storage") may be exceeded; but each concurrent
\* request exceeds it at most by itself.
PoolBounded ==
  \A d \in Devices : Cardinality(Unclaimed(d)) <= PoolMax * Cardinality(Workers)

\* Peers cannot tell the interleaved, stale-reading requests from a server that
\* does one atomic registration, revocation, upload or claim at a time: an
\* upload never brings back a key that a claim took between its reads and its
\* commit, a claim takes one key of the pool, and no device disappears.
Server == INSTANCE KeyServer WITH
            Devices <- Devices, Keys <- OneTimeKeys, status <- status,
            pool <- [d \in Devices |-> {r.key : r \in Unclaimed(d)}],
            taken <- [d \in Devices |-> OtksOf(d) \ {r.key : r \in Unclaimed(d)}]
ImplementsKeyServer == Server!ServerSpec

\* "One-time prekeys uploaded by a Device, consumed at most once"
\* (schema.prisma:296): no key goes to two peers, whatever becomes of its row.
ConsumedOnce ==
  \A d \in Devices, k \in OneTimeKeys :
    handed[d][k] <= IF k \in spent[d] THEN 0 ELSE 1
=============================================================================
