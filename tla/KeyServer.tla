---------------------------------- MODULE KeyServer ----------------------------------
(***************************************************************************)
(* What the key endpoints promise to peers, without requests, transactions *)
(* or stale reads: each device has a pool of one-time keys, and every      *)
(* registration, revocation, upload and claim happens at one moment.       *)
(***************************************************************************)
EXTENDS Registry

CONSTANTS Keys

VARIABLES
  pool,   \* one-time keys a peer can still be given
  taken   \* one-time keys given away since the keys of the device were cleared

serverVars == <<status, pool, taken>>

ServerInit ==
  /\ RegistryInit
  /\ pool = [d \in Devices |-> {}]
  /\ taken = [d \in Devices |-> {}]

\* Forget the keys of d and start over with the pool K.
Restart(d, K) ==
  /\ pool' = [pool EXCEPT ![d] = K]
  /\ taken' = [taken EXCEPT ![d] = {}]

Register(d) ==
  /\ Activate(d)
  /\ \E K \in (SUBSET Keys) \ {{}} : Restart(d, K)

Revoke(d) == Retire(d) /\ Restart(d, {})

\* New keys join the pool, never one that was in it or was given away.  The
\* device may have been revoked while its upload was under way.
Fill(d) ==
  /\ \E K \in SUBSET (Keys \ (pool[d] \cup taken[d])) :
       pool' = [pool EXCEPT ![d] = @ \cup K]
  /\ UNCHANGED <<status, taken>>

\* A peer is given one key, which leaves the pool.
Claim(d) ==
  /\ \E k \in pool[d] :
       /\ pool' = [pool EXCEPT ![d] = @ \ {k}]
       /\ taken' = [taken EXCEPT ![d] = @ \cup {k}]
  /\ UNCHANGED status

ServerNext == \E d \in Devices : Register(d) \/ Revoke(d) \/ Fill(d) \/ Claim(d)

ServerSpec == ServerInit /\ [][ServerNext]_serverVars
=============================================================================
