---------------------------------- MODULE Registry ----------------------------------
(***************************************************************************)
(* What the rest of the system needs to know of the devices of             *)
(* src/src/device/device.service.ts: a device is unknown until it          *)
(* registers, and from then on its row stays, active or revoked.           *)
(***************************************************************************)
CONSTANTS Devices
VARIABLES status

Statuses == {"none", "active", "revoked"}

RegistryInit == status = [d \in Devices |-> "none"]

Active == {d \in Devices : status[d] = "active"}

\* Registering revives a revoked device, and repeats for an active one.
Activate(d) == status' = [status EXCEPT ![d] = "active"]

\* Revoking sets revokedAt; the row remains.
Retire(d) ==
  /\ status[d] # "none"
  /\ status' = [status EXCEPT ![d] = "revoked"]
=============================================================================
