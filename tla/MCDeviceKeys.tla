-------------------------------- MODULE MCDeviceKeys --------------------------------
(* Small instances of DeviceKeys for TLC. *)
EXTENDS DeviceKeys, TLC

CONSTANTS alice

MCOwner == [d \in Devices |-> alice]
Symmetry == Permutations(Workers) \cup Permutations(OneTimeKeys) \cup Permutations(FallbackKeys)
=============================================================================
