\* A registration and its repetition, while a peer claims the only key.
SPECIFICATION Spec
CONSTANTS
  alice = alice
  Users = {alice}
  Devices = {d1}
  Owner <- MCOwner
  OneTimeKeys = {o1}
  FallbackKeys = {f1}
  NoKey = NoKey
  PoolMax = 1
  Workers = {c1, c2}
  MaxRenewals = 2
INVARIANTS
  ConsumedOnce
