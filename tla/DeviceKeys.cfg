\* One device, two requests at a time; the pool holds one key, so that two
\* uploads can exceed it, and each of three requests can bring a fallback key.
SPECIFICATION Spec
SYMMETRY Symmetry
CONSTANTS
  alice = alice
  Users = {alice}
  Devices = {d1}
  Owner <- MCOwner
  OneTimeKeys = {o1, o2, o3}
  FallbackKeys = {f1, f2, f3}
  NoKey = NoKey
  PoolMax = 1
  Workers = {c1, c2}
  MaxRenewals = 3
INVARIANTS
  TypeOK
  HandedOnce
  FallbackAvailable
  FallbacksBounded
  PoolBounded
PROPERTIES
  ImplementsKeyServer
