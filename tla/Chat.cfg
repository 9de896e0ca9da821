\* Two users with a device each; a message either may send; a room that two
\* requests may create at once.
SPECIFICATION Spec
SYMMETRY Symmetry
CONSTANTS
  alice = alice
  bob = bob
  a1 = a1
  Users = {alice, bob}
  Devices = {a1, b1}
  Owner <- MCOwner
  Rooms = {r1, r2}
  Messages = {m1}
  Askers = {c1, c2}
CHECK_DEADLOCK FALSE
INVARIANTS
  TypeOK
  FanoutIsCurrent
  NoGap
  RoomsBounded
  RoomOfMessage
