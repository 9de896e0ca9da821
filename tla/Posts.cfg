\* Two requests at a time, three in all, of two users; the flag's cache lasts one
\* tick of the clock.
SPECIFICATION Spec
CONSTANTS
  Callers = {r1, r2}
  Users = {u1, u2}
  Marks = {like}
  AutoPrice = 2
  AdminPrices = {0, 1}
  MaxRequests = 3
  None = None
  Ttl = 1
  MaxClock = 2
SYMMETRY Symmetry
CHECK_DEADLOCK FALSE
INVARIANTS
  TypeOK
  CountsTrack
  OverrideHolds
  PricedStaysPriced
  FlagFresh
