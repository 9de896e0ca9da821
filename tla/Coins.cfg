\* Two workers over every kind of request.  MaxInt is low enough for credits to
\* hit the limit of the balance column.
SPECIFICATION Spec
CONSTANTS
  alice = alice
  bob = bob
  post = post
  pack = pack
  session = session
  evt1 = evt1
  token = token
  Users = {alice, bob}
  Workers = {c1, c2}
  Posts = {post}
  Author <- MCAuthor
  Prices = {1, 3}
  Uuids = {x1, x2}
  Packages = {pack}
  CoinAmounts = {4}
  Sessions = {session}
  StripeEvents = {evt1}
  SessionOf <- MCSessionOf
  AppleTxns = {}
  GoogleTokens = {token}
  ProductOf <- MCProductOf
  AdminKeys = {}
  AdminAmounts <- MCAdminAmounts
  Keys <- MCKeys
  MaxInt = 7
SYMMETRY Symmetry
INVARIANTS
  TypeOK
  LedgerChain
  UnlockPaidOnce
  ChargePaysAuthor
  CreditedOnce
  DoneMeansCredited
PROPERTIES
  ImplementsLedger
  SpendsOnlyForUnlock
