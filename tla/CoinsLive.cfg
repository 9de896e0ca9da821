\* Webhook delivery under crashes, conflicts and redelivery: one session whose
\* completion may be delivered any number of times, at once or in a row, while
\* an admin adjusts the same wallet under two keys and reprices the package.
SPECIFICATION FairSpec
CONSTANTS
  alice = alice
  bob = bob
  post = post
  pack = pack
  session = session
  evt1 = evt1
  token = token
  Users = {alice}
  Workers = {c1, c2}
  Posts = {}
  Author <- MCAuthor
  Prices = {3}
  Uuids = {x1}
  Packages = {pack}
  CoinAmounts = {2, 4}
  Sessions = {session}
  StripeEvents = {evt1}
  SessionOf <- MCSessionOf
  AppleTxns = {}
  GoogleTokens = {}
  ProductOf <- MCProductOf
  AdminKeys = {k1, k2}
  AdminAmounts <- MCAdminAmounts
  Keys <- MCKeys
  MaxInt = 100
INVARIANTS
  KeysMoveOnce
PROPERTIES
  EventsAnswered
