\* One key for two amounts; a restart lets the client ask again.
SPECIFICATION Spec
CONSTANTS
  alice = alice
  k1 = k1
  k2 = k2
  e1 = e1
  Users = {alice}
  Workers = {c1}
  PayoutKeys = {k1}
  Asks <- TwoAmounts
  Earnings = {e1}
  EarnAmount = 6
  Num = 100
  Den = 150
  MinCoins = 1
  MinUsd = 1
  Faults = {"crash"}
  MaxInt = 10
  Keys <- MCKeys
INVARIANT
  RestoredAsDebited
