\* One cash-out, one worker at a time and a second for a concurrent repeat.
SPECIFICATION FairSpec
CONSTANTS
  alice = alice
  k1 = k1
  k2 = k2
  e1 = e1
  Users = {alice}
  Workers = {c1, c2}
  PayoutKeys = {k1}
  Asks <- OneAsk
  Earnings = {e1}
  EarnAmount = 4
  Num = 100
  Den = 150
  MinCoins = 1
  MinUsd = 1
  Faults = {"response lost", "record fails", "rollback fails", "crash"}
  MaxInt = 10
  Keys <- MCKeys
PROPERTY
  DebitsSettle
