\* The only fault is a failed update of the metadata after the transfer.
SPECIFICATION Spec
CONSTANTS
  alice = alice
  k1 = k1
  k2 = k2
  e1 = e1
  Users = {alice}
  Workers = {c1}
  PayoutKeys = {k1}
  Asks <- OneAsk
  Earnings = {e1}
  EarnAmount = 4
  Num = 100
  Den = 150
  MinCoins = 1
  MinUsd = 1
  Faults = {"record fails"}
  MaxInt = 10
  Keys <- MCKeys
INVARIANT
  FailedMeansNotPaid
