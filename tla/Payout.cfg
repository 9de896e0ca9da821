SPECIFICATION Spec
SYMMETRY Symmetry
CONSTANTS
  alice = alice
  k1 = k1
  k2 = k2
  e1 = e1
  Workers = {c1, c2}
  Users = {alice}
  PayoutKeys = {k1, k2}
  Asks <- ThreeAsks
  Earnings = {e1}
  EarnAmount = 6
  Num = 100
  Den = 150
  MinCoins = 1
  MinUsd = 1
  Faults = {"response lost", "record fails", "rollback fails", "crash"}
  MaxInt = 10
  Keys <- MCKeys
INVARIANTS
  TypeOK
  TransferBacked
  RefundMatchesDebit
  AnswersTrue
