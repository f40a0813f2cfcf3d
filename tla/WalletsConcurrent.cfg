SPECIFICATION Spec
CONSTANTS
  Users = {ada}
  Currencies = {NGN}
  Ids = {w1, w2, w3}
  Numbers = {n1, n2, n3}
  Requests = {r1, r2}
  accountNumberAttempts = 2
  MaxBalance = 1
  MaxFaults = 2
SYMMETRY MCSymmetry
CHECK_DEADLOCK FALSE
INVARIANTS OneWalletEach DepositsFindAccount ListIsCurrent
