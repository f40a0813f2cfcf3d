SPECIFICATION Spec
CONSTANTS
  d1 = d1
  d2 = d2
  t1 = t1
  a = a
  b = b
  Deposits <- MCDeposits
  Transfers <- MCTransfers
  Wallets <- MCWallets
  WalletOf <- MCWalletOf
  Limits <- MCLimits
  Offsets <- MCOffsets
  MaxHistoryScan = 6
  DefaultActivityLimit = 1
  MaxActivityLimit = 6
CHECK_DEADLOCK FALSE
INVARIANTS PageIsExact StableListedOnce ShownIsReal
