SPECIFICATION FairSpec
CONSTANTS
  a = a
  b = b
  c = c
  Transfers = {t1, t2}
  Wallets <- MCWallets
  Currency <- MCCurrency
  Funds <- MCFunds
  Orders <- MCOrders
  TransferMaxRetry = 1
  Concurrency = 2
  Refusals = FALSE
  MaxFaults = 3
CHECK_DEADLOCK FALSE
INVARIANTS FailedNeverMoved
PROPERTIES KeepsPromise TransferResolves
