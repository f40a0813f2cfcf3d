SPECIFICATION Spec
CONSTANTS
  Intents = {i1}
  MaxHooks = 2
  PollMaxRetry = 1
  HookMaxRetry = 1
  Concurrency = 3
  Amount = 2
  Payments <- AnyPayments
  RetryableCharge = TRUE
  Refusals = TRUE
  MaxFaults = 3
CHECK_DEADLOCK FALSE
INVARIANTS SuccessIsCredited CreditIsPaid RefundIsRecorded OneReceipt
PROPERTIES StatusEdges PollIsKept
