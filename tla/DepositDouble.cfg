SPECIFICATION Spec
CONSTANTS
  Intents = {i1}
  MaxHooks = 2
  PollMaxRetry = 1
  HookMaxRetry = 1
  Concurrency = 2
  Amount = 2
  Payments <- ExactPayment
  RetryableCharge = FALSE
  Refusals = FALSE
  MaxFaults = 1
CHECK_DEADLOCK FALSE
INVARIANT PayoutCovered
