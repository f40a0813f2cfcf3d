SPECIFICATION FairSpec
CONSTANTS
  Logins = {l1, l2}
  MailRetry = 1
  Concurrency = 2
  Limit = 1
  MaxFaults = 2
CHECK_DEADLOCK FALSE
INVARIANTS EventReachesAll MailIsRetried FeedIsComplete LastPageIsLast
PROPERTY MailIsSent
