SPECIFICATION Spec
CONSTANTS
  Emails = {ada}
  Requests = {r1, r2}
  Profiles = {1}
  MaxAttempts = 2
  TTL = 2
  MaxIssues = 2
  MaxFaults = 2
SYMMETRY MCSymmetry
CHECK_DEADLOCK FALSE
INVARIANTS VerifiedByMail GuessBound SingleUse UsedCodeVerifies
PROPERTIES KeepsPromise CodeIsKept
