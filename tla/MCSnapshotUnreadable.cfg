SPECIFICATION MCSpec
CONSTANTS
  NumFallbacks = 0
  FirstSshDelay = 2
  MaxSshDelay = 2
  MaxSshShift = 0
  ReadyTimeout = 1
  RetryBase = 1
  MaxRetryDelay = 2
  MaxRetryShift = 1
  RetryAfters = {5}
  SshAfterErrors = 1
  AlternateAfter = 2
  Captures <- MCCaptures
  Targets <- MCTargets
  Listing <- MCListing
  Selected = "a1"
  Oversized = {"b1"}
  Inspected = {"a1", "b1", "n1"}
  Digest <- MCDigest
  NoDigest = NoDigest

PROPERTY UnreadableIsLeft
CHECK_DEADLOCK FALSE
