SPECIFICATION MCSpec
CONSTANTS
  NumFallbacks = 0
  FirstSshDelay = 2
  MaxSshDelay = 2
  MaxSshShift = 0
  ReadyTimeout = 1
  RetryBase = 1
  MaxRetryDelay = 4
  MaxRetryShift = 2
  MinInterval = 1
  MaxInterval = 2
  SuccessesBeforeSpeedup = 2
  RetryAfters = {}
  SshAfterErrors = 2
  Strategy = "latest"
  Bodies <- MCBodies
  Canonical <- MCCanonical
  Malformed = Malformed

PROPERTY ShortProbeAfterLongCooldown
