SPECIFICATION MCSpec
CONSTANTS
  NumFallbacks = 1
  FirstSshDelay = 2
  MaxSshDelay = 2
  MaxSshShift = 0
  ReadyTimeout = 1
  RetryBase = 1
  MaxRetryDelay = 3
  MaxRetryShift = 2
  MinInterval = 1
  MaxInterval = 2
  SuccessesBeforeSpeedup = 2
  RetryAfters = {0, 2}
  SshAfterErrors = 2
  Strategy = "latest"
  Bodies <- MCBodies
  Canonical <- MCCanonical
  Malformed = Malformed
INVARIANTS TypeOK OnlyLostBodiesAreFinal ListingIsSelection ChosenIsBest
PROPERTIES RequestsApart NoRequestWhileOwed SpeedupIsEarned LookupsEnd
