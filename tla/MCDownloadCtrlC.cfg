SPECIFICATION MCSpec
CONSTANTS
  Urls <- MCUrls
  Paths <- MCPaths
  None = None
  Discovered <- MCDiscovered
  PathOf <- MCPathOf
  GuessOf <- MCGuessOf
  Equivalent <- MCEquivalent
  Original <- MCOriginal
  Links <- MCLinks
  Assets <- MCAssets
  Resembles <- MCResembles
INVARIANT CtrlCStillReports
CHECK_DEADLOCK FALSE
