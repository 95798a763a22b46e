SPECIFICATION MCSpec
CONSTANTS
  Paths = {page, image}
  Pages = {page}
  Captures = {good, broken}
  Unusable = {broken}
  None = None
  MaxLines = 2
INVARIANTS TypeOK MemoryIsJournal EvidenceNamesTheFile EvidenceWasOnDisk
PROPERTIES KeepsEvidence UsableStays NoClobberKeeps
CHECK_DEADLOCK FALSE
