SPECIFICATION Spec
CONSTANTS
  None = None
  RootHost <- MCRootHost
  Clean <- Same
  Decoded <- Same
  Encoded <- Same
  Listing <- MCListing
  Archive <- MCArchive
  Incidents = {"cancel", "miss", "kill"}
  MaxIncidents = 2
  MaxRuns = 3
INVARIANTS TypeOK EvidenceHolds ResumeLosesNothing LinksArrive AliasesFillGaps RepairSettles
CHECK_DEADLOCK FALSE
