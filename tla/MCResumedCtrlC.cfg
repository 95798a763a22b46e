SPECIFICATION Spec
CONSTANTS
  None = None
  RootHost <- MCRootHost
  Clean <- Same
  Decoded <- Same
  Encoded <- Same
  Listing <- MCListing
  Archive <- MCArchive
  Incidents = {"cancel"}
  MaxIncidents = 1
  MaxRuns = 2
INVARIANTS ResumeFetchesWhatIsMissing
CHECK_DEADLOCK FALSE
