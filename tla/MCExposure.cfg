CONSTANTS
  Clients = {c1}
  Hops = 3
  Lookups = {1, 3}
  Modes = {"mock", "real"}
  Overlap = FALSE
  MaxRequests = 3
  MaxCrashes = 1
SPECIFICATION FairExpSpec
INVARIANTS ExpTypeOK InnermostFirst OutcomeIsTrue
PROPERTIES UnmappedBeforeDelete ExposureEnds
CHECK_DEADLOCK FALSE
