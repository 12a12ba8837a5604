CONSTANTS
  p1 = p1  s1 = s1
  Tags <- AllTags
  Base <- Beta2
  Good <- AllGood
  Panel = {p1}
  Shell = {s1}
  None = None
  AllowPrerelease = TRUE
  RestartCommand = {TRUE, FALSE}
  MaxApplies = 2
  MaxCrashes = 1
SPECIFICATION FairUpdSpec
INVARIANTS UpdTypeOK CurrentIsBuilt LeftHealthy
PROPERTIES ReleasesImmutable AnswerIsTrue OfferIsNewer UpdatesEnd
CHECK_DEADLOCK FALSE
