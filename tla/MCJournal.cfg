CONSTANTS
  d1 = d1
  v1 = v1
  c1 = c1  c2 = c2
  Deps = {d1}
  Vms = {v1}
  GuestKeys = {g1}
  NoKey = NoKey
  Callers = {c1, c2}
  Target <- OwnVm
  Serves <- Both
  Faults = {"refused", "lost_answer", "slow_task", "poll_error", "api_down", "aged"}
  MaxBegun = 2
  MaxCrashes = 2
SPECIFICATION FairSpec
INVARIANTS TypeOK SucceededIsTrue UnresolvedIsOwned
PROPERTIES SettledIsFinal BegunAgainAfterFailure CallsReturn
CHECK_DEADLOCK FALSE
