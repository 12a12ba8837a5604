CONSTANTS
  d1 = d1  d2 = d2
  v1 = v1  v2 = v2
  c1 = c1  c2 = c2
  Deps = {d1}
  Vms = {v1}
  GuestKeys = {g1, g2, g3}
  NoKey = NoKey
  NoDep = NoDep
  Callers = {c1}
  Target <- OneVm
  Serves <- AnyOp
  Faults = {"lost_answer", "slow_task", "poll_error"}
  HasExposure = {d1}
  RunFrom <- AnyState
  Overlap = FALSE
  MaxRequests = 3
  MaxBegun = 9
  MaxCrashes = 1
SPECIFICATION FairDeploySpec
INVARIANTS StateFollowsJournal ReadyIsServed
PROPERTIES FollowsLifecycle FollowsJournal RequestsEnd
CHECK_DEADLOCK FALSE
