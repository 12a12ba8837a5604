CONSTANTS
  d1 = d1  d2 = d2
  v1 = v1  v2 = v2
  c1 = c1  c2 = c2
  Deps = {d1, d2}
  Vms = {v1, v2}
  GuestKeys = {g1, g2}
  NoKey = NoKey
  NoDep = NoDep
  Callers = {c1, c2}
  Target <- TwoVms
  Serves <- AnyOp
  Faults = {}
  HasExposure = {}
  RunFrom = {"Queued"}
  Overlap = FALSE
  MaxRequests = 2
  MaxBegun = 6
  MaxCrashes = 0
SPECIFICATION DeploySpec
PROPERTY CheckedOnOwnVm
CHECK_DEADLOCK FALSE
