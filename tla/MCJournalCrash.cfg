CONSTANTS
  d1 = d1
  v1 = v1
  c1 = c1  c2 = c2
  Deps = {d1}
  Vms = {v1}
  GuestKeys = {g1}
  NoKey = NoKey
  Callers = {c1}
  Target <- OwnVm
  Serves <- Alone
  Faults = {}
  MaxBegun = 3
  MaxCrashes = 1
SPECIFICATION Spec
PROPERTY CrashNeverDuplicates
CHECK_DEADLOCK FALSE
