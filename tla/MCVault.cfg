CONSTANTS
  Clients = {c1, c2}
  Refs = {r1, r2}
  Values = {x, y}
  Keys = {k1, k2, k3}
  None = None
  Torn = Torn
  RotateAlone = TRUE
  IoErrors = TRUE
  MaxCalls = 3
  MaxRotations = 2
  MaxCrashes = 2
SPECIFICATION VaultSpec
INVARIANTS VaultTypeOK VaultIsWhole RecordsRecoverable SettledIsDurable
CHECK_DEADLOCK FALSE
