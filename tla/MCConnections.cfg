SPECIFICATION Spec
CONSTANTS
  Conns = {c1, c2}
  Requests = {r1, r2}
  Nobody = Nobody
  MaxFaults = 3
INVARIANTS ConnTypeOK NoDanglingReal RestartKeepsPromises
