SPECIFICATION Spec
CONSTANTS
  Bits = 4
  NoAddress = NoAddress
  d1 = d1
  d2 = d2
  Deps = {d1, d2}
  r1 = r1
  r2 = r2
  r3 = r3
  Routers = {r1, r2, r3}
  Shapes <- AllShapes
  Plans <- AllPlans
  Profiles <- AllProfiles
  Licences <- AllLicences
  AllowDev = FALSE
  KeySources <- AllKeySources
  FirstVmid = 100
  ForeignVmid = 101
  NatVm = 5
  Times = {0, 2, 3}
  MaxRequests = 3
  MaxSaves = 1
  MaxInstalls = 1
SYMMETRY EitherDep
INVARIANTS PortsMatchOutcome AddressesFit
PROPERTY LongChainsArePaid
CHECK_DEADLOCK FALSE
