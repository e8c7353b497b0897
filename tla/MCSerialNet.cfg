SPECIFICATION Spec
CONSTANTS
  m = m
  a = a
  b = b
  Proc = {m, a, b}
  Options <- AllModes
  Dynamic = {4, 5}
  Frame <- Frames
  Dest = {260}
  TxLimit = 2
  PtyLimit = 2
  StartLimit = 4
  DeathLimit = 1
  ReadLimit = 2
INVARIANTS
  TypeOK
  AddressesAreNeverInvented
  InterfaceFollowsAddress
  LinkLeadsToPty
PROPERTIES
  DataReachesItsHost
CHECK_DEADLOCK FALSE
