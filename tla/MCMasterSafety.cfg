SPECIFICATION Spec
CONSTANTS
  u1 = u1
  u2 = u2
  u3 = u3
  noUid = noUid
  StaticLow = 1
  StaticHigh = 1
  DynamicLow = 2
  DynamicHigh = 3
  OwnAddr = 1
  UniqueIds = {u1, u2, u3}
  GarbageUids = {noUid}
  LostEchoes = {"grant_token", "master_started"}
  MayExit = TRUE
  MasterStartTimeout = 1
  TokenGrantTx2RxTime = 1
  TokenClientTimeout = 1
  DelayTokenPacketSent = 1
  DelayTokenReturn = 1
  DelayTokenTimeout = 2
  DelayFreeAddress = 3
  AddrQueryPeriod = 1
INVARIANTS
  TypeOK
  AbortsOnlyAtStart
  ActionOnce
  TokenForEveryLine
  QueryNeverLost
  AddressesConserved
  OneAddressPerClient
  ChartFollowsAction
  WakesUpInTime
PROPERTIES
  TimersAreNotReplaced
  ImplementsArbiter
SYMMETRY ClientSymmetry
CHECK_DEADLOCK FALSE
