SPECIFICATION FairSpec
CONSTANTS
  u1 = u1
  u2 = u2
  u3 = u3
  noUid = noUid
  StaticLow = 1
  StaticHigh = 1
  DynamicLow = 2
  DynamicHigh = 2
  OwnAddr = 0
  UniqueIds = {u1, u2}
  GarbageUids = {noUid}
  LostEchoes = {}
  MayExit = FALSE
  MasterStartTimeout = 1
  TokenGrantTx2RxTime = 1
  TokenClientTimeout = 1
  DelayTokenPacketSent = 1
  DelayTokenReturn = 1
  DelayTokenTimeout = 2
  DelayFreeAddress = 3
  AddrQueryPeriod = 2
PROPERTIES
  EveryLineIsPolled
  QueriesForever
