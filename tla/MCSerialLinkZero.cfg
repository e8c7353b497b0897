SPECIFICATION Spec
CONSTANTS
  LenBits = 2
  Packets <- OnePacket
  Rts = {"none", "pulldown", "rs485_te"}
  ReadBufSize = 3
  RxTimeout = 1
  PollPeriod = 1
  Roles = {TRUE, FALSE}
  NoiseBytes = {0, 4, 5}
  FrameLimit = 2
  FifoLimit = 4
  NoiseLimit = 1
INVARIANTS
  StoresInBounds
