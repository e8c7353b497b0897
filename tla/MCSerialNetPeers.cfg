SPECIFICATION Spec
CONSTANTS
  m = m
  a = a
  b = b
  Proc = {m, a, b}
  Options <- SamePeer
  Dynamic = {4, 5}
  Frame <- Frames
  Dest = {260}
  TxLimit = 2
  PtyLimit = 2
  StartLimit = 4
  DeathLimit = 0
  ReadLimit = 0
PROPERTIES
  SlaveDeathIsSurvived
CHECK_DEADLOCK FALSE
