SPECIFICATION FairSpec
CONSTANTS
  s = s
  d1 = d1
  d2 = d2
  NoNode = NoNode
  Node = {d1, d2}
  StaticAddr <- AllDynamic
  TxLimit = 1
  Static = {1}
  Dynamic = {2, 3}
  Noise = {}
  Late = FALSE
  Bursts = FALSE
  BufferLimit = 2
  RestartLimit = 1
INVARIANTS
  TypeOK
PROPERTIES
  LoneClientGetsAnAddress
  QueueIsServed
