SPECIFICATION Spec
CONSTANTS
  s = s
  d1 = d1
  d2 = d2
  NoNode = NoNode
  Node = {s, d1, d2}
  StaticAddr <- StaticAndDynamic
  TxLimit = 0
  Static = {1}
  Dynamic = {2}
  Noise = {"grant_token", "return_token", "address_request", "address_reply"}
  Late = TRUE
  Bursts = FALSE
  BufferLimit = 2
  RestartLimit = 1
INVARIANTS
  AddressesAreUnique
  AddressIsBooked
  NoInterference
SYMMETRY DynamicSymmetry
