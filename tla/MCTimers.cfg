SPECIFICATION FairSpec
CONSTANTS
  w1 = w1
  w2 = w2
  w3 = w3
  Watcher = {w1, w2, w3}
  None = None
  h1 = h1
  h2 = h2
  Handle = {h1, h2}
INVARIANTS
  TypeOK
  LibevPointersAreValid
  UnusedWatchersAreFreed
PROPERTIES
  DisarmedTimersStaySilent
  ArmedTimersFire
CHECK_DEADLOCK FALSE
