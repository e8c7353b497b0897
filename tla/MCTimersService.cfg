SPECIFICATION Spec
CONSTANTS
  w1 = w1
  w2 = w2
  w3 = w3
  Watcher = {w1}
  None = None
  h1 = h1
  h2 = h2
  Handle = {h1}
INVARIANTS
  TimersOutliveCallbacks
CHECK_DEADLOCK FALSE
