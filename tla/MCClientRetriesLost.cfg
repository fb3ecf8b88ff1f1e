SPECIFICATION Spec
CONSTANTS
  a = a
  v = v
  w = w
  c = c
  NoTask = NoTask
  Reader = {a}
  Writer = {v, w}
  Closer = {}
  Cancellable = {}
  NumRetries = 3
  PollDelay = FALSE
INVARIANTS
  RetriesRestored
