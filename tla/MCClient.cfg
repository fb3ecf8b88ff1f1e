SPECIFICATION FairSpec
CONSTANTS
  a = a
  v = v
  w = w
  c = c
  NoTask = NoTask
  Reader = {a}
  Writer = {v, w}
  Closer = {c}
  Cancellable = {a, v}
  NumRetries = 3
  PollDelay = TRUE
INVARIANTS
  TypeOK
  OneTransaction
  RetriesComeBack
  WriteSentOnce
  ReadsAreRetried
PROPERTIES
  ImplementsSerialBus
  CallReturns
