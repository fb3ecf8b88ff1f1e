SPECIFICATION Spec
CONSTANTS
  e1 = e1
  e2 = e2
  r1 = r1
  r2 = r2
  w1 = w1
  w2 = w2
  None = None
  Address <- WriteAddress
  Value = {0, 1}
  Entity = {e1}
  EntityAddresses <- WriteEntityAddresses
  OnConnection = {}
  Setting = {1, 2}
  WriteBlock <- WriteBlocks
  Refresher = {r1}
  Writer = {w1, w2}
  NumFailedPolls = 1
  WriteConfirmAttempts = 2
  RemoteControl = FALSE
  ReadPlan <- MCReadPlan
  MaxRead = 2
  Invalid = {}
  Individual = {}
INVARIANTS
  ShownWritesHold
SYMMETRY WriterSymmetry
CHECK_DEADLOCK FALSE
