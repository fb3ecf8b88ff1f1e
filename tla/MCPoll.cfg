SPECIFICATION Spec
CONSTANTS
  e1 = e1
  e2 = e2
  r1 = r1
  r2 = r2
  w1 = w1
  w2 = w2
  None = None
  Address <- PollAddress
  Value = {0, 1}
  Entity = {e1, e2}
  EntityAddresses <- PollEntityAddresses
  OnConnection = {2}
  Setting = {2, 3}
  WriteBlock = {}
  Refresher = {r1, r2}
  Writer = {}
  NumFailedPolls = 2
  WriteConfirmAttempts = 2
  RemoteControl = TRUE
  ReadPlan <- MCReadPlan
  MaxRead = 2
  Invalid = {}
  Individual = {}
INVARIANTS
  TypeOK
  OneRefreshAtATime
  AvailabilityIsShown
  NoRegisterLeftBehind
PROPERTIES
  ConnectingReadsAll
  ImplementsAvailability
CHECK_DEADLOCK FALSE
