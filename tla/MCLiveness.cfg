SPECIFICATION FairSpec
CONSTANTS
  e1 = e1
  e2 = e2
  r1 = r1
  r2 = r2
  w1 = w1
  w2 = w2
  None = None
  Address <- SettingAddress
  Value = {0, 1}
  Entity = {e1}
  EntityAddresses <- SettingEntityAddresses
  OnConnection = {}
  Setting = {1}
  WriteBlock = {{1}}
  Refresher = {r1}
  Writer = {w1}
  NumFailedPolls = 2
  WriteConfirmAttempts = 2
  RemoteControl = TRUE
  ReadPlan <- MCReadPlan
  MaxRead = 2
  Invalid = {}
  Individual = {}
PROPERTIES
  RecoversWithLink
  NoticesLostLink
  InvalidIsReported
  SettingConverges
  CallsReturn
CHECK_DEADLOCK FALSE
