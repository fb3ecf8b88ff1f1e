SPECIFICATION Spec
CONSTANTS
  Poller = {poller}
  User = {user}
  None = None
  Capacity = 1000
  NumWords = 2
  HasWorkMode = TRUE
  Weather <- MCWeather
  Powers = {500}
  MaxChanges = 2
  MaxFailures = 1
INVARIANTS
  PowerWithinCapacity
  WatchdogIsSet
PROPERTIES
  DisableStops
  FallsBackWell
  ChargeSettles
  DischargeSettles
