SPECIFICATION Spec
CONSTANTS
  Configs <- MCConfigs
  MaxAbsent = 1
INVARIANTS
  NoAssertionFails
  PollsWhatIsWanted
  NothingCollides
  ValuesReadWhole
CHECK_DEADLOCK FALSE
