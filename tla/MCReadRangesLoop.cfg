SPECIFICATION Spec
CONSTANTS
  Address <- MCAddress
  MaxRead = 4
  Invalid <- MCInvalid
  Individual <- MCIndividual
INVARIANTS
  TypeOK
  ReadsAreLegal
  AllWantedRead
  AgreesWithWholeList
  NoGroupingNeedsFewer
CHECK_DEADLOCK FALSE
