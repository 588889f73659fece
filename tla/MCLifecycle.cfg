SPECIFICATION LifeSpec
CONSTANTS
  ResetTries = 2
  InitTries = 2
  MaxFaults = 5
INVARIANTS
  LoadsAreOrderly
  HungBusIsReset
PROPERTIES
  EveryResetEnds
