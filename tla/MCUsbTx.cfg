SPECIFICATION FairSpec
CONSTANTS
  NDesc = 4
  FreeThr = 2
  Transient = TRUE
  Resets = TRUE
INVARIANTS
  SubmittedInv
PROPERTIES
  KeepsFifo
  QuietInReset
  EventuallyReported
CONSTRAINT NotStale
