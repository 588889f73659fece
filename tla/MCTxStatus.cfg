SPECIFICATION FairSpec
CONSTANTS
  Frames = {f1, f2, f3}
  Wcids = {w1}
  First = 3
  Last = 4
  Contexts = 2
  PrepareFails = TRUE
  None = None
INVARIANTS
  StatusIsTracked
PROPERTIES
  EventuallyReported
