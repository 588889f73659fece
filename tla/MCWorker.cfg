SPECIFICATION FairSpec
CONSTANTS
  Callers = {c1, c2}
  Ctl = ctl
INVARIANTS
  NoLostWakeup
  DisabledIsQuiet
PROPERTIES
  KeepsPromise
