SPECIFICATION Spec
CONSTANTS
  SNMod = 8
  Sizes = {4}
  StartSNs = {6}
  Tids = {t1, t2}
  None = None
SYMMETRY Symmetry
INVARIANTS
  WindowInv
  TimerInv
  FreedIsQuiet
PROPERTIES
  InOrderRelease
