SPECIFICATION FairSpec
CONSTANTS
  SNMod = 6
  Sizes = {2}
  StartSNs = {4}
  Tids = {t1}
  None = None
PROPERTIES
  EventuallyReleased
