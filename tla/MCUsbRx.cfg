SPECIFICATION FairSpec
CONSTANTS
  NDesc = 4
  Proto = TRUE
  NoMem = TRUE
  None = None
INVARIANTS
  OneOwner
PROPERTIES
  KeepsOrder
  UrbsReturn
