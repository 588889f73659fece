SPECIFICATION FairMcuSpec
CONSTANTS
  Clients = {c1, c2}
  Reset = reset
  NumSeqs = 3
  MaxEvents = 2
  Tries = 2
  Nobody = Nobody
PROPERTIES
  OwnAnswer
  CallsReturn
  TimeoutResets
