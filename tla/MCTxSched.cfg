SPECIFICATION SchedSpec
CONSTANTS
  Stas = {s1, s2}
  MaxFrames = 1
  NDesc = 2
  FreeThr = 1
  MaxNonAql = 1
  MaxTroubles = 1
SYMMETRY Symmetry
INVARIANTS
  ThrottleIsSound
  WaitingIsServed
  NoStall
CONSTRAINT OneInTrouble
