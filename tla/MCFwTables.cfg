SPECIFICATION TablesSpec
CONSTANTS
  ap = ap
  sta1 = sta1
  s1 = s1
  s2 = s2
  td = td
  Vifs = {ap, sta1}
  APs = {ap}
  Stas = {s1, s2, td}
  Home <- MCHome
  Tdls = {td}
  MaxVifs = 2
  WtblSta = 3
  MaxExtras = 1
  MaxFaults = 1
  None = None
INVARIANTS
  OneOwnerPerIndex
  FirmwareAgrees
  WipedPeersGo
