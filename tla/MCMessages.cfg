SPECIFICATION MsgSpec
CONSTANTS
  RnrMax = 2
  MaxLen = 4
  RefMod = 3
  RxBands = {2, 5}
  Stas <- MCStas
  Bas <- MCBas
  Caps <- MCCaps
  Scans <- MCScans
  Rnrs <- MCRnrs
  Domains <- MCDomains
  Tables <- MCTables
  Limits <- MCLimits
  Images <- MCImages
  Patches <- MCPatches
  Fails <- MCFails
  RxSeqs <- MCRxSeqs
  TxFrames <- MCTxFrames
  TxsEvents <- MCTxsEvents
  AirMod = 32
  AirFull = 8
  Channels = {1, 2}
  Surveys <- MCSurveys
  Polls <- MCPolls
  Signals <- MCSignals
  Sleeps <- MCSleeps
  Addrs <- MCAddrs
  Notices <- MCNotices
  Nodes <- MCNodes
  HeadLen = 4
  Overhead = 2
  DumpSize = 10
  Transfers <- MCTransfers
  Packets <- MCPackets
  Links <- MCLinks
  Parts <- MCParts
INVARIANTS
  RecordsAgree
  ListsAreComplete
  PowerIsLimited
  ImageArrives
  FramesAreWhole
  DescriptorAgrees
  TimeIsCountedOnce
  SleepIsUndone
