SPECIFICATION LinkSpec
CONSTANTS
  Nodes <- N
  Instance <- Instances
  BBMDs = {2}
  Sites <- Places
  Home <- Homes
  Group <- TheGroup
  Nowhere <- NoAddress
  BBMD_Table <- NoTable
  FD_Table <- NoTable
  Other <- TheOther
  Peer <- ThePeer
  Remote <- TheRemote
  RouterNetwork = 5
  MAX_MPDU = 64
  Chunk = 1
  MaxSteps = 3
  MaxWire = 3
INVARIANTS
  OnlyMine
  BoundWhereItWas
  TableIsAMap
CHECK_DEADLOCK FALSE
