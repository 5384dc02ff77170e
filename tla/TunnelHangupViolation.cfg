SPECIFICATION FairSpec
CONSTANTS
  Mode = {TRUE}
  Target = {"server"}
  ClientPieces = 2
  ServerPieces = 2
  SockBuf = 2
  ReadBuf = 2
PROPERTY ClientEndReachesServer
CHECK_DEADLOCK FALSE
