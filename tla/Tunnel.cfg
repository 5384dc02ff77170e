SPECIFICATION FairSpec
CONSTANTS
  Mode = {TRUE, FALSE}
  Target = {"server", "self"}
  ClientPieces = 2
  ServerPieces = 3
  SockBuf = 2
  ReadBuf = 2
INVARIANT TypeOK
INVARIANT DownSkipsOnlyStart
INVARIANT EndAfterData
PROPERTY UpIsPipe
PROPERTY TLSDownIsPipe
PROPERTY HandshakeEnds
PROPERTY LoopbackRefused
PROPERTY ServerEndReachesClient
PROPERTY RemoteEndReachesClient
CHECK_DEADLOCK FALSE
