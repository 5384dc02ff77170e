SPECIFICATION Spec
CONSTANTS
  Mode = {FALSE}
  Target = {"server"}
  ClientPieces = 1
  ServerPieces = 2
  SockBuf = 2
  ReadBuf = 2
PROPERTY DownIsPipe
CHECK_DEADLOCK FALSE
