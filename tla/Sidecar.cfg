SPECIFICATION FairSpec
CONSTANTS
  Pod = {"a", "b", "bad"}
  Conn = {1, 2, 3}
  Src <- MCSrc
  Dst <- MCDst
  Configs <- MCConfigs
  MaxExits = 2
INVARIANT TypeOK
INVARIANT LateInv
INVARIANT NoLatePlain
INVARIANT BadCertsServeNothing
PROPERTY BacklogServed
CHECK_DEADLOCK FALSE
