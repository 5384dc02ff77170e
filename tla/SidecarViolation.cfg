SPECIFICATION Spec
CONSTANTS
  Pod = {"a", "b", "bad"}
  Conn = {1}
  Src <- MCSrc
  Dst <- MCDst
  Configs <- MCConfigs
  MaxExits = 1
INVARIANT EncryptedWithCerts
CHECK_DEADLOCK FALSE
