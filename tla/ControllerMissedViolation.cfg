SPECIFICATION FairSpec
CONSTANTS
  Key = {"p"}
  NameOf <- MCNameOf
  NsOf <- MCNsOf
  IP = {"ip1", "ip2"}
  EnvCA = {TRUE}
  MaxInc <- MCOnce
  MaxStarts = 2
  MaxTrouble = 0
PROPERTY EveryPodGetsCert
CHECK_DEADLOCK FALSE
