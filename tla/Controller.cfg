SPECIFICATION FairSpec
CONSTANTS
  Key = {"p", "other/p"}
  NameOf <- MCNameOf
  NsOf <- MCNsOf
  IP = {"ip1", "ip2"}
  EnvCA = {TRUE, FALSE}
  MaxInc <- MCInc
  MaxStarts = 2
  MaxTrouble = 1
INVARIANT TypeOK
INVARIANT OwnCert
INVARIANT AllFromStoredCA
PROPERTY WatchedPodGetsCert
PROPERTY SecretsCollected
CHECK_DEADLOCK FALSE
