SPECIFICATION FairSpec
CONSTANTS
  Pod = {"named", "job", "foreign", "marked", "system"}
  Manifest <- MCManifest
  Labelled = {"default", "kube-system"}
  Edit <- MCEdit
  EnvCA = {TRUE, FALSE}
  MaxEdits = 2
  MaxEnds = 1
INVARIANT TypeOK
INVARIANT MarkedIsInjected
PROPERTY EveryPodAdmitted
PROPERTY MarkedPodsGo
CHECK_DEADLOCK FALSE
