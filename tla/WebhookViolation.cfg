SPECIFICATION Spec
CONSTANTS
  Pod = {"named", "job", "foreign", "marked", "system"}
  Manifest <- MCManifest
  Labelled = {"default", "kube-system"}
  Edit <- MCEdit
  EnvCA = {TRUE, FALSE}
  MaxEdits = 0
  MaxEnds = 0
INVARIANT RefersToOwnSecret
CHECK_DEADLOCK FALSE
