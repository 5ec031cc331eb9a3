CONSTANTS
  Jobs = {j1, j2, j3}
  NoJob = NoJob
  MaxCrashes = 2
  MaxFaults = 2
  Requests = {q1, q2}
  Hosts = {gh, h}
  GitHub = gh
  None = None
  MaxRetries = 1
  Tags = {t1, t2}
  Topics = {t1}
  Editors = {q1}
  MaxMoveFaults = 3
  MaxStarts = 4
  Pulls = {2, 3}
  asset <- MCAsset
  size <- MCSize
  PageSize = 1
  MaxItems = 3
  MaxDownloads = 3
  MaxBytes = 4
  MaxMedia = 2
  a1 = a1
  a2 = a2
SPECIFICATION MCSpec
CHECK_DEADLOCK FALSE
INVARIANTS
  CredentialsFitRemote
  ManualTagsStay
  DataFollowsRow
PROPERTIES
  StaysWhole
  CloneHeals
  ActiveIsTried
  MetadataHolds
