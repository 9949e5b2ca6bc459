SPECIFICATION Spec
CONSTANTS
  b1 = b1  g1 = g1  k1 = k1  u1 = u1  c1 = c1  c2 = c2  t1 = t1
  NoTag = NoTag
  NoFile = NoFile
  TempFile = TempFile
  S3Buckets = {b1}
  Keys = {k1}
  Chunks = {c1, c2}
  SmallChunks = {c2}
  GCSBuckets = {g1}
  Uploads = {}
  MaxPart = 1
  Tags = {t1}
  Filters <- NoFilter
  MaxEvents = 1
  MaxKills = 1
  MaxPowerLosses = 2
  MaxFaults = 2
  CommitSyncFails = TRUE
INVARIANTS
  TypeOK
  OpenNeverRefuses
  FailedCallsLeaveNoTrace
PROPERTY
  AlwaysServesAgain
