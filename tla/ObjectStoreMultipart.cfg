SPECIFICATION Spec
CONSTANTS
  b1 = b1  g1 = g1  k1 = k1  u1 = u1  c1 = c1  c2 = c2  t1 = t1
  NoTag = NoTag
  NoFile = NoFile
  TempFile = TempFile
  S3Buckets = {b1}
  Keys = {k1}
  Chunks = {c1, c2}
  SmallChunks = {c2}
  GCSBuckets = {}
  Uploads = {u1}
  MaxPart = 2
  Tags = {t1}
  Filters <- BothFilter
  MaxEvents = 1
  MaxKills = 1
  MaxPowerLosses = 0
  MaxFaults = 1
  CommitSyncFails = FALSE
INVARIANTS
  CommittedBodiesOnDisk
  ReferencesAreOwned
  NothingLeaks
PROPERTY
  CallsAreAtomic
