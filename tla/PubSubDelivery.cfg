SPECIFICATION Spec
CONSTANTS
  ta = ta  tb = tb  sa = sa  sb = sb  c1 = c1  c2 = c2
  DeletedTopic = DeletedTopic
  NoTopic = NoTopic
  NoRequest = NoRequest
  Topics = {ta, tb}
  Subscriptions = {sa, sb}
  Clients = {c1}
  Attempts = {1}
  PullLimits = {1, 2}
  BatchSizes = {1, 2}
  Deadlines = {0, 1}
  SelfDeadLetter = FALSE
  MaxIds = 2
  MaxAcks = 2
  MaxTime = 1
INVARIANTS
  TypeOK
  HoldsWhatItOwes
SYMMETRY Symmetric
