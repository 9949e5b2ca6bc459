SPECIFICATION Spec
CONSTANTS
  qs = qs  qa = qa  qb = qb  g1 = g1  g2 = g2  d1 = d1  d2 = d2
  NoGroup = NoGroup
  NoQueue = NoQueue
  Standard = {}
  Fifo = {qa}
  Groups = {g1, g2}
  DedupIds = {d1, d2}
  Scopes = {"queue", "messageGroup"}
  Timeouts = {0, 1}
  ReceiveLimits = {1}
  RedriveCounts = {1}
  DedupInterval = 2
  MaxMessages = 3
  MaxReceipts = 1
  MaxSequence = 3
  MaxTime = 3
INVARIANTS
  DeduplicatedFor5Minutes
SYMMETRY Symmetric
