SPECIFICATION Spec
CONSTANTS
  qs = qs  qa = qa  qb = qb  g1 = g1  g2 = g2  d1 = d1  d2 = d2
  NoGroup = NoGroup
  NoQueue = NoQueue
  Standard = {qs}
  Fifo = {qa, qb}
  Groups = {g1}
  DedupIds = {d1, d2}
  Scopes = {"queue"}
  Timeouts = {0, 1}
  ReceiveLimits = {1, 2}
  RedriveCounts = {1}
  DedupInterval = 1
  MaxMessages = 2
  MaxReceipts = 2
  MaxSequence = 2
  MaxTime = 1
INVARIANTS
  TypeOK
  SequenceOrder
  MessagesConserved
PROPERTY
  GroupOrder
SYMMETRY Symmetric
