SPECIFICATION Spec
CONSTANTS
  ta = ta  c1 = c1
  Refused = Refused
  Idle = Idle
  Tables = {ta}
  Clients = {c1}
  Schemas <- SchemaChoices
  Items <- ItemChoices
  Conditions <- ConditionChoices
  Updates <- UpdateChoices
  Queries <- QueryChoices
  Limits = {0, 1}
  Joint <- JointChoice
  MaxWrites = 2
  MaxNumber = 1
INVARIANTS
  TypeOK
  ItemsUnderTheirKey
  TransactionHolds
  ScanComplete
PROPERTY
  ScanEnds
