SPECIFICATION Spec
CONSTANTS
  f1 = f1  f2 = f2  n1 = n1  n2 = n2  s1 = s1  s2 = s2
  NoSnapshot = NoSnapshot
  NoState = NoState
  NoJournal = NoJournal
  Absent = Absent
  Files = {f1, f2}
  Notes = {n1, n2}
  FirstNote = n1
  Names = {s1}
  TooLarge <- Outgrown
  Strict = TRUE
  RecoveryFaults = {"open", "pre"}
  MaxKills = 2
  MaxFaults = 1
INVARIANTS
  TypeOK
  OpenNeverRefuses
  BodiesRecoverable
  ServesOneGeneration
  FailedLoadChangesNothing
PROPERTIES
  LoadIsAtomic
  RestoreSettles
