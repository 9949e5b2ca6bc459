SPECIFICATION Spec
CONSTANTS
  r1 = r1  p1 = p1
  Nothing = Nothing
  Null = Null
  Names = {1, 2, 3}
  Writes <- WriteChoices
  Batches <- BatchChoices
  Counters = {"n"}
  Queries <- QueryChoices
  PageSizes = {1, 2}
  Readers = {r1}
  Pagers = {p1}
  Width = 2
  Double <- DoubleChoice
  ClockSteps = {1}
  MaxTime = 3
INVARIANTS
  TypeOK
  AnswersAreTrue
  NoLostUpdate
  PagesComplete
PROPERTY
  PagingEnds
