CONSTANTS
  A = A
  B = B
  Car = {car}
  Camera <- TwoRoads
  Timestamp <- FourTimes
  RoundsUp <- Rounding
SPECIFICATION Spec
INVARIANTS OnePerDay DaysExplained
PROPERTY NewPairsCovered
