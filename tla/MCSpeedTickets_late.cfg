CONSTANTS
  A = A
  B = B
  Car = {car}
  Camera <- OneRoad
  Timestamp <- FourTimes
  RoundsUp <- Rounding
SPECIFICATION Spec
PROPERTY AllPairsCovered
