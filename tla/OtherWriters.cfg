SPECIFICATION FairSpec
CONSTANTS
  MinSize = 3
  MaxUnit = 2
  MaxChars = 8
  MaxFinishes = 2
  MaxMoves = 2
  Capacity = 6
  Sizes = {0, 2, 5}
INVARIANTS WindowInMemory Terminated TruncatedMeansLoss TruncatedLate
INVARIANTS NothingOverwritten FinishGivesAll NothingTwice CountNotTooHigh
PROPERTIES OperationsEnd DeliversInOrder
CHECK_DEADLOCK FALSE
