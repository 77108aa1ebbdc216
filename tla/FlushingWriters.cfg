SPECIFICATION AnySpec
CONSTANTS
  MinSize = 3
  MaxUnit = 2
  MaxChars = 7
  MaxFinishes = 2
INVARIANTS TypeOK WindowInMemory NothingLostWhileGood CountIsExact SuccessMeansComplete
PROPERTIES OperationsEnd DeliversInOrder
CHECK_DEADLOCK FALSE
