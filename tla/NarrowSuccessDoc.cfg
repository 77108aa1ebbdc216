SPECIFICATION Spec
CONSTANTS
  MinSize = 3
  MaxUnit = 2
  MaxChars = 4
  MaxFinishes = 1
INVARIANT SuccessIsGoodBefore
CHECK_DEADLOCK FALSE
