SPECIFICATION DecoderSpec
CONSTANTS
  MinSize = 3
  MaxUnit = 2
  MaxChars = 5
  MaxFinishes = 1
  Sizes = {0}
INVARIANT DecodedOnce
CHECK_DEADLOCK FALSE
