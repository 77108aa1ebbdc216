SPECIFICATION Spec
CONSTANTS
  One = 4
  Blank = " "
  Replacement = "?"
  UnitsOf <- MCUnitsOf
  WidthOf <- MCWidthOf
  DigitOf <- MCDigitOf
  Default <- MCDefault
  Values <- JoinValues
  FmtOps <- JoinFmtOps
  Joins <- JoinJoins
  Packs = {}
  DestFacets <- JoinDestFacets
  Sizes = {}
  Rests <- MCRests
  TrStrings <- NoTrStrings
  TrValues <- MCTrValues
  TrFacets <- MCTrFacets
  MaxFormat = 1
  MaxWrap = 1
  MaxDest = 1
  MaxCalls = 3
CHECK_DEADLOCK FALSE
INVARIANTS FilledToWidth
