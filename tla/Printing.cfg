SPECIFICATION Spec
CONSTANTS
  One = 4
  Blank = " "
  Replacement = "?"
  UnitsOf <- MCUnitsOf
  WidthOf <- MCWidthOf
  DigitOf <- MCDigitOf
  Default <- MCDefault
  Values <- MCValues
  FmtOps <- MCFmtOps
  Joins <- MCJoins
  Packs <- MCPacks
  DestFacets <- MCDestFacets
  Sizes = {7}
  Rests <- MCRests
  TrStrings <- MCTrStrings
  TrValues <- MCTrValues
  TrFacets <- MCTrFacets
  MaxFormat = 2
  MaxWrap = 2
  MaxDest = 2
  MaxCalls = 4
CHECK_DEADLOCK FALSE
INVARIANTS TypeOK LastFormatWins TextRight SizeExact LastFacetWins TrRight
