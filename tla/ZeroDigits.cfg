SPECIFICATION Spec
CONSTANTS
  MinSize = 8
  MaxBits = 8
  MaxDigits = 4
  Rooms = {0, 1, 5}
  Windows = {8, 9}
  Groupings <- MCGroupings
  SepSizes = {0, 1, 2, 4}
  Precisions = {0, 6}
  Widths = {0, 11}
  Int16 = 64
  LibBitops = TRUE
INVARIANTS ZeroIsPrinted
