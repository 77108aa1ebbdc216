SPECIFICATION Spec
CONSTANTS
  MinSize = 8
  MaxBits = 8
  MaxDigits = 4
  Rooms = {0, 1, 5}
  Windows = {8, 9}
  Groupings <- MCGroupings
  SepSizes = {0, 1, 2, 4}
  Precisions = {0, 6}
  Widths = {0, 11}
  LibBitops = FALSE
  FloatMinSize = 16
  FloatRooms = {0, 3}
  FloatWindows = {16, 17}
  Decimals <- MCDecimals
  Bits <- MCBits
  Formats <- MCFormats
  Puncts <- MCPuncts
  MaxExponent = 21
  Replacement = 3
  Byte = 20
  Unsigned = 1024
  Int16 = 64
INVARIANTS IntWindowSafe FloatWindowSafe IntTextRight FloatTextRight IntPreviewExact FloatPreviewExact DecodeExact
