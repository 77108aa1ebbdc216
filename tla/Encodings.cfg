SPECIFICATION CallSpec
CONSTANTS
  Sources <- MCSources
  Targets = {"utf8", "utf16", "utf32", "ascii", "iso_8859_1", "iso_8859_3", "iso_8859_15", "windows_1252"}
  MiniSize = 2
  After = {0, 56320}
  MinSize = 3
  MaxUnit = 2
  MaxChars = 11
  MaxFinishes = 1
INVARIANTS TextRight SizeExact StopsAtInvalid FillRight CountRight
INVARIANTS WindowInMemory MiniWindow EncodedInOrder NothingLeftBehind LossAtThrow
CHECK_DEADLOCK FALSE
