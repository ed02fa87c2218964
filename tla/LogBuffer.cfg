CONSTANTS
  Bytes = {"x", "y", "nl", "cr", "sp", "tab"}
  RingCap = 3
  MaxChunk = 3
  MaxOutput = 4
SPECIFICATION Spec
INVARIANTS RingKeepsLast LinesAreWhole LastLineIsLast
\* The process writes no more than MaxOutput.
CHECK_DEADLOCK FALSE
