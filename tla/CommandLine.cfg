SPECIFICATION LineSpec
CONSTANTS
  CommandChars = {"a"}
  OtherChars = {"_"}
  MaxName = 2
  MaxWord = 1
  MaxArgs = 3
  MaxAreas = 2
INVARIANTS
  ReadsWhatWasWritten
  ThrowsIffMalformed
CHECK_DEADLOCK FALSE
