SPECIFICATION Spec
CONSTANTS
  Digits = {"1"}
  Letters = {"a"}
  Others = {"#"}
  Texts <- MCTexts
  Put <- MCPut
  MaxInput = 14
INVARIANTS
  TypeOK
  NoParserError
  CleanBetweenMessages
  OneMessagePerLine
CHECK_DEADLOCK FALSE
