SPECIFICATION ParserSpec
CONSTANTS
  Texts <- MCTexts
INVARIANTS
  AcceptsWellFormed
  TreeIsLayout
  ErrorAtFault
