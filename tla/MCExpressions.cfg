SPECIFICATION ExprSpec
CONSTANTS
  Type <- MCType
  Domains <- MCDomains
  FloatLimit <- MCFloatLimit
  BitWidth <- MCBitWidth
  Sources <- MCSources
  Lists <- MCLists
INVARIANTS
  StoredInRange
PROPERTIES
  LeftToRight
  ShapeExact
