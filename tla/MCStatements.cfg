SPECIFICATION Spec
CONSTANTS
  Struct <- MCStruct
  Domain <- MCDomain
  Field <- MCField
  FieldType <- MCFieldType
  Root = "H"
  Bodies <- MCBodies
  Depth <- MCDepth
INVARIANTS
  FaultIsReal
  OnlyUndeclaredPass
  KindsKept
