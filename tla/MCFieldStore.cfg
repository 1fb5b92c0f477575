SPECIFICATION StoreSpec
CONSTANTS
  NoSource = NoSource
  Instance <- MCInstance
  Field <- MCField
  Struct <- MCStruct
  FieldType <- MCFieldType
  Statement <- MCStatement
  Programs <- MCPrograms
  MaxNum = 2
INVARIANTS
  NothingShared
  TypedExportComplete
PROPERTIES
  CachedFrozen
  StatementLocal
