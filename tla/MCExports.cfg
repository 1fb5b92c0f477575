SPECIFICATION Spec
CONSTANTS
  Type <- MCType
  Row <- MCRow
  Consumer <- MCType
  SchemaHash <- MCSchemaHash
  Jobs <- MCJobs
INVARIANTS
  NestedFirst
  RaisedOnCycle
  ExactlyNeeded
  FindExact
  AnswersAsCompiled
  UnitLinks
  InitialisersFit
  RecordsInPlace
  BinaryReadsBack
  ZeroPageSafe
  ChipAnswers
PROPERTIES
  ExportTerminates
