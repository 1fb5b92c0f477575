SPECIFICATION Spec
CONSTANTS
  Type <- MCType
  Row <- MCRow
  Consumer <- MCType
  SchemaHash <- MCSchemaHash
  Jobs <- MCJobs
INVARIANT SplitColumnsFit
