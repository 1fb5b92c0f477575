SPECIFICATION RegisterSpec
CONSTANTS
  D = D
  TypeName = T
  x = x
  y = y
  MaxDecls = 2
  Namespace <- MCNamespace
  Text <- MCText
  Id <- MCId
  Hashes <- MCHashes
  Program <- MCProgram
INVARIANTS
  ErrorIsReal
  CleanIsUnambiguous
