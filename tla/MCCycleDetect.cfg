SPECIFICATION Spec
CONSTANTS
  a = a
  b = b
  c = c
  u = u
  Name <- MCName
  DeclOrder <- MCDeclOrder
INVARIANTS
  ReportedOnCycle
  NoCleanCycle
