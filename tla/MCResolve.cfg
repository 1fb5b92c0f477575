SPECIFICATION Spec
CONSTANTS
  a = a
  b = b
  c = c
  u = u
  Fail = Fail
  Crash = Crash
  NoRoot = NoRoot
  NoExc = NoExc
  OwnError = OwnError
  Steps = {a, b, c, Fail, Crash}
  Name <- MCName
  DeclOrder <- MCDeclOrder
  Body <- MCBody
INVARIANTS
  FiledOnce
  BlockedOnRootCause
PROPERTIES
  ImplementsOutcome
