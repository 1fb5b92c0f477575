SPECIFICATION Spec
CONSTANTS
  a = a
  b = b
  c = c
  u = u
  Fail = Fail
  Crash = Crash
  NoRoot = NoRoot
  NoExc = NoExc
  OwnError = OwnError
  Pairs = {a, b}
  MayHide = TRUE
  Name <- MCName
  DeclOrder <- MCDeclOrder
  Body <- MCBody
INVARIANTS
  BackstopUnreached
  BuildIsSound
PROPERTIES
  EarliestPhaseWins
  Terminates
