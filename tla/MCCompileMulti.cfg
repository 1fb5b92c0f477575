SPECIFICATION CompileSpec
CONSTANTS
  Path = {1, 2, 3}
  Norm <- MCNorm
  Args <- MCArgs
  Line <- MCLine
  File <- MCFile
  Contents <- MCContents
  NoLine = NoLine
  MaxArgs = 2
INVARIANTS
  OrderReproducible
  ExactLineByLine
