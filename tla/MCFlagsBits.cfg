SPECIFICATION Spec
CONSTANTS
  Member = {m1, m2, m3}
  Width = 2
  MaxEntries = 4
  Block <- MCBlock
INVARIANTS
  BitsDistinct
  OverflowOnlyWhenFull
