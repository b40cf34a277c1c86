SPECIFICATION FaultSpec
CONSTANTS
  LineMax = 8
  IntMax = 9
  Char <- MCChar
  Metas <- MCMetas
  Inserts <- MCInserts
  Selects <- MCSelects
  OldFiles <- GoodFiles
  MaxRows = 3
CONSTRAINT FewRows
INVARIANTS
  AckedRowsDurable
