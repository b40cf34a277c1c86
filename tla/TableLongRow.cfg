SPECIFICATION Spec
CONSTANTS
  LineMax = 8
  IntMax = 9
  Char <- MCChar
  Metas <- MCMetas
  Inserts <- LongInserts
  Selects <- MCSelects
  OldFiles <- GoodFiles
  MaxRows = 3
CONSTRAINT FewRows
INVARIANTS
  OneRowPerId
