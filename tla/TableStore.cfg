SPECIFICATION Spec
CONSTANTS
  LineMax = 8
  IntMax = 9
  Char <- MCChar
  Metas <- MCMetas
  Inserts <- MCInserts
  Selects <- MCSelects
  OldFiles <- AnyFiles
  MaxRows = 3
CONSTRAINT FewRows
INVARIANTS
  IndexAgrees
  AckedRowsDurable
  OneRowPerId
PROPERTIES
  RefinesTable
