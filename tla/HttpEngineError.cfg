SPECIFICATION QuerySpec
CONSTANTS
  Words <- SqlWords
  Upper <- UpperOf
  Letters <- LettersOf
  Numbers = {"7"}
  SizeMax = 23
  MaxSleep = 20
  Chunk = 2
  MaxBytes = 7
  Streams <- OneQuery
INVARIANT EngineFaultIs5xx
