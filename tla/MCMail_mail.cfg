SPECIFICATION FairSpec
CONSTANTS
  Persons <- MCPersons
  Letters <- MCLetters
  To <- MCTo
  Parts <- MCParts
  MaxBlocks = 4
INVARIANTS
  FileSound
PROPERTIES
  KeepsPromise
  ReadsEnd
