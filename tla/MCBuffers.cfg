SPECIFICATION Spec
CONSTANTS
  Pieces <- MCPieces
  IntSize = 2
  InitSize = 3
  ExtraSize = 3
  MaxBuffered = 4
INVARIANT AssertionsHold
PROPERTY TbufIsQueue
PROPERTY CircularBufferIsQueue
