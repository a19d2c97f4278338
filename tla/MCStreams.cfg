SPECIFICATION Spec
CHECK_DEADLOCK FALSE
CONSTANTS
  Chars <- MCChars
  Utf8Len <- MCUtf8Len
  Utf8Max = 2
  MbLen <- MCMbLen
  MbMax = 2
  Question = "q"
  BufferSize = 4
  UcsSize = 2
  Capacity <- MCCapacity
  InBufferSize = 2
  OutStacks <- MCOutStacks
  InStacks <- MCInStacks
  Texts <- MCTexts
  MaxBytes = 6
  MaxRead = 3
INVARIANTS
  WrittenArrives
  LayersSound
  ReadInOrder
  EndIsTheEnd
