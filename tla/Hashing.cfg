CONSTANTS
  B = 4
  L = 1
  Byte <- MCByte
  Octet <- MCOctet
  Chunks <- MCChunks
  MidStates <- MCMidStates
  MaxLength = 11
  Texts <- MCTexts
  Digits <- MCDigits
  DigitValue <- MCDigitValue
  ChunkSize = 2
  Dst <- MCDst
  MaxInputSize = 3
  MaxByte = 3
  Modulus = 7
  Block = 4
  Word = 64
  Bytes = {0, 1, 2, 3}
  MaxSize = 11
SPECIFICATION Spec
INVARIANTS Represents SameAsBinary NoOverflow SumsAreReduced
PROPERTY KeepsPromise
CHECK_DEADLOCK FALSE
