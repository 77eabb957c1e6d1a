CONSTANTS
  Bytes32 <- MCBytes32
  ZeroBytes = 0
  Data <- MCData
  MakeDigest <- MCMakeDigest
  KeyedBytes <- MCKeyedBytes
  MaxInputSize = 64
  Views <- MCViews
  HexTexts <- MCHexTexts
  DigestObjects = {d1, d2}
  KeyObjects = {k1, k2}
  PrintObjects = {f1}
  Unset = Unset
  HashesOwnBytes = TRUE
SPECIFICATION Spec
PROPERTY SameInputSameDigest
