CONSTANTS
  B = 7
  L = 2
  D = 2
  Byte <- MCByte
  Octet <- MCOctet
  Xor <- MCXor
  DigestByte <- MCDigestByte
  Passwords <- MCPasswords
  Salts <- MCSalts
  MaxCount = 3
  MaxSize = 5
SPECIFICATION Spec
INVARIANT BufferIsTerm
PROPERTY KeepsRfc8018
CHECK_DEADLOCK FALSE
