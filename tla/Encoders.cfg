CONSTANTS
  Images <- MCImages
  Lengths <- MCLengths
  Distances <- MCDistances
  Canvases <- MCCanvases
  Window = 6
  MaxChain = 2
  Buckets = 2
  HashOf <- MCHashOf
  JpegImages <- MCJpegImages
  Scans <- MCScans
  Divisors <- MCDivisors
  BmpImages <- MCBmpImages
SPECIFICATION Spec
INVARIANTS AnyMatchDecodes MatchIsNearest FileDecodes TransformIsDct FileReads BitmapReads
CHECK_DEADLOCK FALSE
