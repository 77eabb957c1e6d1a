CONSTANTS
  Sizes = {15, 16, 17, 18, 1025}
  OptionsTried <- MCOptions
  Encoded <- MCEncoded
  Qualities = {49, 92}
  Nothing = Nothing
  Pictures <- MCPictures
  Formats <- MCFormats
  Sides = {0, 16}
  EncoderCode <- MCEncoderCode
  EncodedSize <- MCEncodedSize
  RenderSize <- MCRenderSize
  PixelCapacity = 1156
  MaxCapacity = 3
  Cells = 6
  CellValues = {0, 1}
  Width = 3
  MaxSize = 3
  ResultWidth <- MCResultWidth
  Hashed <- MCHashed
  HashCode <- MCHashCode
  ResultOf <- MCResultOf
SPECIFICATION Spec
INVARIANTS ImageIsLastPicture WholeFileOrNone QueryIsEnough SizeIsOfLastRequest ResultIsOfArguments
PROPERTIES RefusedAsSpecified FailureWritesNothing
