SPECIFICATION MCSpec
CONSTANTS
  OutThreads = {"t1", "t2"}
  MAX_STREAMS = 3
  FileSuffixes = {"a", "b"}
  Requests <- MCRequests
  MaxFd = 2
  MaxLines = 2
  BasicSize <- MCBasicSize
  Additions <- MCAdditions
  Resizings <- MCResizings
  MaxAdds = 2
  LONG_MAX = 100
  ConvAdditions <- MCConvAdditions
  ConvResizings <- MCConvResizings
  Iovecs <- MCIovecs
  Architectures <- MCArchitectures
  Counts = {2}
  Positions = {0, 4}
  MaxMoves = 1
  ByteBits = 2
  SumBytes = {0, 1, 3}
  SizeOf <- MCSizeOf
  CRC_POLYNOMIAL = 3
  CRC_INITIAL_REGISTER = 15
  MaxPiece = 5
  MaxBytes = 6
CHECK_DEADLOCK FALSE
INVARIANT FilesHoldTheirLines
INVARIANT DescriptionsAreSound
INVARIANT MovesTheData
INVARIANT PartialCallsCompose
