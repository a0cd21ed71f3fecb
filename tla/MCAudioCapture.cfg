SPECIFICATION CaptureSpec
CONSTANTS
  f1 = f1
  f2 = f2
  f3 = f3
  Formats <- MCFormats
  Unsupported <- MCUnsupported
  ChunkSamples = 2
  FrameSamples = 3
  PreRollSamples = 4
  TrailingSamples = 4
  MinimumSpeech = 6
  MaxUtterance = 13
  PartialInterval = 4
  Jumps = {}
  Horizon = 22
  PacketSamples = 3
  PacketCapacity = 2
  Drifts = {0}
  RetryDelay = 4
  MaxRetryDelay = 8
  WatermarkInterval = 3
  DatingTolerance = 4
SYMMETRY FormatSymmetry
PROPERTIES
  ForwardedInOrder
CHECK_DEADLOCK FALSE
