\* Small instance of VadSegmenter.  The proportions of the code are kept:
\* chunks of 5 and frames of 8 units (160 and 256 samples), neither the
\* pre-roll nor the trailing silence a whole number of frames.
SPECIFICATION VadSpec
CONSTANTS
  ChunkSamples = 5
  FrameSamples = 8
  PreRollSamples = 12
  TrailingSamples = 20
  MinimumSpeech = 16
  MaxUtterance = 48
  PartialInterval = 16
  Jumps = {3}
  Horizon = 100
INVARIANT UtteranceWithinMaximum
CHECK_DEADLOCK FALSE
