SPECIFICATION Spec
CONSTANTS
  Probs = {1, 2, 3}
  Threshold = 3
  Floor = 2
  MinSilence = 2
  MinSpeech = 2
  Pad = 3
  MaxFrames = 6
  Lookback = 4
  FrameSamples = 2
  ChunkSizes = {3, 5}
  MaxSamples = 18
INVARIANT RemainderIsKept
CHECK_DEADLOCK FALSE
