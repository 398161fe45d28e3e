SPECIFICATION Spec
CONSTANTS
  SIZE = 3
  MaxSamples = 3
  MaxPackets = 3
  MaxSlots = 2
INVARIANT SamplesReconstructed
CHECK_DEADLOCK FALSE
