SPECIFICATION Spec
CONSTANTS
  SIZE = 3
  MaxSamples = 3
  MaxPackets = 4
  MaxSlots = 2
INVARIANTS TypeOK PacketsInPlace NothingDropped SinkNotAhead
PROPERTY RxMonotone
CHECK_DEADLOCK FALSE
