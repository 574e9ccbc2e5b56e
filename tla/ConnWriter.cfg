SPECIFICATION Spec
CONSTANTS
    Size = {1, 2}
    HIGH_WATER_MARK = 3
    LOW_WATER_MARK = 1
    BATCH_FLUSH_THRESHOLD = 1
    MAX_OUTGOING_QUEUE_SIZE = 3
    MaxPackets = 5
INVARIANTS Accounted WatchedWhenQueued
PROPERTIES Drains DataIsReadUnlessRaced
CHECK_DEADLOCK FALSE
