SPECIFICATION Spec
CONSTANTS
    Size = {2}
    HIGH_WATER_MARK = 3
    LOW_WATER_MARK = 1
    BATCH_FLUSH_THRESHOLD = 1
    MAX_OUTGOING_QUEUE_SIZE = 2
    MaxPackets = 2
PROPERTIES DataIsRead
CHECK_DEADLOCK FALSE
