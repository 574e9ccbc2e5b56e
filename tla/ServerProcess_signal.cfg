SPECIFICATION ServerSpec
CONSTANTS
    Worker = {w1}
    None = None
    Conn = {c1}
    NUM_SHARDS = 1
    shard <- MCshard
    MaxTasks = 1
    MaxBroadcasts = 1
INVARIANT SignalsCaptured
CHECK_DEADLOCK FALSE
