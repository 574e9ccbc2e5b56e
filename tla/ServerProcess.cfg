SPECIFICATION ServerSpec
CONSTANTS
    Worker = {w1, w2}
    None = None
    Conn = {c1}
    NUM_SHARDS = 2
    shard <- MCshard
    MaxTasks = 4
    MaxBroadcasts = 2
INVARIANTS OnceAndInOrder StoppedIsQuiet
PROPERTIES BroadcastArrives ImplementsBroadcast
CHECK_DEADLOCK FALSE
