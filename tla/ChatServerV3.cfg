CONSTANTS
 Conn = {c1,c2}
 Fd = {f1,f2}
 Shard = {"s"}
 shard <- MCshard
 Worker = {w1,w2}
 Text = {a,b}
 Empty = Empty
 None = None
 MaxReads = 2
SPECIFICATION Spec
SYMMETRY MCsymmetry
INVARIANTS NamesFreedUnlessRaced NoBroadcastLost OwnDescriptor
PROPERTIES ImplementsBroadcast
CHECK_DEADLOCK FALSE
