CONSTANTS
 Conn = {c1,c2}
 Fd = {f1,f2}
 Worker = {w1,w2}
 Text = {a,b}
 Empty = Empty
 None = None
 MAX_EVENTS = 3
 MaxLines = 4
SPECIFICATION Spec
SYMMETRY MCsymmetry
CHECK_DEADLOCK FALSE
INVARIANTS NamesExact EntryMeetsItsConn LostOnlyIfLate HeardInOrder
PROPERTIES ImplementsBroadcast
