-------------------------- MODULE MCServerProcess --------------------------
EXTENDS ServerProcess

MCshard == [c \in Conn |-> 1]
=============================================================================
