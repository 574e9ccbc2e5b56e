--------------------------- MODULE MCChatServerV3 ---------------------------
(* ChatServerV3 for TLC: one shard, and the symmetry of the instance.        *)
EXTENDS ChatServerV3, TLC

MCshard == [f \in Fd |-> "s"]

MCsymmetry ==
    Permutations(Conn) \cup Permutations(Fd) \cup Permutations(Worker) \cup Permutations(Text)
=============================================================================
