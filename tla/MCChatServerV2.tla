--------------------------- MODULE MCChatServerV2 ---------------------------
(* ChatServerV2 with the symmetry of an instance for TLC: nothing in it      *)
(* tells two clients, numbers, workers or lines apart.                       *)
EXTENDS ChatServerV2, TLC

MCsymmetry ==
    Permutations(Conn) \cup Permutations(Fd) \cup Permutations(Worker) \cup Permutations(Text)
=============================================================================
