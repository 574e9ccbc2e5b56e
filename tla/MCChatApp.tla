----------------------------- MODULE MCChatApp -----------------------------
(* Instances of ChatApp for TLC.                                            *)
EXTENDS ChatApp, TLC

(* Every kind of message with every argument.                                *)
AllMessages == ClientMessage

Symmetry == Permutations(Conn) \cup Permutations(Name) \cup Permutations(Room)
=============================================================================
