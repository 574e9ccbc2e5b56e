---------------------------- MODULE MCWebServer ----------------------------
(* Instances of WebServer for TLC.                                          *)
EXTENDS WebServer, TLC

Symmetry == Permutations(Conn) \cup Permutations(Fd)
=============================================================================
