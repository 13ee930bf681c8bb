---------------------------- MODULE MCScpiServer ----------------------------
(* Instances of ScpiServer for TLC. *)
EXTENDS ScpiServer, TLC

Symmetry == Permutations(Threads) \cup Permutations(Descriptors)
=============================================================================
