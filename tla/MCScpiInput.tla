---------------------------- MODULE MCScpiInput -----------------------------
(* Instances of ScpiInput for TLC. *)
EXTENDS ScpiInput
=============================================================================
