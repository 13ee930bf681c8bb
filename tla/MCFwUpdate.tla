----------------------------- MODULE MCFwUpdate -----------------------------
(* Small instances of FwUpdate for TLC. *)
EXTENDS FwUpdate

CONSTANTS a1, a2, b1

\* Application images of two pages and of one, a bootloader of one page.
MCLength == [img \in AppImages \cup BootImages |-> IF img = a1 THEN 2 ELSE 1]
=============================================================================
