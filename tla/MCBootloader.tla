---------------------------- MODULE MCBootloader ----------------------------
(* Small instances of Bootloader for TLC. *)
EXTENDS Bootloader

CONSTANTS a1, a2, b1, b2

\* Images of different lengths: a2 and b1 take one page, a1 and b2 two.
MCLength == [img \in AppImages \cup BootImages |-> IF img \in {a2, b1} THEN 1 ELSE 2]
=============================================================================
