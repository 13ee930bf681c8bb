--------------------------- MODULE MCScpiCommands ---------------------------
(* Instances of ScpiCommands for TLC: who sets what. *)
EXTENDS ScpiCommands

\* Two clients tune the same channel.
SameChannel == [c \in Clients |-> IF c = "c1" THEN {<<"pid_ac_kc", 1>>} ELSE {<<"pid_ac_ti", 1>>}]

\* A client and the console set the attenuation.
TwoAttenuations == [c \in Clients |-> {<<"attenuation", IF c = "c1" THEN 1 ELSE 2>>}]
=============================================================================
