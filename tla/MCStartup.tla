----------------------------- MODULE MCStartup ------------------------------
(* Instances of Startup for TLC: who sets what, and what a server answers. *)
EXTENDS Startup

\* Each connection tunes a channel of its own; one of them sets the
\* attenuation, the console the network.
NetworkAtConsole ==
    [c \in Clients |->
        IF c = "c1" THEN {"pid_ac_kc", "attenuation"} \X {1}
        ELSE IF c = "c2" THEN {"pid_bd_td", "dac_ac"} \X {1}
        ELSE {"mask", "eth_addr_mode"} \X {1}]

\* A server that gives no mask.
OneLease == {[ip |-> 8, mask |-> 0, gateway |-> 9]}

\* The console sets the attenuation, the address and the mode.
AttenuationAtConsole == [c \in Clients |-> {"attenuation", "ip", "eth_addr_mode"} \X {1}]
=============================================================================
