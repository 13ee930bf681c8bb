--------------------------- MODULE MCTempControl ----------------------------
(* Instances of TempControl for TLC: what the clients set. *)
EXTENDS TempControl

\* The mode, and for channel A/C a gain, a set point between the temperatures
\* or, again, below both, and a DAC value.
Operating ==
    [c \in Clients |->
        {"temp_ctrl_mode"} \X {0, 1} \cup {"pid_ac_set_point"} \X {0, 2}
            \cup {<<"pid_ac_ti", 1>>, <<"dac_ac", 2>>}]

\* A client that sends a derivative gain no float holds.
Infinite == [c \in Clients |-> Operating[c] \cup {<<"pid_ac_td", Inf>>}]

\* A client that sends a negative DAC value.
Negative == [c \in Clients |-> Operating[c] \cup {<<"dac_ac", -1>>}]
=============================================================================
