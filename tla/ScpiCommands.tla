---------------------------- MODULE ScpiCommands ----------------------------
(***************************************************************************)
(* The set commands of scpi_rffe_cmd.c, run by one thread for each client, *)
(* and of the console (rffe_console_cfg.c).  They share the configuration  *)
(* file, the attenuator and the two DAC values, and take no lock.  One     *)
(* read or write of a setting in the file is one step.                     *)
(***************************************************************************)
EXTENDS Integers, Sequences, Functions

CONSTANTS
    Clients,   \* SCPI client threads and the console
    Allowed,   \* for each of them, the settings it may set and the values
    DacMax,    \* 3.3 V
    DacFound   \* whether /dev/dac0 can be opened

Channels == {"ac", "bd"}
PidGroup == [ac |-> <<"pid_ac_kc", "pid_ac_ti", "pid_ac_td">>,
             bd |-> <<"pid_bd_kc", "pid_bd_ti", "pid_bd_td">>]
PidFields == Range(PidGroup["ac"]) \cup Range(PidGroup["bd"])
Setpoint == [ac |-> "pid_ac_set_point", bd |-> "pid_bd_set_point"]

\* Settings that one write stores.
PlainFields == Range(Setpoint) \cup {"temp_ctrl_mode", "mac", "ip", "mask", "gateway", "eth_addr_mode"}
Fields == PidFields \cup PlainFields \cup {"attenuation"}
DacChannel == [dac_ac |-> "ac", dac_bd |-> "bd"]

ASSUME CommandsAssumption ==
    /\ DacMax \in Nat \ {0} /\ DacFound \in BOOLEAN
    /\ \A c \in Clients : Allowed[c] \subseteq ((Fields \cup DOMAIN DacChannel) \X Int)

VARIABLES
    file,     \* settings in /dev/feram0
    att,      \* level of the attenuator
    dac,      \* the two values shared with the temperature control
    running,  \* command a client thread is in the middle of, or <<>>
    step,     \* its next access to the file
    buf,      \* its kc, ti, td
    asked,    \* for each setting, the value of the last command that ended
    held      \* DAC values set since the last command for the mode

commandVars == <<file, att, dac, running, step, buf, asked, held>>

Idle(c) == running[c] = << >>

TypeOK ==
    /\ file \in [Fields -> Int] /\ asked \in [Fields \cup DOMAIN DacChannel -> Int]
    /\ held \subseteq DOMAIN DacChannel
    /\ att \in Int /\ dac \in [Channels -> Int]
    /\ \A c \in Clients :
         /\ running[c] = << >> \/ running[c] \in Allowed[c]
         /\ step[c] \in 1..6 /\ (step[c] > 1 => ~Idle(c)) /\ buf[c] \in [1..3 -> Int]

\* The settings are those of a migrated file; rffe_main has set the attenuator.
Init ==
    /\ file = [f \in Fields |-> IF f = "temp_ctrl_mode" THEN 1 ELSE 0]
    /\ asked = [f \in Fields \cup DOMAIN DacChannel |-> IF f = "temp_ctrl_mode" THEN 1 ELSE 0]
    /\ held = {}
    /\ att = file["attenuation"] /\ dac = [ch \in Channels |-> 0]
    /\ running = [c \in Clients |-> << >>]
    /\ step = [c \in Clients |-> 1] /\ buf = [c \in Clients |-> [i \in 1..3 |-> 0]]

\* Mutant: the commands of both channels use those of channel A/C.
GroupOfAC(f) == PidGroup["ac"]

Group(f) == LET ch == CHOOSE ch \in Channels : f \in Range(PidGroup[ch]) IN PidGroup[ch]
Write(f, v) == file' = [file EXCEPT ![f] = v]
Ended(f, v) == asked' = [asked EXCEPT ![f] = v]

\* One write: set points, control mode, network settings.
SetPlain(c, f, v) ==
    /\ Idle(c) /\ <<f, v>> \in Allowed[c] /\ f \in PlainFields
    /\ Write(f, v) /\ Ended(f, v)
    /\ held' = IF f = "temp_ctrl_mode" THEN {} ELSE held
    /\ UNCHANGED <<att, dac, running, step, buf>>

\* SET:ATTEnuation: first the attenuator, then the file.
Attenuate(c, v) ==
    /\ Idle(c) /\ <<"attenuation", v>> \in Allowed[c]
    /\ att' = v
    /\ running' = [running EXCEPT ![c] = <<"attenuation", v>>]
    /\ UNCHANGED <<file, dac, step, buf, asked, held>>

StoreAttenuation(c) ==
    /\ ~Idle(c) /\ running[c][1] = "attenuation"
    /\ Write("attenuation", running[c][2]) /\ Ended("attenuation", running[c][2])
    /\ running' = [running EXCEPT ![c] = << >>]
    /\ UNCHANGED <<att, dac, step, buf, held>>

\* SET:PID: the three parameters of the channel are read, one is replaced, and
\* the three are written.
PidBegin(c, f, v) ==
    /\ Idle(c) /\ <<f, v>> \in Allowed[c] /\ f \in PidFields
    /\ running' = [running EXCEPT ![c] = <<f, v>>]
    /\ UNCHANGED <<file, att, dac, step, buf, asked, held>>

PidRead(c) ==
    /\ ~Idle(c) /\ running[c][1] \in PidFields /\ step[c] <= 3
    /\ LET f == Group(running[c][1])[step[c]]
       IN  buf' = [buf EXCEPT ![c][step[c]] = IF f = running[c][1] THEN running[c][2] ELSE file[f]]
    /\ step' = [step EXCEPT ![c] = @ + 1]
    /\ UNCHANGED <<file, att, dac, running, asked, held>>

PidWrite(c) ==
    /\ ~Idle(c) /\ running[c][1] \in PidFields /\ step[c] > 3
    /\ Write(Group(running[c][1])[step[c] - 3], buf[c][step[c] - 3])
    /\ IF step[c] < 6
       THEN step' = [step EXCEPT ![c] = @ + 1] /\ UNCHANGED <<running, asked>>
       ELSE /\ step' = [step EXCEPT ![c] = 1]
            /\ running' = [running EXCEPT ![c] = << >>]
            /\ Ended(running[c][1], running[c][2])
    /\ UNCHANGED <<att, dac, buf, held>>

\* SET:DAC:OUTput
SetDac(c, f, v) ==
    /\ Idle(c) /\ <<f, v>> \in Allowed[c] /\ f \in DOMAIN DacChannel
    /\ DacFound /\ v <= DacMax
    /\ dac' = [dac EXCEPT ![DacChannel[f]] = v] /\ Ended(f, v) /\ held' = held \cup {f}
    /\ UNCHANGED <<file, att, running, step, buf>>

\* A restart ends every client thread.  A command that it cut short may have
\* stored its value or not.
ThreadsGone ==
    /\ running' = [c \in Clients |-> << >>]
    /\ step' = [c \in Clients |-> 1] /\ buf' = [c \in Clients |-> [i \in 1..3 |-> 0]]
    /\ held' = {}
    /\ asked' = [f \in DOMAIN asked |->
                    IF \E c \in Clients : ~Idle(c) /\ running[c][1] = f THEN file[f] ELSE asked[f]]

\* SYSTem:RESet or a power cut, in the middle of any command; the start-up sets
\* the attenuator to what the file says.
Restart ==
    /\ att' = file["attenuation"] /\ dac' = [ch \in Channels |-> 0]
    /\ ThreadsGone
    /\ UNCHANGED file

Command(c) ==
    \/ \E p \in Allowed[c] :
         \/ SetPlain(c, p[1], p[2]) \/ PidBegin(c, p[1], p[2]) \/ SetDac(c, p[1], p[2])
         \/ p[1] = "attenuation" /\ Attenuate(c, p[2])
    \/ StoreAttenuation(c) \/ PidRead(c) \/ PidWrite(c)

Next == Restart \/ \E c \in Clients : Command(c)

Spec == Init /\ [][Next]_commandVars

-----------------------------------------------------------------------------
(* Properties. *)

\* What the get commands answer.
Answer(f) == IF f \in DOMAIN DacChannel THEN dac[DacChannel[f]] ELSE file[f]

Busy(fields) == \E c \in Clients : ~Idle(c) /\ running[c][1] \in fields

\* A setting keeps the value of the last command for it, whatever is set next
\* to it, by whom, and wherever a restart cuts a command short
\* (scpi_rffe_cmd.c:189-307).
SettingsHold ==
    \A f \in Fields :
        ~Busy(IF f \in PidFields THEN Range(Group(f)) ELSE {f}) => file[f] = asked[f]

\* "This method returns the current attenuation value"
\* (rffe_nuttx_lib.py:114): what SET:ATTEnuation leaves in the attenuator is
\* what GET:ATTEnuation? answers.
AttenuationIsReported == ~Busy({"attenuation"}) => Answer("attenuation") = att
=============================================================================
