---------------------------- MODULE TempControl -----------------------------
(***************************************************************************)
(* The temperature control thread of temp_control.c next to the clients'   *)
(* commands.  Ten times a second it reads the control mode; in automatic   *)
(* mode also the parameters, one by one, and the sensors, from which it    *)
(* computes both DAC values; in either mode it writes the DAC.  Voltages,  *)
(* temperatures and gains are the floats of Pid.                           *)
(***************************************************************************)
EXTENDS ScpiCommands, Pid

CONSTANTS
    Temps,        \* temperatures the sensors measure
    SensorsFound, \* whether both sensors can be opened
    Codes         \* full scale of the DAC, 4095

\* A client may set an infinite value: 1e39 is one as a float.
ASSUME TempAssumption ==
    /\ Temps \subseteq Finite /\ SensorsFound \in BOOLEAN /\ Codes \in Nat
    /\ DacMax <= FloatMax
    /\ \A c \in Clients : \A p \in Allowed[c] : p[2] \in NegInf..Inf

VARIABLES
    pc,      \* where the thread is
    reads,   \* parameters read in this round
    ctl,     \* pid_ac and pid_bd
    result,  \* out_ac and out_bd
    out      \* what the DAC puts out, as codes

threadVars == <<pc, reads, ctl, result, out>>
vars == <<commandVars, threadVars>>

\* Mutant: the set points are exchanged.
ReadListCrossed ==
    << <<"bd", "kp", "pid_bd_kc">>, <<"bd", "ki", "pid_bd_ti">>, <<"bd", "kd", "pid_bd_td">>,
       <<"ac", "kp", "pid_ac_kc">>, <<"ac", "ki", "pid_ac_ti">>, <<"ac", "kd", "pid_ac_td">>,
       <<"ac", "setpoint", "pid_bd_set_point">>, <<"bd", "setpoint", "pid_ac_set_point">> >>

\* The order of the reads: a member of one of the controllers from a setting.
ReadList ==
    << <<"bd", "kp", "pid_bd_kc">>, <<"bd", "ki", "pid_bd_ti">>, <<"bd", "kd", "pid_bd_td">>,
       <<"ac", "kp", "pid_ac_kc">>, <<"ac", "ki", "pid_ac_ti">>, <<"ac", "kd", "pid_ac_td">>,
       <<"ac", "setpoint", "pid_ac_set_point">>, <<"bd", "setpoint", "pid_bd_set_point">> >>

Members == {"kp", "ki", "kd", "setpoint", "inte_acc", "last_in"}
NewController == [m \in Members |-> 0]

\* write_dac_voltage.  The conversion of what is no code to uint16_t is
\* undefined.  A negative number saturates or wraps around; the floating point
\* library of the Cortex-M3, which has no unit for it, makes 0 of NaN.
CodesOf(v) ==
    IF v \in {NaN, NegInf} THEN {0}
    ELSE IF v >= 0 THEN {(v * Codes) \div DacMax}
    ELSE {0, (-((-v * Codes) \div DacMax)) % 65536}

TempTypeOK ==
    /\ TypeOK
    /\ pc \in {"gone", "mode", "read", "compute", "store_ac", "store_bd", "write_ac", "write_bd"}
    /\ reads \in 0..Len(ReadList) /\ (pc = "compute" => reads = Len(ReadList))
    /\ ctl \in [Channels -> [Members -> Int]]
    /\ result \in [Channels -> Int] /\ out \in [Channels -> 0..65535]

ThreadInit ==
    /\ pc = IF SensorsFound /\ DacFound THEN "mode" ELSE "gone"
    /\ reads = 0
    /\ ctl = [ch \in Channels |-> NewController]
    /\ result = [ch \in Channels |-> 0]
    /\ out = [ch \in Channels |-> 0]

ReadMode ==
    /\ pc = "mode"
    /\ pc' = IF file["temp_ctrl_mode"] = 0 THEN "read" ELSE "write_ac"
    /\ reads' = 0
    /\ UNCHANGED <<ctl, result, out, commandVars>>

ReadParameter ==
    /\ pc = "read"
    /\ reads' = reads + 1
    /\ LET r == ReadList[reads'] IN ctl' = [ctl EXCEPT ![r[1]][r[2]] = file[r[3]]]
    /\ pc' = IF reads' = Len(ReadList) THEN "compute" ELSE "read"
    /\ UNCHANGED <<result, out, commandVars>>

ComputeBoth ==
    /\ pc = "compute"
    /\ \E t \in [Channels -> Temps] :
         LET new == [ch \in Channels |-> Compute(ctl[ch], 0, DacMax, t[ch])]
         IN  /\ ctl' = [ch \in Channels |->
                          [ctl[ch] EXCEPT !.inte_acc = new[ch].inte_acc, !.last_in = new[ch].last_in]]
             /\ result' = [ch \in Channels |-> new[ch].output]
    /\ pc' = "store_ac"
    /\ UNCHANGED <<reads, out, commandVars>>

Store(ch, here, next) ==
    /\ pc = here /\ pc' = next
    /\ dac' = [dac EXCEPT ![ch] = result[ch]]
    /\ UNCHANGED <<reads, ctl, result, out, file, att, running, step, buf, asked, held>>

\* Mutant: the DAC gets what the controller computed, in either mode.
WriteDacResult(ch, here, next) ==
    /\ pc = here /\ pc' = next
    /\ \E code \in CodesOf(result[ch]) : out' = [out EXCEPT ![ch] = code]
    /\ UNCHANGED <<reads, ctl, result, commandVars>>

WriteDac(ch, here, next) ==
    /\ pc = here /\ pc' = next
    /\ \E code \in CodesOf(dac[ch]) : out' = [out EXCEPT ![ch] = code]
    /\ UNCHANGED <<reads, ctl, result, commandVars>>

Thread ==
    \/ ReadMode \/ ReadParameter \/ ComputeBoth
    \/ Store("ac", "store_ac", "store_bd") \/ Store("bd", "store_bd", "write_ac")
    \/ WriteDac("ac", "write_ac", "write_bd") \/ WriteDac("bd", "write_bd", "mode")

\* The DAC keeps its output through a restart.
ThreadRestart ==
    /\ pc' = IF SensorsFound /\ DacFound THEN "mode" ELSE "gone"
    /\ reads' = 0
    /\ ctl' = [ch \in Channels |-> NewController]
    /\ result' = [ch \in Channels |-> 0]
    /\ UNCHANGED out

ClientStep(c) == Command(c) /\ UNCHANGED threadVars
RestartAll    == Restart /\ ThreadRestart

TempInit == Init /\ ThreadInit
TempNext == Thread \/ RestartAll \/ \E c \in Clients : ClientStep(c)
TempSpec == TempInit /\ [][TempNext]_vars

\* The scheduler runs the thread when its sleep of 0.1 s is over.
FairTempSpec == TempSpec /\ WF_vars(Thread)

\* What must happen in the end happens in the run after the last restart.
RestartsEnd == <>[][~RestartAll]_vars

-----------------------------------------------------------------------------
(* Properties. *)

Manual    == file["temp_ctrl_mode"] # 0
Automatic == ~Manual

\* Whatever the sensors measure and the moment a parameter changes, no heater
\* gets more than 3.3 V or less than 0 V, no code exceeds the DAC's range, and no
\* integrator winds up beyond them (pid.c:41-72).  This is so for parameters with
\* which the controller cannot overflow; the code refuses no others, and an
\* infinite one leaves NaN in the integrator (README.md, section 5).
OutputsInRange ==
    \A ch \in Channels :
        /\ dac[ch] \in 0..DacMax /\ out[ch] \in 0..Codes
        /\ ctl[ch].inte_acc \in 0..DacMax

\* In manual mode the heater gets the value that SET:DAC:OUTput has stored, and
\* that GET:DAC:OUTput? answers: "the voltage signal to the heater"
\* (rffe_nuttx_lib.py:167).
ManualValueArrives ==
    \A ch \in Channels : \A v \in 0..DacMax :
        RestartsEnd /\ <>[](Manual /\ dac[ch] = v) => <>[](out[ch] \in CodesOf(v))

\* In automatic mode the controller keeps running, and soon with the set point
\* of its own channel.
SetpointTakesEffect ==
    \A ch \in Channels : \A s \in {p[2] : p \in UNION Range(Allowed)} :
        RestartsEnd /\ <>[](Automatic /\ file[Setpoint[ch]] = s) =>
            []<>(pc = "compute") /\ <>[](pc = "compute" => ctl[ch].setpoint = s)

\* A front end that stays warmer than its set point is in the end not heated,
\* as long as no client sets its DAC value: that is accepted in either mode.
HotMeansOff ==
    \A ch \in Channels :
        RestartsEnd /\
        <>[](/\ Automatic /\ \A f \in held : DacChannel[f] # ch
             /\ \A t \in Temps : file[Setpoint[ch]] < t
             /\ file[PidGroup[ch][1]] >= 0 /\ file[PidGroup[ch][2]] > 0 /\ file[PidGroup[ch][3]] = 0)
          => <>[](out[ch] = 0)

\* "is the intended voltage for the heater" (rffe_nuttx_lib.py:173): a value
\* set after the control was turned off stays.
\* The code does not keep this (README.md, section 5).
HeaterIsSet == Manual => \A f \in held : dac[DacChannel[f]] = asked[f]
=============================================================================
