---------------------------- MODULE StartupProofs ----------------------------
(***************************************************************************)
(* The start-up is, for the clients, the restart in one step of            *)
(* ScpiCommands; what rffe_main shares outlives the servers; the network   *)
(* is the stored one.  All for every set of clients, commands and leases.  *)
(***************************************************************************)
EXTENDS Startup, TLAPS

\* The console sets no attenuation; no read of the FeRAM fails.
ConsolesQuiet == \A c \in Consoles : \A p \in Allowed[c] : p[1] # "attenuation"
ReadsSucceed  == "read" \notin Failing

\* The attenuator as the clients know it.
Seen == IF at \in Attenuated THEN att ELSE file["attenuation"]

Shapes ==
    /\ DOMAIN file = Fields /\ DOMAIN running = Clients /\ DOMAIN conf = ReadFirst
    /\ step \in [Clients -> 1..6]
    /\ at \in Stages /\ failed \subseteq Failing

\* Before the attenuator is set nobody sets it.
Calm ==
    /\ "scpi" \in threads => at = "serving"
    /\ \A c \in Clients : c \notin Consoles /\ "scpi" \notin threads => Idle(c)
    /\ \A c \in Consoles : ~Idle(c) => running[c][1] # "attenuation"

\* What was read is still stored when it is used.
ReadIsStored == at = "set" => conf["attenuation"] = file["attenuation"]

Inv == Shapes /\ Calm /\ ReadIsStored

-----------------------------------------------------------------------------
(* The commands. *)

\* The settings written for a PID command do not include the attenuation.
LEMMA GroupHasNoAttenuation ==
    ASSUME NEW f \in PidFields, NEW i \in 1..3
    PROVE  Group(f)[i] \in Fields /\ Group(f)[i] # "attenuation"
<1>1. PidGroup["ac"][i] \in PidFields /\ PidGroup["bd"][i] \in PidFields
  <2>1. i = 1 \/ i = 2 \/ i = 3
    OBVIOUS
  <2>2. DOMAIN PidGroup["ac"] = 1..3 /\ DOMAIN PidGroup["bd"] = 1..3
    BY DEF PidGroup
  <2> QED BY <2>2 DEF PidFields, Range
<1>2. \E ch \in Channels : f \in Range(PidGroup[ch])
  BY DEF Channels, PidFields
<1>3. Group(f) = PidGroup["ac"] \/ Group(f) = PidGroup["bd"]
  BY <1>2 DEF Group, Channels
<1>4. "attenuation" \notin PidFields
  <2>1. DOMAIN PidGroup["ac"] = 1..3 /\ DOMAIN PidGroup["bd"] = 1..3
    BY DEF PidGroup
  <2>2. \A j \in 1..3 : j = 1 \/ j = 2 \/ j = 3
    OBVIOUS
  <2> QED BY <2>1, <2>2 DEF PidFields, Range, PidGroup
<1> QED BY <1>1, <1>3, <1>4 DEF Fields

\* A command that does not set the attenuation leaves it alone, in the file too.
LEMMA OtherCommands ==
    ASSUME Shapes, NEW c \in Clients, Command(c),
           ~Idle(c) => running[c][1] # "attenuation",
           \A p \in Allowed[c] : p[1] # "attenuation"
    PROVE  /\ att' = att /\ file'["attenuation"] = file["attenuation"]
           /\ ~Idle(c)' => running'[c][1] # "attenuation"
<1>1. CASE \E p \in Allowed[c] : SetPlain(c, p[1], p[2])
  BY <1>1 DEF SetPlain, Write, Shapes, Idle
<1>2. CASE \E p \in Allowed[c] : PidBegin(c, p[1], p[2])
  BY <1>2 DEF PidBegin, Shapes, Idle
<1>3. CASE \E p \in Allowed[c] : SetDac(c, p[1], p[2])
  BY <1>3 DEF SetDac, Idle
<1>4. CASE PidRead(c)
  BY <1>4 DEF PidRead, Idle
<1>5. CASE PidWrite(c)
  <2>1. step[c] - 3 \in 1..3 /\ running[c][1] \in PidFields
    BY <1>5 DEF PidWrite, Shapes
  <2>2. Group(running[c][1])[step[c] - 3] # "attenuation"
    BY <2>1, GroupHasNoAttenuation
  <2>3. file'["attenuation"] = file["attenuation"]
    BY <1>5, <2>2 DEF PidWrite, Write, Shapes, Fields
  <2>4. running' = running \/ running' = [running EXCEPT ![c] = << >>]
    BY <1>5 DEF PidWrite
  <2> QED BY <1>5, <2>3, <2>4 DEF PidWrite, Idle, Shapes
<1> QED BY <1>1, <1>2, <1>3, <1>4, <1>5 DEF Command, StoreAttenuation, Idle

\* Commands keep what the maps are functions of, and other clients' commands.
LEMMA CommandShapes ==
    ASSUME Shapes, NEW c \in Clients, ClientCommand(c)
    PROVE  Shapes' /\ \A d \in Clients \ {c} : running'[d] = running[d]
<1>1. CASE \E p \in Allowed[c] : SetPlain(c, p[1], p[2])
  BY <1>1 DEF ClientCommand, SetPlain, Write, Shapes
<1>2. CASE \E p \in Allowed[c] : PidBegin(c, p[1], p[2])
  BY <1>2 DEF ClientCommand, PidBegin, Shapes
<1>3. CASE \E p \in Allowed[c] : SetDac(c, p[1], p[2])
  BY <1>3 DEF ClientCommand, SetDac, Shapes
<1>4. CASE \E p \in Allowed[c] : p[1] = "attenuation" /\ Attenuate(c, p[2])
  BY <1>4 DEF ClientCommand, Attenuate, Shapes
<1>5. CASE StoreAttenuation(c)
  BY <1>5 DEF ClientCommand, StoreAttenuation, Write, Shapes
<1>6. CASE PidRead(c)
  BY <1>6 DEF ClientCommand, PidRead, Shapes
<1>7. CASE PidWrite(c)
  <2>1. step' \in [Clients -> 1..6]
    BY <1>7 DEF PidWrite, Shapes
  <2>2. running' = running \/ running' = [running EXCEPT ![c] = << >>]
    BY <1>7 DEF PidWrite
  <2>3. DOMAIN file' = DOMAIN file
    BY <1>7 DEF PidWrite, Write
  <2> QED BY <1>7, <2>1, <2>2, <2>3 DEF ClientCommand, PidWrite, Shapes
<1> QED BY <1>1, <1>2, <1>3, <1>4, <1>5, <1>6, <1>7 DEF ClientCommand, Command

-----------------------------------------------------------------------------
(* The invariant. *)

LEMMA Stays ==
    ASSUME NEW s \in {"mac", "ip", "mask", "gateway", "eth_addr_mode", "clock", "set"}
    PROVE  After[s] \in Stages /\ (s # "set" => After[s] \in Attenuated)
           /\ After["set"] = "clock" /\ After["attenuation"] = "set" /\ After[s] # "set"
BY DEF After, Stages, Attenuated

LEMMA ProceedKeepsInv ==
    ASSUME ReadsSucceed, Inv, Proceed
    PROVE  Inv'
<1>1. running' = running /\ file' = file /\ step' = step /\ failed' = failed
  BY DEF Proceed, ReadSetting, SetAttenuation, InitClock, ConfigureStored, StartServer, Serve, commandVars
<1>2. Consoles \subseteq Clients /\ \A c \in Clients : Idle(c)' <=> Idle(c)
  BY <1>1, StartupAssumption DEF Idle
<1>3. CASE ReadSetting
  <2>1. PICK v \in {file[at]} \cup IF "read" \in failed THEN Garbage ELSE {} :
          conf' = [conf EXCEPT ![at] = v]
    BY <1>3 DEF ReadSetting
  <2>2. v = file[at]
    BY <2>1 DEF ReadsSucceed, Inv, Shapes
  <2>3. at \in ReadFirst /\ at' = After[at] /\ threads' = threads
    BY <1>3 DEF ReadSetting
  <2>4. DOMAIN conf' = ReadFirst /\ conf'[at] = file[at]
    BY <2>1, <2>2, <2>3 DEF Inv, Shapes
  <2>5. at' \in Stages /\ (at' = "set" => at = "attenuation")
        /\ (at # "attenuation" => at' \in Attenuated)
    BY <2>3, Stays DEF ReadFirst, NetworkSettings, Addresses, Leased, After, Stages
  <2>6. "scpi" \notin threads
    BY <2>3 DEF Inv, Calm, ReadFirst, NetworkSettings, Addresses, Leased
  <2> QED BY <1>1, <1>2, <2>3, <2>4, <2>5, <2>6 DEF Inv, Shapes, Calm, ReadIsStored
<1>4. CASE SetAttenuation \/ InitClock \/ ConfigureStored
  <2>1. at' \in Stages /\ threads' = threads /\ conf' = conf /\ at' # "set"
    BY <1>4 DEF SetAttenuation, InitClock, ConfigureStored, After, Stages
  <2>2. "scpi" \notin threads
    BY <1>4 DEF Inv, Calm, SetAttenuation, InitClock, ConfigureStored
  <2> QED BY <1>1, <1>2, <2>1, <2>2 DEF Inv, Shapes, Calm, ReadIsStored
<1>5. CASE StartServer \/ Serve
  <2>1. at' \in Stages /\ conf' = conf /\ at' # "set"
    BY <1>5 DEF StartServer, Serve, After, Stages
  <2>2. "scpi" \notin threads
    BY <1>5 DEF Inv, Calm, StartServer, Serve
  <2>3. "scpi" \in threads' => at' = "serving"
    BY <1>5, <2>2 DEF StartServer, Serve
  <2> QED BY <1>1, <1>2, <2>1, <2>2, <2>3 DEF Inv, Shapes, Calm, ReadIsStored
<1> QED BY <1>3, <1>4, <1>5 DEF Proceed

LEMMA CommandKeepsInv ==
    ASSUME ConsolesQuiet, Inv, NEW c \in Clients, ClientCommand(c)
    PROVE  Inv'
<1>1. Shapes' /\ \A d \in Clients \ {c} : running'[d] = running[d]
  BY CommandShapes DEF Inv
<1>2. at' = at /\ conf' = conf /\ threads' = threads /\ (c \in Consoles \/ "scpi" \in threads) /\ Command(c)
  BY DEF ClientCommand
<1>3. \A d \in Clients \ {c} : Idle(d)' <=> Idle(d)
  BY <1>1 DEF Idle
<1>4. CASE c \in Consoles
  <2>1. /\ file'["attenuation"] = file["attenuation"]
        /\ ~Idle(c)' => running'[c][1] # "attenuation"
    BY <1>2, <1>4, OtherCommands DEF Inv, Calm, ConsolesQuiet
  <2>2. Consoles \subseteq Clients
    BY StartupAssumption
  <2> QED BY <1>1, <1>2, <1>3, <1>4, <2>1, <2>2 DEF Inv, Calm, ReadIsStored
<1>5. CASE c \notin Consoles
  <2>1. "scpi" \in threads /\ at \in Attenuated /\ at # "set"
    BY <1>2, <1>5 DEF Inv, Calm, Attenuated, Stages
  <2>2. Consoles \subseteq Clients
    BY StartupAssumption
  <2> QED BY <1>1, <1>2, <1>3, <1>5, <2>1, <2>2 DEF Inv, Calm, ReadIsStored
<1> QED BY <1>4, <1>5

LEMMA LeaseKeepsInv ==
    ASSUME Inv, RequestLease
    PROVE  Inv'
<1>1. /\ at = "lease" /\ at' = "temp" /\ conf' = conf /\ threads' = threads
      /\ running' = running /\ file' = file /\ step' = step /\ failed' = failed
  BY DEF RequestLease, commandVars
<1>2. at' \in Stages
  BY <1>1 DEF Stages, After
<1> QED BY <1>1, <1>2 DEF Inv, Shapes, Calm, ReadIsStored, Idle

LEMMA RestartKeepsInv ==
    ASSUME Inv, RestartAll
    PROVE  Inv'
<1>1. /\ at' = "attenuation" /\ conf' = Unset(ReadFirst) /\ threads' = {} /\ failed' \in SUBSET Failing
      /\ file' = file /\ running' = [c \in Clients |-> << >>] /\ step' = [c \in Clients |-> 1]
  BY DEF RestartAll, ThreadsGone
<1>2. at' \in Stages
  BY <1>1 DEF Stages, After
<1>3. Consoles \subseteq Clients
  BY StartupAssumption
<1> QED BY <1>1, <1>2, <1>3 DEF Inv, Shapes, Calm, ReadIsStored, Unset, Idle

LEMMA StutterKeepsInv ==
    ASSUME Inv, UNCHANGED vars
    PROVE  Inv'
BY DEF Inv, Shapes, Calm, ReadIsStored, Idle, vars, commandVars, startVars

LEMMA SameFields == C!Fields = Fields
BY DEF C!Fields, C!PidFields, C!PlainFields, C!PidGroup, C!Setpoint, C!Range,
       Fields, PidFields, PlainFields, PidGroup, Setpoint, Range

LEMMA InitHasInv ==
    ASSUME StartInit
    PROVE  Inv
<1>1. /\ file = [f \in Fields |-> IF f = "temp_ctrl_mode" THEN 1 ELSE 0]
      /\ running = [c \in Clients |-> << >>] /\ step = [c \in Clients |-> 1]
  BY SameFields DEF StartInit, C!Init
<1>2. Consoles \subseteq Clients
  BY StartupAssumption
<1>3. at \in Stages
  BY DEF StartInit, Stages, After
<1> QED BY <1>1, <1>2, <1>3 DEF StartInit, Inv, Shapes, Calm, ReadIsStored, Unset, Idle

LEMMA NextKeepsInv ==
    ASSUME ConsolesQuiet, ReadsSucceed, Inv, [StartNext]_vars
    PROVE  Inv'
BY ProceedKeepsInv, CommandKeepsInv, LeaseKeepsInv, RestartKeepsInv, StutterKeepsInv DEF StartNext

-----------------------------------------------------------------------------
(* The refinement. *)

LEMMA SameNames ==
    /\ C!PidFields = PidFields /\ C!PlainFields = PlainFields
    /\ DOMAIN C!DacChannel = DOMAIN DacChannel
BY DEF C!PidFields, C!PlainFields, C!PidGroup, C!Setpoint, C!Range, C!DacChannel,
       PidFields, PlainFields, PidGroup, Setpoint, Range, DacChannel

\* A command is a command of the abstract device when it changes the attenuator
\* the clients know as it changes the real one.
LEMMA CommandMatches ==
    ASSUME NEW c \in Clients, Command(c),
           \/ Seen = att /\ Seen' = att'
           \/ /\ att' = att /\ Seen' = Seen
              /\ ~Idle(c) => running[c][1] # "attenuation"
              /\ \A p \in Allowed[c] : p[1] # "attenuation"
    PROVE  C!Command(c)
<1>1. att' = att => Seen' = Seen
  OBVIOUS
<1>2. CASE \E p \in Allowed[c] : SetPlain(c, p[1], p[2])
  <2>1. PICK p \in Allowed[c] : SetPlain(c, p[1], p[2])
    BY <1>2
  <2>2. C!SetPlain(c, p[1], p[2])
    BY <1>1, <2>1, SameNames DEF SetPlain, Write, Ended, Idle, C!SetPlain, C!Write, C!Ended, C!Idle, Seen
  <2> QED BY <2>2 DEF C!Command
<1>3. CASE \E p \in Allowed[c] : PidBegin(c, p[1], p[2])
  <2>1. PICK p \in Allowed[c] : PidBegin(c, p[1], p[2])
    BY <1>3
  <2>2. C!PidBegin(c, p[1], p[2])
    BY <1>1, <2>1, SameNames DEF PidBegin, Idle, C!PidBegin, C!Idle, Seen
  <2> QED BY <2>2 DEF C!Command
<1>4. CASE \E p \in Allowed[c] : SetDac(c, p[1], p[2])
  <2>1. PICK p \in Allowed[c] : SetDac(c, p[1], p[2])
    BY <1>4
  <2>2. C!SetDac(c, p[1], p[2])
    BY <1>1, <2>1 DEF SetDac, Ended, Idle, DacChannel, C!SetDac, C!Ended, C!Idle, C!DacChannel, Seen
  <2> QED BY <2>2 DEF C!Command
<1>5. CASE \E p \in Allowed[c] : p[1] = "attenuation" /\ Attenuate(c, p[2])
  <2>1. PICK p \in Allowed[c] : p[1] = "attenuation" /\ Attenuate(c, p[2])
    BY <1>5
  <2>2. C!Attenuate(c, p[2])
    BY <2>1 DEF Attenuate, Idle, C!Attenuate, C!Idle, Seen
  <2> QED BY <2>1, <2>2 DEF C!Command
<1>6. CASE StoreAttenuation(c)
  <2>1. C!StoreAttenuation(c)
    BY <1>1, <1>6 DEF StoreAttenuation, Write, Ended, Idle, C!StoreAttenuation, C!Write, C!Ended, C!Idle, Seen
  <2> QED BY <2>1 DEF C!Command
<1>7. CASE PidRead(c)
  <2>1. C!PidRead(c)
    BY <1>1, <1>7, SameNames DEF PidRead, Group, PidGroup, Channels, Range, Idle,
       C!PidRead, C!Group, C!PidGroup, C!Channels, C!Range, C!Idle, Seen
  <2> QED BY <2>1 DEF C!Command
<1>8. CASE PidWrite(c)
  <2>1. C!PidWrite(c)
    BY <1>1, <1>8, SameNames DEF PidWrite, Group, PidGroup, Channels, Range, Write, Ended, Idle,
       C!PidWrite, C!Group, C!PidGroup, C!Channels, C!Range, C!Write, C!Ended, C!Idle, Seen
  <2> QED BY <2>1 DEF C!Command
<1> QED BY <1>2, <1>3, <1>4, <1>5, <1>6, <1>7, <1>8 DEF Command

LEMMA ClientStepMatches ==
    ASSUME ConsolesQuiet, Inv, NEW c \in Clients, ClientCommand(c)
    PROVE  C!Next
<1>1. at' = at /\ Command(c) /\ (c \in Consoles \/ "scpi" \in threads)
  BY DEF ClientCommand
<1>2. CASE at \in Attenuated
  <2>1. Seen = att /\ Seen' = att'
    BY <1>1, <1>2 DEF Seen
  <2> QED BY <1>1, <2>1, CommandMatches DEF C!Next
<1>3. CASE at \notin Attenuated
  <2>1. c \in Consoles
    BY <1>1, <1>3 DEF Inv, Calm, Attenuated, Stages
  <2>2. ~Idle(c) => running[c][1] # "attenuation"
    BY <2>1 DEF Inv, Calm
  <2>3. \A p \in Allowed[c] : p[1] # "attenuation"
    BY <2>1 DEF ConsolesQuiet
  <2>4. att' = att /\ file'["attenuation"] = file["attenuation"]
    BY <1>1, <2>2, <2>3, OtherCommands DEF Inv
  <2>5. Seen' = Seen
    BY <1>1, <1>3, <2>4 DEF Seen
  <2> QED BY <1>1, <2>2, <2>3, <2>4, <2>5, CommandMatches DEF C!Next
<1> QED BY <1>2, <1>3

\* The steps of rffe_main are hidden; that which sets the attenuator is so
\* because what it sets is what is stored.
LEMMA MainStepHidden ==
    ASSUME Inv, Proceed \/ RequestLease
    PROVE  UNCHANGED C!commandVars
<1>1. UNCHANGED <<file, dac, running, step, buf, asked, held>>
  BY DEF Proceed, RequestLease, ReadSetting, SetAttenuation, InitClock, ConfigureStored,
         StartServer, Serve, commandVars
<1>2. Seen' = Seen
  <2>1. CASE ReadSetting
    <3>1. at \in ReadFirst /\ at' = After[at] /\ att' = att
      BY <2>1 DEF ReadSetting, commandVars
    <3>2. CASE at = "attenuation"
      <4>1. at' \notin Attenuated /\ at \notin Attenuated
        BY <3>1, <3>2 DEF After, Attenuated
      <4> QED BY <1>1, <4>1 DEF Seen
    <3>3. CASE at # "attenuation"
      <4>1. at' \in Attenuated /\ at \in Attenuated
        BY <3>1, <3>3 DEF ReadFirst, NetworkSettings, Addresses, Leased, After, Stages, Attenuated
      <4> QED BY <3>1, <4>1 DEF Seen
    <3> QED BY <3>2, <3>3
  <2>2. CASE SetAttenuation
    <3>1. at = "set" /\ at' = "clock" /\ att' = file["attenuation"]
      BY <2>2 DEF SetAttenuation, After, Inv, ReadIsStored
    <3>2. at' \in Attenuated /\ at \notin Attenuated
      BY <3>1 DEF Attenuated, Stages, After
    <3> QED BY <3>1, <3>2 DEF Seen
  <2>3. CASE InitClock \/ ConfigureStored \/ StartServer \/ Serve \/ RequestLease
    <3>1. att' = att /\ at \in Attenuated /\ at' \in Attenuated
      BY <2>3 DEF InitClock, ConfigureStored, StartServer, Serve, RequestLease, commandVars,
                  After, Stages, Attenuated
    <3> QED BY <3>1 DEF Seen
  <2> QED BY <2>1, <2>2, <2>3 DEF Proceed
<1> QED BY <1>1, <1>2 DEF C!commandVars, Seen

LEMMA RestartMatches ==
    ASSUME RestartAll
    PROVE  C!Next
<1>1. at' \notin Attenuated /\ file' = file
  BY DEF RestartAll, Attenuated
<1>2. Seen' = file["attenuation"]
  BY <1>1 DEF Seen
<1>3. C!Restart
  BY <1>2 DEF Seen, RestartAll, ThreadsGone, Idle, Channels, C!Restart, C!ThreadsGone, C!Idle, C!Channels
<1> QED BY <1>3 DEF C!Next

LEMMA StutterHidden ==
    ASSUME UNCHANGED vars
    PROVE  UNCHANGED C!commandVars
BY DEF vars, commandVars, startVars, C!commandVars

LEMMA StepMatches ==
    ASSUME ConsolesQuiet, Inv, [StartNext]_vars
    PROVE  [C!Next]_(C!commandVars)
BY ClientStepMatches, MainStepHidden, RestartMatches, StutterHidden DEF StartNext

\* A device whose console sets no attenuation and whose FeRAM can be read
\* restarts, as far as its clients can tell, in the one step of ScpiCommands.
THEOREM StartupRefinement ==
    ASSUME ConsolesQuiet, ReadsSucceed
    PROVE  StartSpec => ImplementsCommands
<1>1. StartInit => Inv /\ C!Init
  BY InitHasInv DEF StartInit
<1>2. Inv /\ [StartNext]_vars => Inv'
  BY NextKeepsInv
<1>3. Inv /\ [StartNext]_vars => [C!Next]_(C!commandVars)
  BY StepMatches
<1> QED BY <1>1, <1>2, <1>3, PTL DEF StartSpec, ImplementsCommands, C!Spec

-----------------------------------------------------------------------------
(* What the servers share. *)

NoServerEarly ==
    /\ at \notin Networked => threads = {}
    /\ threads # {} => at # "returned"

\* The locals of rffe_main outlive the servers that use them, unless the SCPI
\* server cannot have its socket.
THEOREM SharedValuesOutliveServers ==
    ASSUME "socket" \notin Failing
    PROVE  StartSpec => []SharedValuesLive
<1> DEFINE SharedInv == NoServerEarly /\ failed \subseteq Failing
<1>1. StartInit => SharedInv
  BY DEF StartInit, NoServerEarly
<1>2. ASSUME SharedInv, [StartNext]_vars PROVE SharedInv'
  <2>1. CASE ReadSetting
    <3>1. at \in ReadFirst /\ at' = After[at] /\ threads' = threads /\ failed' = failed
      BY <2>1 DEF ReadSetting
    <3>2. at \notin Networked /\ at' # "returned"
      BY <3>1 DEF ReadFirst, NetworkSettings, Addresses, Leased, After, Networked
    <3> QED BY <1>2, <3>1, <3>2 DEF NoServerEarly
  <2>2. CASE SetAttenuation \/ InitClock \/ ConfigureStored \/ RequestLease
    <3>1. at \notin Networked /\ threads' = threads /\ failed' = failed
      BY <2>2 DEF SetAttenuation, InitClock, ConfigureStored, RequestLease, Networked
    <3> QED BY <1>2, <3>1 DEF NoServerEarly
  <2>3. CASE StartServer \/ Serve
    <3>1. at' \in Networked /\ at' # "returned" /\ failed' = failed
      BY <1>2, <2>3 DEF StartServer, Serve, After, Networked
    <3> QED BY <1>2, <3>1 DEF NoServerEarly
  <2>4. CASE RestartAll
    BY <2>4 DEF RestartAll, NoServerEarly
  <2>5. CASE \E c \in Clients : ClientCommand(c)
    BY <1>2, <2>5 DEF ClientCommand, NoServerEarly
  <2>6. CASE UNCHANGED vars
    BY <1>2, <2>6 DEF vars, startVars, NoServerEarly
  <2> QED BY <1>2, <2>1, <2>2, <2>3, <2>4, <2>5, <2>6 DEF StartNext, Proceed
<1>3. SharedInv => SharedValuesLive
  BY DEF NoServerEarly, SharedValuesLive
<1> QED BY <1>1, <1>2, <1>3, PTL DEF StartSpec

-----------------------------------------------------------------------------
(* The network. *)

\* The steps at which a setting has been read and not yet been used.
HasRead ==
    [mac           |-> {"ip", "mask", "gateway", "eth_addr_mode", "net"},
     ip            |-> {"mask", "gateway", "eth_addr_mode", "net"},
     mask          |-> {"gateway", "eth_addr_mode", "net"},
     gateway       |-> {"eth_addr_mode", "net"},
     eth_addr_mode |-> {"net"}]

ReadAsStored == \A f \in NetworkSettings \ touched : at \in HasRead[f] => conf[f] = file[f]

\* Until the lease is there, the stored addresses are used.
StoredMeanwhile ==
    at = "lease" =>
        /\ \A f \in Addresses \ touched : eth[f] = file[f]
        /\ file["eth_addr_mode"] # Static \/ "eth_addr_mode" \in touched

NetInv ==
    /\ DOMAIN conf = ReadFirst /\ failed \subseteq Failing
    /\ ReadAsStored /\ StoredMeanwhile /\ NetworkAsStored

LEMMA SettingsSplit ==
    /\ NetworkSettings = {"mac", "ip", "mask", "gateway", "eth_addr_mode"}
    /\ Addresses = {"mac", "ip", "mask", "gateway"}
    /\ ReadFirst = {"mac", "ip", "mask", "gateway", "eth_addr_mode", "attenuation"}
    /\ Networked = {"temp", "update", "scpi", "serving"}
BY DEF NetworkSettings, Addresses, Leased, ReadFirst, Networked

LEMMA ReadKeepsNetInv ==
    ASSUME ReadsSucceed, NetInv, ReadSetting
    PROVE  NetInv'
<1>1. PICK v \in {file[at]} \cup IF "read" \in failed THEN Garbage ELSE {} :
        conf' = [conf EXCEPT ![at] = v]
  BY DEF ReadSetting
<1>2. v = file[at]
  BY <1>1 DEF ReadsSucceed, NetInv
<1>3. /\ at \in ReadFirst /\ at' = After[at] /\ file' = file /\ touched' = touched
      /\ failed' = failed
  BY DEF ReadSetting, commandVars
<1>4. at' # "lease" /\ at' \notin Networked
  BY <1>3, SettingsSplit DEF After
<1>5. DOMAIN conf' = ReadFirst /\ conf'[at] = file[at] /\ \A f \in ReadFirst \ {at} : conf'[f] = conf[f]
  BY <1>1, <1>2, <1>3 DEF NetInv
<1>6. \A f \in NetworkSettings : at' \in HasRead[f] => f = at \/ at \in HasRead[f]
  BY <1>3, SettingsSplit DEF After, HasRead
<1>7. ReadAsStored'
  BY <1>3, <1>5, <1>6, SettingsSplit DEF NetInv, ReadAsStored
<1> QED BY <1>3, <1>4, <1>5, <1>7 DEF NetInv, StoredMeanwhile, NetworkAsStored

LEMMA LeaseKeepsNetInv ==
    ASSUME "answer" \notin Failing, NetInv, RequestLease
    PROVE  NetInv'
<1>1. /\ at = "lease" /\ at' = "temp" /\ conf' = conf /\ file' = file /\ touched' = touched
      /\ failed' = failed
  BY DEF RequestLease, commandVars
<1>2. "answer" \notin failed
  BY DEF NetInv
<1>3. ReadAsStored' /\ StoredMeanwhile'
  BY <1>1, SettingsSplit DEF ReadAsStored, StoredMeanwhile, HasRead
<1>4. ASSUME NEW f \in Addresses \ touched
      PROVE  eth'[f] = file[f] \/ (f \in Leased /\ \E ds \in Leases : ds[f] = eth'[f] /\ (f = "ip" \/ ds[f] # 0))
  <2>1. eth[f] = file[f]
    BY <1>1, <1>4 DEF NetInv, StoredMeanwhile
  <2>2. CASE "handle" \in failed
    BY <2>1, <2>2 DEF RequestLease
  <2>3. CASE "handle" \notin failed
    <3>1. PICK ds \in Leases : eth' = [g \in Addresses |->
                        IF g = "ip" \/ (g \in Leased /\ ds[g] # 0) THEN ds[g] ELSE eth[g]]
      BY <1>2, <2>3 DEF RequestLease, Received
    <3>2. eth'[f] = IF f = "ip" \/ (f \in Leased /\ ds[f] # 0) THEN ds[f] ELSE eth[f]
      BY <3>1
    <3> QED BY <2>1, <3>2 DEF Leased
  <2> QED BY <2>2, <2>3
<1>5. NetworkAsStored'
  BY <1>1, <1>4 DEF NetInv, StoredMeanwhile, NetworkAsStored
<1> QED BY <1>1, <1>3, <1>5 DEF NetInv

LEMMA ConfigureKeepsNetInv ==
    ASSUME NetInv, ConfigureStored
    PROVE  NetInv'
<1>1. /\ at = "net" /\ conf' = conf /\ file' = file /\ touched' = touched /\ failed' = failed
      /\ eth' = [f \in Addresses |-> conf[f]]
      /\ at' = IF conf["eth_addr_mode"] = Static THEN "temp" ELSE "lease"
  BY DEF ConfigureStored, commandVars
<1>2. \A f \in NetworkSettings \ touched : conf[f] = file[f]
  BY <1>1, SettingsSplit DEF NetInv, ReadAsStored, HasRead
<1>3. \A f \in Addresses \ touched : eth'[f] = file[f]
  BY <1>1, <1>2, SettingsSplit
<1>4. at' = "lease" => file["eth_addr_mode"] # Static \/ "eth_addr_mode" \in touched
  BY <1>1, <1>2, SettingsSplit
<1>5. ReadAsStored'
  BY <1>1, SettingsSplit DEF ReadAsStored, HasRead
<1> QED BY <1>1, <1>3, <1>4, <1>5 DEF NetInv, StoredMeanwhile, NetworkAsStored

LEMMA CommandKeepsNetInv ==
    ASSUME NetInv, NEW c \in Clients, ClientCommand(c)
    PROVE  NetInv'
<1>1. /\ at' = at /\ conf' = conf /\ eth' = eth /\ failed' = failed
      /\ touched' = touched \cup {f \in NetworkSettings : file'[f] # file[f]}
  BY DEF ClientCommand
<1>2. \A f \in NetworkSettings \ touched' : f \notin touched /\ file'[f] = file[f]
  BY <1>1
<1>3. "eth_addr_mode" \in NetworkSettings /\ Addresses \subseteq NetworkSettings
  BY SettingsSplit
<1>4. ReadAsStored'
  BY <1>1, <1>2 DEF NetInv, ReadAsStored
<1>5. StoredMeanwhile'
  BY <1>1, <1>2, <1>3 DEF NetInv, StoredMeanwhile
<1>6. NetworkAsStored'
  BY <1>1, <1>2, <1>3 DEF NetInv, NetworkAsStored
<1> QED BY <1>1, <1>4, <1>5, <1>6 DEF NetInv

\* Once the interface is configured, every address on it is the one stored
\* before the restart, or leased as the stored mode says, whatever the console
\* sets while the settings are read.
THEOREM NetworkIsAsStored ==
    ASSUME ReadsSucceed, "answer" \notin Failing
    PROVE  StartSpec => []NetworkAsStored
<1>1. StartInit => NetInv
  BY SettingsSplit DEF StartInit, NetInv, ReadAsStored, StoredMeanwhile, NetworkAsStored, HasRead, Unset
<1>2. ASSUME NetInv, [StartNext]_vars PROVE NetInv'
  <2>1. CASE SetAttenuation \/ InitClock
    <3>1. /\ conf' = conf /\ file' = file /\ touched' = touched /\ failed' = failed
          /\ at' \in {"clock", "mac", "returned"}
      BY <2>1 DEF SetAttenuation, InitClock, commandVars, After
    <3> QED BY <1>2, <3>1, SettingsSplit DEF NetInv, ReadAsStored, StoredMeanwhile, NetworkAsStored, HasRead
  <2>2. CASE StartServer \/ Serve
    <3>1. /\ conf' = conf /\ file' = file /\ touched' = touched /\ failed' = failed /\ eth' = eth
          /\ at \in Networked /\ at' \in {"update", "scpi", "serving", "returned"}
      BY <2>2 DEF StartServer, Serve, commandVars, After, Networked
    <3>2. ReadAsStored' /\ StoredMeanwhile'
      BY <3>1, SettingsSplit DEF ReadAsStored, StoredMeanwhile, HasRead
    <3> QED BY <1>2, <3>1, <3>2 DEF NetInv, NetworkAsStored
  <2>3. CASE RestartAll
    <3>1. /\ at' = "attenuation" /\ conf' = Unset(ReadFirst) /\ failed' \in SUBSET Failing
      BY <2>3 DEF RestartAll
    <3> QED BY <3>1, SettingsSplit DEF NetInv, ReadAsStored, StoredMeanwhile, NetworkAsStored, HasRead, Unset
  <2>4. CASE UNCHANGED vars
    BY <1>2, <2>4 DEF vars, commandVars, startVars, NetInv, ReadAsStored, StoredMeanwhile, NetworkAsStored
  <2> QED BY <1>2, <2>1, <2>2, <2>3, <2>4, ReadKeepsNetInv, LeaseKeepsNetInv, ConfigureKeepsNetInv,
             CommandKeepsNetInv DEF StartNext, Proceed
<1>3. NetInv => NetworkAsStored
  BY DEF NetInv
<1> QED BY <1>1, <1>2, <1>3, PTL DEF StartSpec
-----------------------------------------------------------------------------
(* The settings. *)

\* No two clients set PID parameters of the same channel.
OwnChannels ==
    \A c, d \in Clients : c # d =>
        \A p \in Allowed[c], q \in Allowed[d] :
            p[1] \in PidFields /\ q[1] \in PidFields => Group(p[1]) # Group(q[1])

Maps ==
    /\ DOMAIN file = Fields /\ DOMAIN asked = Fields \cup DOMAIN DacChannel
    /\ DOMAIN running = Clients /\ step \in [Clients -> 1..6]
    /\ DOMAIN buf = Clients /\ \A c \in Clients : DOMAIN buf[c] = 1..3
    /\ \A c \in Clients : ~Idle(c) => running[c] \in Allowed[c]
    /\ \A c \in Clients : step[c] > 1 => ~Idle(c) /\ running[c][1] \in PidFields

\* A setting nobody is setting has its last value.
Settled ==
    \A f \in Fields :
        (\A c \in Clients : ~Idle(c) => running[c][1] # f) => file[f] = asked[f]

\* A PID command's copies are what the file has, but for its new value, which
\* the file has once it is written.
CopiesAreCurrent ==
    \A c \in Clients : ~Idle(c) /\ running[c][1] \in PidFields =>
        \A i \in 1..3 : LET f == Group(running[c][1])[i] IN
            /\ i < step[c] => buf[c][i] = IF f = running[c][1] THEN running[c][2] ELSE file[f]
            /\ i + 3 < step[c] /\ f = running[c][1] => file[f] = running[c][2]

SettingsInv == Maps /\ Settled /\ CopiesAreCurrent

LEMMA PidTable ==
    /\ DOMAIN PidGroup["ac"] = 1..3 /\ DOMAIN PidGroup["bd"] = 1..3
    /\ \A i \in 1..3 : i = 1 \/ i = 2 \/ i = 3
    /\ Range(PidGroup["ac"]) = {"pid_ac_kc", "pid_ac_ti", "pid_ac_td"}
    /\ Range(PidGroup["bd"]) = {"pid_bd_kc", "pid_bd_ti", "pid_bd_td"}
<1>1. DOMAIN PidGroup["ac"] = 1..3 /\ DOMAIN PidGroup["bd"] = 1..3
  BY DEF PidGroup
<1>2. \A i \in 1..3 : i = 1 \/ i = 2 \/ i = 3
  OBVIOUS
<1> QED BY <1>1, <1>2 DEF Range, PidGroup

\* The group of a parameter is that of its channel, and lists it once.
LEMMA GroupOf ==
    ASSUME NEW f \in PidFields
    PROVE  /\ \/ Group(f) = PidGroup["ac"] /\ f \in Range(PidGroup["ac"])
              \/ Group(f) = PidGroup["bd"] /\ f \in Range(PidGroup["bd"])
           /\ \E i \in 1..3 : Group(f)[i] = f
           /\ f \notin PlainFields /\ f # "attenuation"
           /\ \A i \in 1..3 : Group(f)[i] \in PidFields
           /\ \A i, j \in 1..3 : Group(f)[i] = Group(f)[j] => i = j
<1>1. \E ch \in Channels : f \in Range(PidGroup[ch])
  BY DEF Channels, PidFields
<1>2. \/ Group(f) = PidGroup["ac"] /\ f \in Range(PidGroup["ac"])
      \/ Group(f) = PidGroup["bd"] /\ f \in Range(PidGroup["bd"])
  BY <1>1 DEF Group, Channels
<1>3. \E i \in 1..3 : Group(f)[i] = f
  BY <1>2, PidTable DEF Range
<1>4. Range(Setpoint) = {"pid_ac_set_point", "pid_bd_set_point"}
  BY DEF Setpoint, Range
<1>5. f \notin PlainFields /\ f # "attenuation"
  BY <1>2, <1>4, PidTable DEF PlainFields
<1>6. \A i \in 1..3 : Group(f)[i] \in PidFields
  BY <1>2, PidTable DEF Range, PidFields
<1>7. \A i, j \in 1..3 : Group(f)[i] = Group(f)[j] => i = j
  BY <1>2, PidTable DEF PidGroup
<1> QED BY <1>2, <1>3, <1>5, <1>6, <1>7

\* Different groups have no parameter in common.
LEMMA GroupsApart ==
    ASSUME NEW f \in PidFields, NEW h \in PidFields, Group(f) # Group(h),
           NEW i \in 1..3, NEW j \in 1..3
    PROVE  Group(f)[i] # Group(h)[j]
<1>1. PidGroup["ac"][i] # PidGroup["bd"][j] /\ PidGroup["ac"][j] # PidGroup["bd"][i]
  BY PidTable DEF PidGroup
<1> QED BY <1>1, GroupOf

\* A write to a setting that is no PID parameter leaves the copies current.
LEMMA OtherWritesKeepCopies ==
    ASSUME SettingsInv, NEW f \in Fields \ PidFields, NEW v, file' = [file EXCEPT ![f] = v],
           step' = step, buf' = buf,
           \A d \in Clients : ~Idle(d)' => ~Idle(d) /\ running'[d] = running[d]
    PROVE  CopiesAreCurrent'
<1>1. \A h \in PidFields : file'[h] = file[h]
  BY DEF SettingsInv, Maps, Fields
<1>2. \A d \in Clients : ~Idle(d) /\ running[d][1] \in PidFields =>
        \A i \in 1..3 : file'[Group(running[d][1])[i]] = file[Group(running[d][1])[i]]
  BY <1>1, GroupOf
<1> QED BY <1>2, GroupOf DEF SettingsInv, CopiesAreCurrent

LEMMA PlainKeepsSettings ==
    ASSUME SettingsInv, NEW c \in Clients, NEW f, NEW v, SetPlain(c, f, v)
    PROVE  SettingsInv'
<1>1. /\ f \in PlainFields /\ file' = [file EXCEPT ![f] = v] /\ asked' = [asked EXCEPT ![f] = v]
      /\ running' = running /\ step' = step /\ buf' = buf
  BY DEF SetPlain, Write, Ended
<1>2. f \in Fields \ PidFields
  BY <1>1, GroupOf DEF Fields
<1>3. Maps'
  BY <1>1 DEF SettingsInv, Maps, Idle
<1>4. Settled'
  BY <1>1, <1>2 DEF SettingsInv, Maps, Settled, Idle
<1>5. CopiesAreCurrent'
  BY <1>1, <1>2, OtherWritesKeepCopies DEF Idle
<1> QED BY <1>3, <1>4, <1>5 DEF SettingsInv

\* The beginning of a command that has accesses to the file to make.
LEMMA BeginKeepsSettings ==
    ASSUME SettingsInv, NEW c \in Clients, NEW p \in Allowed[c], Idle(c), p # << >>,
           running' = [running EXCEPT ![c] = p],
           UNCHANGED <<file, asked, step, buf>>
    PROVE  SettingsInv'
<1>1. running'[c] = p /\ \A d \in Clients \ {c} : running'[d] = running[d]
  BY DEF SettingsInv, Maps
<1>2. Maps'
  BY <1>1 DEF SettingsInv, Maps, Idle
<1>3. Settled'
  BY <1>1 DEF SettingsInv, Settled, Idle
<1>5. step[c] = 1
  BY DEF SettingsInv, Maps
<1>4. CopiesAreCurrent'
  <2> SUFFICES ASSUME NEW d \in Clients, ~Idle(d)', running'[d][1] \in PidFields, NEW i \in 1..3
               PROVE  LET h == Group(running'[d][1])[i] IN
                      /\ i < step'[d] => buf'[d][i] = IF h = running'[d][1] THEN running'[d][2] ELSE file'[h]
                      /\ i + 3 < step'[d] /\ h = running'[d][1] => file'[h] = running'[d][2]
    BY DEF CopiesAreCurrent
  <2>1. CASE d = c
    BY <1>5, <2>1
  <2>2. CASE d # c
    BY <1>1, <2>2 DEF SettingsInv, CopiesAreCurrent, Idle
  <2> QED BY <2>1, <2>2
<1> QED BY <1>2, <1>3, <1>4 DEF SettingsInv

LEMMA StoreKeepsSettings ==
    ASSUME SettingsInv, NEW c \in Clients, StoreAttenuation(c)
    PROVE  SettingsInv'
<1>1. /\ ~Idle(c) /\ running[c][1] = "attenuation"
      /\ file' = [file EXCEPT !["attenuation"] = running[c][2]]
      /\ asked' = [asked EXCEPT !["attenuation"] = running[c][2]]
      /\ running' = [running EXCEPT ![c] = << >>] /\ step' = step /\ buf' = buf
  BY DEF StoreAttenuation, Write, Ended
<1>2. "attenuation" \in Fields \ PidFields
  BY GroupOf DEF Fields
<1>3. running'[c] = << >> /\ \A d \in Clients \ {c} : running'[d] = running[d]
  BY <1>1 DEF SettingsInv, Maps
<1>4. Maps'
  BY <1>1, <1>2, <1>3 DEF SettingsInv, Maps, Idle
<1>5. Settled'
  BY <1>1, <1>2, <1>3 DEF SettingsInv, Maps, Settled, Idle
<1>6. CopiesAreCurrent'
  BY <1>1, <1>2, <1>3, OtherWritesKeepCopies DEF Idle
<1> QED BY <1>4, <1>5, <1>6 DEF SettingsInv

LEMMA ReadKeepsSettings ==
    ASSUME SettingsInv, NEW c \in Clients, PidRead(c)
    PROVE  SettingsInv'
<1> DEFINE k == step[c]
           g == Group(running[c][1])[k]
           copy == IF g = running[c][1] THEN running[c][2] ELSE file[g]
<1>1. /\ ~Idle(c) /\ running[c][1] \in PidFields /\ k \in 1..3
      /\ buf' = [buf EXCEPT ![c][k] = copy] /\ step' = [step EXCEPT ![c] = k + 1]
      /\ running' = running /\ file' = file /\ asked' = asked
  BY DEF PidRead, SettingsInv, Maps
<1>2. /\ \A d \in Clients \ {c} : buf'[d] = buf[d] /\ step'[d] = step[d]
      /\ step'[c] = k + 1 /\ DOMAIN buf' = Clients
      /\ DOMAIN buf'[c] = 1..3 /\ \A i \in 1..3 : buf'[c][i] = IF i = k THEN copy ELSE buf[c][i]
  <2> HIDE DEF copy
  <2> QED BY <1>1 DEF SettingsInv, Maps
<1>3. Maps'
  <2> HIDE DEF copy
  <2>1. step' \in [Clients -> 1..6]
    BY <1>1 DEF SettingsInv, Maps
  <2> QED BY <1>1, <1>2, <2>1 DEF SettingsInv, Maps, Idle
<1>4. Settled'
  BY <1>1 DEF SettingsInv, Settled, Idle
<1>5. CopiesAreCurrent'
  <2> SUFFICES ASSUME NEW d \in Clients, ~Idle(d)', running'[d][1] \in PidFields, NEW i \in 1..3
               PROVE  LET h == Group(running'[d][1])[i] IN
                      /\ i < step'[d] => buf'[d][i] = IF h = running'[d][1] THEN running'[d][2] ELSE file'[h]
                      /\ i + 3 < step'[d] /\ h = running'[d][1] => file'[h] = running'[d][2]
    BY DEF CopiesAreCurrent
  <2>1. CASE d = c
    <3>1. i < step'[c] => i = k \/ i < step[c]
      BY <1>1, <1>2
    <3>2. ~(i + 3 < step'[c])
      BY <1>1, <1>2
    <3> QED BY <1>1, <1>2, <2>1, <3>1, <3>2 DEF SettingsInv, CopiesAreCurrent
  <2>2. CASE d # c
    BY <1>1, <1>2, <2>2 DEF SettingsInv, CopiesAreCurrent, Idle
  <2> QED BY <2>1, <2>2
<1> QED BY <1>3, <1>4, <1>5 DEF SettingsInv

\* A write of a copy changes the file only for the parameter that is set, and
\* no other client has a copy of that.
LEMMA WriteKeepsSettings ==
    ASSUME OwnChannels, SettingsInv, NEW c \in Clients, PidWrite(c)
    PROVE  SettingsInv'
<1> DEFINE f == running[c][1]
           v == running[c][2]
           k == step[c] - 3
           g == Group(f)[k]
<1>1. /\ ~Idle(c) /\ f \in PidFields /\ k \in 1..3 /\ step[c] = k + 3
      /\ file' = [file EXCEPT ![g] = buf[c][k]] /\ buf' = buf
  BY DEF PidWrite, Write, SettingsInv, Maps
<1>2. buf[c][k] = IF g = f THEN v ELSE file[g]
  BY <1>1 DEF SettingsInv, CopiesAreCurrent
<1>3. g \in PidFields /\ PidFields \subseteq Fields /\ f \in Fields
  BY <1>1, GroupOf DEF Fields
<1>4. \A h \in Fields : file'[h] = IF h = g /\ g = f THEN v ELSE file[h]
  BY <1>1, <1>2, <1>3 DEF SettingsInv, Maps
<1>5. k < 3 => step' = [step EXCEPT ![c] = step[c] + 1] /\ running' = running /\ asked' = asked
  BY <1>1 DEF PidWrite
<1>6. k = 3 => /\ step' = [step EXCEPT ![c] = 1] /\ running' = [running EXCEPT ![c] = << >>]
               /\ asked' = [asked EXCEPT ![f] = v]
  BY <1>1 DEF PidWrite, Ended
<1>7. k < 3 \/ k = 3
  BY <1>1
<1>8. \A d \in Clients \ {c} : running'[d] = running[d] /\ step'[d] = step[d]
  BY <1>5, <1>6, <1>7 DEF SettingsInv, Maps
<1>9. k = 3 => file'[f] = v
  <2> SUFFICES ASSUME k = 3 PROVE file'[f] = v
    OBVIOUS
  <2>1. PICK i \in 1..3 : Group(f)[i] = f
    BY <1>1, GroupOf
  <2>2. CASE i = k
    BY <1>3, <1>4, <2>1, <2>2
  <2>3. CASE i # k
    <3>1. i + 3 < step[c]
      BY <1>1, <2>3
    <3>2. file[f] = v
      BY <1>1, <2>1, <3>1 DEF SettingsInv, CopiesAreCurrent
    <3> QED BY <1>3, <1>4, <3>2
  <2> QED BY <2>2, <2>3
<1>10. Maps'
  <2>1. DOMAIN file' = Fields /\ DOMAIN asked' = DOMAIN asked
    BY <1>1, <1>5, <1>6, <1>7 DEF SettingsInv, Maps
  <2>2. DOMAIN running' = Clients /\ step' \in [Clients -> 1..6]
    BY <1>1, <1>5, <1>6, <1>7 DEF SettingsInv, Maps
  <2>3. running'[c] = running[c] \/ (running'[c] = << >> /\ step'[c] = 1)
    BY <1>5, <1>6, <1>7 DEF SettingsInv, Maps
  <2> QED BY <1>1, <1>8, <2>1, <2>2, <2>3 DEF SettingsInv, Maps, Idle
<1>11. Settled'
  <2> SUFFICES ASSUME NEW h \in Fields,
                      \A d \in Clients : ~Idle(d)' => running'[d][1] # h
               PROVE  file'[h] = asked'[h]
    BY DEF Settled
  <2>1. CASE k < 3
    <3>1. h # f /\ asked' = asked
      BY <1>1, <1>5, <2>1 DEF Idle
    <3>2. \A d \in Clients : ~Idle(d) => running[d][1] # h
      BY <1>5, <2>1 DEF Idle
    <3> QED BY <1>4, <3>1, <3>2 DEF SettingsInv, Settled
  <2>2. CASE k = 3 /\ h = f
    BY <1>3, <1>6, <1>9, <2>2 DEF SettingsInv, Maps
  <2>3. CASE k = 3 /\ h # f
    <3>1. \A d \in Clients : ~Idle(d) => running[d][1] # h
      BY <1>8, <2>3 DEF Idle
    <3> QED BY <1>4, <1>6, <2>3, <3>1 DEF SettingsInv, Maps, Settled
  <2> QED BY <1>7, <2>1, <2>2, <2>3
<1>12. CopiesAreCurrent'
  <2> SUFFICES ASSUME NEW d \in Clients, ~Idle(d)', running'[d][1] \in PidFields, NEW i \in 1..3
               PROVE  LET h == Group(running'[d][1])[i] IN
                      /\ i < step'[d] => buf'[d][i] = IF h = running'[d][1] THEN running'[d][2] ELSE file'[h]
                      /\ i + 3 < step'[d] /\ h = running'[d][1] => file'[h] = running'[d][2]
    BY DEF CopiesAreCurrent
  <2>1. CASE d = c
    <3>1. k < 3 /\ running' = running /\ step'[c] = k + 4
      BY <1>1, <1>5, <1>6, <1>7, <2>1 DEF SettingsInv, Maps, Idle
    <3> DEFINE h == Group(f)[i]
    <3>2. h \in Fields /\ i < step[c]
      BY <1>1, GroupOf DEF Fields
    <3>3. h # f => file'[h] = file[h]
      BY <1>4, <3>2
    <3>4. buf'[c][i] = IF h = f THEN v ELSE file'[h]
      BY <1>1, <3>2, <3>3 DEF SettingsInv, CopiesAreCurrent
    <3>5. ASSUME i + 3 < step'[c], h = f PROVE file'[h] = v
      <4>1. i = k \/ i + 3 < step[c]
        BY <1>1, <3>1, <3>5
      <4>2. i = k => file'[h] = v
        BY <1>4, <3>2, <3>5
      <4>3. i + 3 < step[c] => file[h] = v
        BY <1>1, <3>5 DEF SettingsInv, CopiesAreCurrent
      <4> QED BY <1>4, <3>2, <4>1, <4>2, <4>3
    <3> QED BY <2>1, <3>1, <3>4, <3>5
  <2>2. CASE d # c
    <3>1. running'[d] = running[d] /\ step'[d] = step[d] /\ ~Idle(d) /\ running[d][1] \in PidFields
      BY <1>8, <2>2 DEF Idle
    <3>2. Group(running[d][1]) # Group(f)
      BY <1>1, <2>2, <3>1 DEF OwnChannels, SettingsInv, Maps
    <3>3. Group(running[d][1])[i] # g /\ Group(running[d][1])[i] \in Fields
      BY <1>1, <3>1, <3>2, GroupsApart, GroupOf DEF Fields
    <3>4. file'[Group(running[d][1])[i]] = file[Group(running[d][1])[i]]
      BY <1>4, <3>3
    <3> QED BY <1>1, <3>1, <3>4 DEF SettingsInv, CopiesAreCurrent
  <2> QED BY <2>1, <2>2
<1> QED BY <1>10, <1>11, <1>12 DEF SettingsInv

LEMMA CommandKeepsSettings ==
    ASSUME OwnChannels, SettingsInv, NEW c \in Clients, Command(c)
    PROVE  SettingsInv'
<1>1. CASE \E p \in Allowed[c] : SetPlain(c, p[1], p[2])
  BY <1>1, PlainKeepsSettings
<1>2. CASE \E p \in Allowed[c] : PidBegin(c, p[1], p[2])
  <2>1. PICK p \in Allowed[c] : PidBegin(c, p[1], p[2])
    BY <1>2
  <2>2. <<p[1], p[2]>> \in Allowed[c] /\ <<p[1], p[2]>> # << >>
    BY <2>1 DEF PidBegin
  <2> QED BY <2>1, <2>2, BeginKeepsSettings DEF PidBegin
<1>3. CASE \E p \in Allowed[c] : SetDac(c, p[1], p[2])
  <2>1. PICK p \in Allowed[c] : SetDac(c, p[1], p[2])
    BY <1>3
  <2>2. /\ asked' = [asked EXCEPT ![p[1]] = p[2]] /\ p[1] \in DOMAIN DacChannel
        /\ file' = file /\ running' = running /\ step' = step /\ buf' = buf
    BY <2>1 DEF SetDac, Ended
  <2>3. \A f \in Fields : f # p[1]
    <3>1. DOMAIN DacChannel = {"dac_ac", "dac_bd"}
      BY DEF DacChannel
    <3>2. Range(Setpoint) = {"pid_ac_set_point", "pid_bd_set_point"}
      BY DEF Setpoint, Range
    <3> QED BY <2>2, <3>1, <3>2, PidTable DEF Fields, PidFields, PlainFields
  <2> QED BY <2>2, <2>3 DEF SettingsInv, Maps, Settled, CopiesAreCurrent, Idle
<1>4. CASE \E p \in Allowed[c] : p[1] = "attenuation" /\ Attenuate(c, p[2])
  <2>1. PICK p \in Allowed[c] : p[1] = "attenuation" /\ Attenuate(c, p[2])
    BY <1>4
  <2>2. <<"attenuation", p[2]>> \in Allowed[c] /\ <<"attenuation", p[2]>> # << >>
    BY <2>1 DEF Attenuate
  <2> QED BY <2>1, <2>2, BeginKeepsSettings DEF Attenuate
<1> QED BY <1>1, <1>2, <1>3, <1>4, StoreKeepsSettings, ReadKeepsSettings, WriteKeepsSettings DEF Command

LEMMA RestartKeepsSettings ==
    ASSUME SettingsInv, RestartAll
    PROVE  SettingsInv'
<1>1. /\ file' = file /\ running' = [c \in Clients |-> << >>] /\ step' = [c \in Clients |-> 1]
      /\ buf' = [c \in Clients |-> [i \in 1..3 |-> 0]]
      /\ asked' = [f \in DOMAIN asked |->
                     IF \E c \in Clients : ~Idle(c) /\ running[c][1] = f THEN file[f] ELSE asked[f]]
  BY DEF RestartAll, ThreadsGone
<1>2. Maps'
  BY <1>1 DEF SettingsInv, Maps, Idle
<1>3. Settled'
  BY <1>1 DEF SettingsInv, Maps, Settled
<1>4. CopiesAreCurrent'
  BY <1>1 DEF CopiesAreCurrent, Idle
<1> QED BY <1>2, <1>3, <1>4 DEF SettingsInv

\* Whoever sets what, and wherever a restart cuts a command short: a setting
\* nobody is setting is the one last asked for, if PID parameters of one channel
\* are set by one client only (scpi_rffe_cmd.c:189-307).
THEOREM SettingsAreKept ==
    ASSUME OwnChannels
    PROVE  StartSpec => []SettingsHold
<1>1. StartInit => SettingsInv
  <2> SUFFICES ASSUME StartInit PROVE SettingsInv
    OBVIOUS
  <2>1. /\ file = [f \in Fields |-> IF f = "temp_ctrl_mode" THEN 1 ELSE 0]
        /\ asked = [f \in Fields \cup DOMAIN DacChannel |-> IF f = "temp_ctrl_mode" THEN 1 ELSE 0]
        /\ running = [c \in Clients |-> << >>]
        /\ step = [c \in Clients |-> 1] /\ buf = [c \in Clients |-> [i \in 1..3 |-> 0]]
    BY DEF StartInit, C!Init, C!Fields, C!PidFields, C!PlainFields, C!PidGroup, C!Setpoint, C!Range, C!DacChannel, Fields, PidFields, PlainFields, PidGroup, Setpoint, Range, DacChannel
  <2> QED BY <2>1 DEF SettingsInv, Maps, Settled, CopiesAreCurrent, Idle
<1>2. OwnChannels /\ SettingsInv /\ [StartNext]_vars => SettingsInv'
  <2> SUFFICES ASSUME OwnChannels, SettingsInv, [StartNext]_vars PROVE SettingsInv'
    OBVIOUS
  <2>1. CASE \E c \in Clients : ClientCommand(c)
    BY <2>1, CommandKeepsSettings DEF ClientCommand
  <2>2. CASE RestartAll
    BY <2>2, RestartKeepsSettings
  <2>3. CASE Proceed \/ RequestLease \/ UNCHANGED vars
    <3>1. UNCHANGED <<file, asked, running, step, buf>>
      BY <2>3 DEF Proceed, RequestLease, ReadSetting, SetAttenuation, InitClock, ConfigureStored,
                  StartServer, Serve, commandVars, vars
    <3> QED BY <3>1 DEF SettingsInv, Maps, Settled, CopiesAreCurrent, Idle
  <2> QED BY <2>1, <2>2, <2>3 DEF StartNext
<1>3. SettingsInv => SettingsHold
  <2> SUFFICES ASSUME SettingsInv, NEW f \in Fields,
                      ~Busy(IF f \in PidFields THEN Range(Group(f)) ELSE {f})
               PROVE  file[f] = asked[f]
    BY DEF SettingsHold
  <2>1. f \in IF f \in PidFields THEN Range(Group(f)) ELSE {f}
    BY GroupOf
  <2> QED BY <2>1 DEF SettingsInv, Settled, Busy
<1> QED BY <1>1, <1>2, <1>3, PTL DEF StartSpec

-----------------------------------------------------------------------------
(* The attenuator has what is stored.                                      *)

Setter(c)  == \E p \in Allowed[c] : p[1] = "attenuation"
Storing(c) == ~Idle(c) /\ running[c][1] = "attenuation"

\* One client sets the attenuation.
OneSetter == \A c, d \in Clients : Setter(c) /\ Setter(d) => c = d

\* Between its two halves a command has set the attenuator only.
AttInv ==
    /\ \A c \in Clients : Storing(c) => Setter(c)
    /\ at \in Attenuated =>
         \/ \E c \in Clients : Storing(c) /\ running[c][2] = att
         \/ (\A c \in Clients : ~Storing(c)) /\ file["attenuation"] = att

\* Commands for something else.
LEMMA OthersKeepAtt ==
    ASSUME AttInv, att' = att, at' = at, file'["attenuation"] = file["attenuation"],
           \A d \in Clients : \/ Storing(d)' = Storing(d) /\ running'[d] = running[d]
                              \/ ~Storing(d)' /\ ~Storing(d)
    PROVE  AttInv'
BY DEF AttInv, Setter

LEMMA CommandKeepsAtt ==
    ASSUME OneSetter, Shapes, AttInv, NEW c \in Clients, Command(c), at' = at
    PROVE  AttInv'
<1>1. CASE \E p \in Allowed[c] : SetPlain(c, p[1], p[2])
  <2>0. "attenuation" \notin PlainFields
    <3>1. Range(Setpoint) = {"pid_ac_set_point", "pid_bd_set_point"}
      BY DEF Setpoint, Range
    <3> QED BY <3>1 DEF PlainFields
  <2>1. running' = running /\ att' = att /\ file'["attenuation"] = file["attenuation"]
    BY <1>1, <2>0 DEF SetPlain, Write, Shapes
  <2> QED BY <2>1, OthersKeepAtt DEF Storing, Idle
<1>2. CASE \E p \in Allowed[c] : PidBegin(c, p[1], p[2])
  <2>1. PICK p \in Allowed[c] : PidBegin(c, p[1], p[2])
    BY <1>2
  <2>2. /\ running' = [running EXCEPT ![c] = <<p[1], p[2]>>] /\ att' = att /\ file' = file
        /\ Idle(c) /\ p[1] \in PidFields
    BY <2>1 DEF PidBegin
  <2>3. running'[c][1] # "attenuation" /\ \A d \in Clients \ {c} : running'[d] = running[d]
    BY <2>2, GroupOf DEF Shapes
  <2> QED BY <2>2, <2>3, OthersKeepAtt DEF Storing, Idle
<1>3. CASE \E p \in Allowed[c] : SetDac(c, p[1], p[2])
  <2>1. running' = running /\ att' = att /\ file' = file
    BY <1>3 DEF SetDac
  <2> QED BY <2>1, OthersKeepAtt DEF Storing, Idle
<1>4. CASE \E p \in Allowed[c] : p[1] = "attenuation" /\ Attenuate(c, p[2])
  <2>1. PICK p \in Allowed[c] : p[1] = "attenuation" /\ Attenuate(c, p[2])
    BY <1>4
  <2>2. /\ running'[c] = <<"attenuation", p[2]>> /\ \A d \in Clients \ {c} : running'[d] = running[d]
        /\ att' = p[2] /\ Setter(c)
    BY <2>1 DEF Attenuate, Shapes, Setter
  <2>3. Storing(c)' /\ running'[c][2] = att'
    BY <2>2 DEF Storing, Idle
  <2>4. \A d \in Clients : Storing(d)' => Setter(d)
    BY <2>2 DEF AttInv, Storing, Idle
  <2> QED BY <2>3, <2>4 DEF AttInv, Setter
<1>5. CASE StoreAttenuation(c)
  <2>1. /\ Storing(c) /\ file' = [file EXCEPT !["attenuation"] = running[c][2]]
        /\ att' = att /\ running' = [running EXCEPT ![c] = << >>]
    BY <1>5 DEF StoreAttenuation, Write, Storing
  <2>2. \A d \in Clients \ {c} : ~Storing(d) /\ running'[d] = running[d]
    BY <2>1 DEF OneSetter, AttInv, Shapes
  <2>3. \A d \in Clients : ~Storing(d)'
    BY <2>1, <2>2 DEF Storing, Idle, Shapes
  <2>4. at \in Attenuated => running[c][2] = att
    BY <2>1, <2>2 DEF AttInv
  <2>5. file'["attenuation"] = running[c][2]
    BY <2>1, GroupOf DEF Shapes, Fields
  <2> QED BY <2>1, <2>3, <2>4, <2>5 DEF AttInv
<1>6. CASE PidRead(c)
  <2>1. running' = running /\ att' = att /\ file' = file
    BY <1>6 DEF PidRead
  <2> QED BY <2>1, OthersKeepAtt DEF Storing, Idle
<1>7. CASE PidWrite(c)
  <2>1. step[c] - 3 \in 1..3 /\ running[c][1] \in PidFields
    BY <1>7 DEF PidWrite, Shapes
  <2>2. Group(running[c][1])[step[c] - 3] # "attenuation"
    BY <2>1, GroupHasNoAttenuation
  <2>3. att' = att /\ file'["attenuation"] = file["attenuation"]
    BY <1>7, <2>2 DEF PidWrite, Write, Shapes, Fields
  <2>4. running' = running \/ running' = [running EXCEPT ![c] = << >>]
    BY <1>7 DEF PidWrite
  <2>5. ~Storing(c) /\ ~Storing(c)' /\ \A d \in Clients \ {c} : running'[d] = running[d]
    BY <2>1, <2>4, GroupOf DEF Storing, Idle, Shapes
  <2> QED BY <2>3, <2>5, OthersKeepAtt DEF Storing, Idle
<1> QED BY <1>1, <1>2, <1>3, <1>4, <1>5, <1>6, <1>7 DEF Command

\* The start-up sets the attenuator to what it has read, while nobody sets it.
LEMMA MainKeepsAtt ==
    ASSUME Inv, AttInv, Proceed \/ RequestLease
    PROVE  AttInv'
<1>1. running' = running /\ file' = file /\ \A c \in Clients : Storing(c)' <=> Storing(c)
  BY DEF Proceed, RequestLease, ReadSetting, SetAttenuation, InitClock, ConfigureStored, StartServer,
         Serve, commandVars, Storing, Idle
<1>2. CASE SetAttenuation
  <2>1. at = "set" /\ att' = file["attenuation"]
    BY <1>2 DEF SetAttenuation, Inv, ReadIsStored
  <2>2. \A c \in Clients : ~Storing(c)
    BY <2>1 DEF Inv, Calm, Storing
  <2> QED BY <1>1, <2>1, <2>2 DEF AttInv, Setter
<1>3. CASE ~SetAttenuation
  <2>1. att' = att
    BY <1>3 DEF Proceed, RequestLease, ReadSetting, InitClock, ConfigureStored, StartServer, Serve, commandVars
  <2>2. at' \in Attenuated => at \in Attenuated
    BY <1>3, Stays DEF Proceed, RequestLease, ReadSetting, InitClock, ConfigureStored, StartServer, Serve,
       Attenuated, Stages, After, ReadFirst, NetworkSettings, Addresses, Leased
  <2> QED BY <1>1, <2>1, <2>2 DEF AttInv, Setter
<1> QED BY <1>2, <1>3

\* After every restart the attenuator comes to have what is stored, and what the
\* client that sets it reads is what it has.
THEOREM AttenuationIsRestored ==
    ASSUME ConsolesQuiet, ReadsSucceed, OneSetter
    PROVE  StartSpec => []AttenuationRestored
<1>1. StartInit => Inv /\ AttInv
  <2> SUFFICES ASSUME StartInit PROVE AttInv
    BY InitHasInv
  <2>1. at = "attenuation" /\ running = [c \in Clients |-> << >>]
    BY DEF StartInit, C!Init
  <2> QED BY <2>1 DEF AttInv, Storing, Idle, Attenuated
<1>2. Inv /\ AttInv /\ [StartNext]_vars => (Inv /\ AttInv)'
  <2> SUFFICES ASSUME Inv, AttInv, [StartNext]_vars PROVE AttInv'
    BY NextKeepsInv
  <2>1. CASE \E c \in Clients : ClientCommand(c)
    BY <2>1, CommandKeepsAtt DEF ClientCommand, Inv
  <2>2. CASE RestartAll
    <3>1. at' = "attenuation" /\ running' = [c \in Clients |-> << >>]
      BY <2>2 DEF RestartAll, ThreadsGone
    <3> QED BY <3>1 DEF AttInv, Storing, Idle, Attenuated
  <2>3. CASE Proceed \/ RequestLease
    BY <2>3, MainKeepsAtt
  <2>4. CASE UNCHANGED vars
    BY <2>4 DEF AttInv, Storing, Setter, Idle, vars, commandVars, startVars
  <2> QED BY <2>1, <2>2, <2>3, <2>4 DEF StartNext
<1>3. AttInv => AttenuationRestored
  <2> SUFFICES ASSUME AttInv, at \in Attenuated, ~Busy({"attenuation"})
               PROVE  Answer("attenuation") = att
    BY DEF AttenuationRestored, AttenuationIsReported
  <2>1. \A c \in Clients : ~Storing(c)
    BY DEF Busy, Storing
  <2>2. "attenuation" \notin DOMAIN DacChannel
    BY DEF DacChannel
  <2> QED BY <2>1, <2>2 DEF AttInv, Answer
<1> QED BY <1>1, <1>2, <1>3, PTL DEF StartSpec
=============================================================================
