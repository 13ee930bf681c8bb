------------------------------- MODULE Startup -------------------------------
(***************************************************************************)
(* What rffe_main does between a restart and the first SCPI connection:    *)
(* it restores the attenuation, sets up the clock synthesiser, reads the   *)
(* network settings one by one, configures the interface (netconfig.c),    *)
(* asks a DHCP server, and starts the servers.  The console has been       *)
(* running since before, and sets the same settings.  The file has been    *)
(* migrated (ConfigMigrate), which leaves nothing to do.                   *)
(***************************************************************************)
EXTENDS ScpiCommands

CONSTANTS
    Consoles,      \* the clients that need no connection
    PowerOn,       \* levels of an attenuator that has just been powered
    Failing,       \* what may be missing after a restart: see Parts
    Leases,        \* what a DHCP server may answer
    Garbage        \* what a local variable may hold that nothing has set

\* /dev/i2c0, some read of the FeRAM, the memory for a DHCP handle, the answer
\* to a request for a lease or a part of it, the socket of the SCPI server
Parts == {"i2c0", "read", "handle", "answer", "socket"}

Leased    == {"ip", "mask", "gateway"}
Addresses == Leased \cup {"mac"}
NetworkSettings == Addresses \cup {"eth_addr_mode"}
ReadFirst == NetworkSettings \cup {"attenuation"}
Static    == 0   \* ETH_ADDR_MODE_STATIC

ASSUME StartupAssumption ==
    /\ Consoles \subseteq Clients /\ Failing \subseteq Parts
    /\ PowerOn \subseteq Int /\ Garbage \subseteq Int /\ Leases \subseteq [Leased -> Int]

VARIABLES
    at,       \* what rffe_main does next
    conf,     \* its locals att, conf and dhcp
    eth,      \* addresses of the interface
    threads,  \* servers that have been started
    failed,   \* what is missing
    touched   \* network settings changed since the restart; for the properties

startVars == <<at, conf, eth, threads, failed, touched>>
vars == <<commandVars, startVars>>

Servers == {"temp", "update", "scpi"}

\* The order of its steps: each one that reads a setting has its name.
After ==
    [attenuation |-> "set", set |-> "clock", clock |-> "mac", mac |-> "ip", ip |-> "mask",
     mask |-> "gateway", gateway |-> "eth_addr_mode", eth_addr_mode |-> "net",
     temp |-> "update", update |-> "scpi"]
Stages == DOMAIN After \cup {"net", "lease", "scpi", "serving", "returned"}
Attenuated == Stages \ {"attenuation", "set"}
Networked  == {"temp", "update", "scpi", "serving"}

\* The device as the clients know it, who do not see the attenuator being set.
C == INSTANCE ScpiCommands WITH
        att <- IF at \in Attenuated THEN att ELSE file["attenuation"]

StartTypeOK ==
    /\ TypeOK
    /\ at \in Stages /\ threads \subseteq Servers /\ failed \subseteq Failing
    /\ conf \in [ReadFirst -> Int] /\ eth \in [Addresses -> Int]
    /\ touched \subseteq NetworkSettings

Unset(fields) == [f \in fields |-> 0]

StartInit ==
    /\ at = "attenuation" /\ conf = Unset(ReadFirst) /\ eth = Unset(Addresses)
    /\ threads = {} /\ failed \in SUBSET Failing /\ touched = {}
    /\ C!Init /\ att \in PowerOn

-----------------------------------------------------------------------------
(* The steps of rffe_main. *)

\* config_get_*: a failed read leaves the variable as it was, and is not noticed.
ReadSetting ==
    /\ at \in ReadFirst
    /\ \E v \in {file[at]} \cup IF "read" \in failed THEN Garbage ELSE {} : conf' = [conf EXCEPT ![at] = v]
    /\ at' = After[at]
    /\ UNCHANGED <<commandVars, eth, threads, failed, touched>>

\* Mutant: the attenuator is not set.
SkipAttenuation ==
    /\ at = "set" /\ at' = After[at]
    /\ UNCHANGED <<commandVars, conf, eth, threads, failed, touched>>

SetAttenuation ==
    /\ at = "set" /\ at' = After[at]
    /\ att' = conf["attenuation"]
    /\ UNCHANGED <<file, dac, running, step, buf, asked, held, conf, eth, threads, failed, touched>>

\* Mutant: the temperature control is started first.
StartTempFirst ==
    /\ at = "clock"
    /\ at' = IF "i2c0" \in failed THEN "returned" ELSE After[at]
    /\ threads' = threads \cup {"temp"}
    /\ UNCHANGED <<commandVars, conf, eth, failed, touched>>

\* cdce906_init fails when its bus cannot be opened; whether the synthesiser
\* has answered is not looked at.
InitClock ==
    /\ at = "clock"
    /\ at' = IF "i2c0" \in failed THEN "returned" ELSE After[at]
    /\ UNCHANGED <<commandVars, conf, eth, threads, failed, touched>>

\* Mutant: an address is asked for whatever the mode.
AlwaysLease ==
    /\ at = "net"
    /\ eth' = [f \in Addresses |-> conf[f]]
    /\ at' = "lease"
    /\ UNCHANGED <<commandVars, conf, threads, failed, touched>>

\* netconfig: the stored addresses are used until a server gives others.
ConfigureStored ==
    /\ at = "net"
    /\ eth' = [f \in Addresses |-> conf[f]]
    /\ at' = IF conf["eth_addr_mode"] = Static THEN "temp" ELSE "lease"
    /\ UNCHANGED <<commandVars, conf, threads, failed, touched>>

\* Mutant: without a handle rffe_main gives up.
LeaseOrReturn ==
    /\ at = "lease" /\ at' = IF "handle" \in failed THEN "returned" ELSE "temp"
    /\ UNCHANGED <<commandVars, conf, eth, threads, failed, touched>>

\* What dhcpc_request leaves in ds, which nothing in netconfig clears: a lease,
\* with 0 for a member it does not give, if the request succeeds and NuttX's
\* client clears ds; otherwise what was in ds remains in some of its members.
Received ==
    IF "answer" \notin failed THEN Leases
    ELSE [Leased -> Garbage]
           \cup {[f \in Leased |-> IF f \in given THEN ds[f] ELSE rest[f]] :
                   given \in SUBSET Leased, ds \in Leases, rest \in [Leased -> Garbage]}

\* netconfig with use_dhcp: dhcpc_open finds no memory, or the request is over
\* and its result ignored.  A mask or router of 0 is not used.
RequestLease ==
    /\ at = "lease" /\ at' = "temp"
    /\ IF "handle" \in failed THEN UNCHANGED eth
       ELSE \E ds \in Received :
              eth' = [f \in Addresses |->
                        IF f = "ip" \/ (f \in Leased /\ ds[f] # 0) THEN ds[f] ELSE eth[f]]
    /\ UNCHANGED <<commandVars, conf, threads, failed, touched>>

\* The thread of a server is created.  Whether it goes on is its own matter: the
\* result of pthread_create is ignored, and a thread that finds no sensors
\* (temp_control.c:72) or gets no socket (fw_update.c:50) ends.
StartServer ==
    /\ at \in {"temp", "update"}
    /\ threads' = threads \cup {at} /\ at' = After[at]
    /\ UNCHANGED <<commandVars, conf, eth, failed, touched>>

\* scpi_server_start returns when socket, bind or listen fails, and then
\* rffe_main does; the threads of a task that is over may be ended with it.
Serve ==
    /\ at = "scpi"
    /\ IF "socket" \in failed
       THEN at' = "returned" /\ threads' \in {threads, {}}
       ELSE at' = "serving" /\ threads' = threads \cup {"scpi"}
    /\ UNCHANGED <<commandVars, conf, eth, failed, touched>>

\* The steps whose end depends on nobody else.
Proceed == ReadSetting \/ SetAttenuation \/ InitClock \/ ConfigureStored \/ StartServer \/ Serve

-----------------------------------------------------------------------------
(* Commands and restarts meanwhile. *)

\* The console is there from the beginning, a connection needs the SCPI server.
ClientCommand(c) ==
    /\ c \in Consoles \/ "scpi" \in threads
    /\ Command(c)
    /\ touched' = touched \cup {f \in NetworkSettings : file'[f] # file[f]}
    /\ UNCHANGED <<at, conf, eth, threads, failed>>

\* Mutant: the DAC values outlive the restart.
RestartKeepsDac ==
    /\ ThreadsGone /\ att' \in {att} \cup PowerOn
    /\ at' = "attenuation" /\ conf' = Unset(ReadFirst) /\ eth' = Unset(Addresses)
    /\ threads' = {} /\ failed' \in SUBSET Failing /\ touched' = {}
    /\ UNCHANGED <<file, dac>>

\* A reset leaves the attenuator as it is, a power cut does not.
RestartAll ==
    /\ dac' = [ch \in Channels |-> 0] /\ ThreadsGone
    /\ att' \in {att} \cup PowerOn
    /\ at' = "attenuation" /\ conf' = Unset(ReadFirst) /\ eth' = Unset(Addresses)
    /\ threads' = {} /\ failed' \in SUBSET Failing /\ touched' = {}
    /\ UNCHANGED file

StartNext == Proceed \/ RequestLease \/ RestartAll \/ \E c \in Clients : ClientCommand(c)

StartSpec == StartInit /\ [][StartNext]_vars

\* The scheduler runs rffe_main whenever it is ready.  Nothing is assumed of
\* clients and of the DHCP server.
FairStartSpec == StartSpec /\ WF_vars(Proceed)

-----------------------------------------------------------------------------
(* Properties. *)

\* For its clients the device restarts in one step, with the attenuation that
\* is stored: none of them, nor the console as long as it sets no attenuation
\* meanwhile, can tell the start-up from the restart of ScpiCommands, on which
\* TempControl rests too (rffe_main.c:131-138).
\* The code does not keep this when the console sets the attenuation then
\* (README.md, section 5).
ImplementsCommands == C!Spec

\* From its restoration on, what the attenuator has is what
\* GET:ATTEnuation? answers (rffe_main.c:131-138).
AttenuationRestored == at \in Attenuated => AttenuationIsReported

\* The interface has the addresses that were stored before the restart, each
\* of them that has not been set since, or addresses of a
\* lease when the mode calls for one; a mask or router the lease leaves out is
\* the stored one (netconfig.c:27-67).
\* The code does not keep this when a request fails, or leaves a member of ds
\* as it was (README.md, section 5).
NetworkAsStored ==
    at \in Networked => \A f \in Addresses \ touched :
        \/ eth[f] = file[f]
        \/ /\ f \in Leased /\ \E ds \in Leases : ds[f] = eth[f] /\ (f = "ip" \/ ds[f] # 0)
           /\ file["eth_addr_mode"] # Static \/ "eth_addr_mode" \in touched

\* "dac_ac and dac_bd are shared between the temperature control server and
\* scpi server" (rffe_main.c:109): they are locals of rffe_main, which has not
\* returned while one of these runs.
\* The code does not keep this when the SCPI server fails (README.md, section 5).
SharedValuesLive == threads # {} => at # "returned"

\* What must happen in the end happens in the run after the last restart.
RestartsEnd == <>[][~RestartAll]_vars

\* A device whose clock synthesiser can be reached comes to start all its
\* servers, whatever the console does meanwhile and whatever lease it gets, as
\* long as no request for one lasts forever (rffe_main.c:143-199).
ServesInTheEnd ==
    RestartsEnd /\ <>[](failed \cap {"i2c0", "socket"} = {}) /\ []<>(at # "lease") =>
        <>[](threads = Servers)

\* The heaters are controlled whatever the network does.
\* The code does not keep this (README.md, section 5).
HeatersControlled ==
    RestartsEnd /\ <>[]("i2c0" \notin failed) => <>[]("temp" \in threads)
=============================================================================
