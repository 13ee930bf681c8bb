--------------------------- MODULE ConfigMigrate ----------------------------
(***************************************************************************)
(* The configuration file in FeRAM and its migration at start-up.          *)
(* config_file.c reads and writes single settings at fixed offsets;        *)
(* config_file_migrate.c reads and writes whole packed structures.  The    *)
(* console is started before the migration (rffe_main.c:81-86), and power  *)
(* may fail in any of its writes, which has then stored a prefix.          *)
(*                                                                         *)
(* A byte is a pair <<value, index>>: byte number index of that value.     *)
(***************************************************************************)
EXTENDS Integers

CONSTANTS
    MaxCuts,      \* power cuts (bound)
    Settable      \* settings written one by one, once each (bound)

\* Offsets and sizes of config_file.c.
Offset ==
    [mac |-> 0, version |-> 15, ip |-> 16, mask |-> 32, gateway |-> 48,
     attenuation |-> 64, eth_addr_mode |-> 80, temp_ctrl_mode |-> 81,
     pid_ac_kc |-> 96, pid_ac_ti |-> 100, pid_ac_td |-> 104,
     pid_bd_kc |-> 108, pid_bd_ti |-> 112, pid_bd_td |-> 116,
     pid_ac_set_point |-> 120, pid_bd_set_point |-> 124]

Fields == DOMAIN Offset

FieldSize(f) ==
    CASE f = "mac" -> 6
      [] f \in {"version", "eth_addr_mode", "temp_ctrl_mode"} -> 1
      [] OTHER -> 4

ASSUME MigrateAssumption == MaxCuts \in Nat /\ Settable \subseteq Fields

\* Addresses of the members of the packed structures: each follows the member
\* before it and the padding between the two.
StructV0 ==
    [mac |-> 0, version |-> 6 + 9, ip |-> 15 + 1, mask |-> 16 + 4 + 12,
     gateway |-> 32 + 4 + 12, attenuation |-> 48 + 4 + 12, eth_addr_mode |-> 64 + 4 + 12]

\* Mutant: two bytes of padding are missing.
StructV1Short ==
    [mac |-> 0, version |-> 6 + 9, ip |-> 15 + 1, mask |-> 16 + 4 + 12,
     gateway |-> 32 + 4 + 12, attenuation |-> 48 + 4 + 12, eth_addr_mode |-> 64 + 4 + 12,
     temp_ctrl_mode |-> 80 + 1, pid_ac_kc |-> 81 + 1 + 12,
     pid_ac_ti |-> 94 + 4, pid_ac_td |-> 98 + 4, pid_bd_kc |-> 102 + 4,
     pid_bd_ti |-> 106 + 4, pid_bd_td |-> 110 + 4,
     pid_ac_set_point |-> 114 + 4, pid_bd_set_point |-> 118 + 4]

StructV1 ==
    [mac |-> 0, version |-> 6 + 9, ip |-> 15 + 1, mask |-> 16 + 4 + 12,
     gateway |-> 32 + 4 + 12, attenuation |-> 48 + 4 + 12, eth_addr_mode |-> 64 + 4 + 12,
     temp_ctrl_mode |-> 80 + 1, pid_ac_kc |-> 81 + 1 + 14,
     pid_ac_ti |-> 96 + 4, pid_ac_td |-> 100 + 4, pid_bd_kc |-> 104 + 4,
     pid_bd_ti |-> 108 + 4, pid_bd_td |-> 112 + 4,
     pid_ac_set_point |-> 116 + 4, pid_bd_set_point |-> 120 + 4]

BackupCells == 0..80     \* sizeof(struct config_v0) bytes
FileCells   == 0..127

\* The member of a structure that each byte belongs to.
Owners(struct, cells) ==
    [a \in cells |->
        IF \E f \in DOMAIN struct : a \in struct[f] .. struct[f] + FieldSize(f) - 1
        THEN CHOOSE f \in DOMAIN struct : a \in struct[f] .. struct[f] + FieldSize(f) - 1
        ELSE "unused"]

OwnerV0 == Owners(StructV0, BackupCells)
OwnerV1 == Owners(StructV1, FileCells)

VARIABLES
    fram,     \* the bytes of the file
    backup,   \* the copy at the end of the FeRAM
    phase,    \* start-up: "read", "backup", "main" (writes to come), "use"
    confv0,   \* the structure read by the migration
    cuts,     \* power cuts so far
    was,      \* the file before the first start of this firmware
    typed     \* settings written one by one, with the phase

vars == <<fram, backup, phase, confv0, cuts, was, typed>>

-----------------------------------------------------------------------------
(* Values and bytes. *)

Zero  == <<"zero", 0>>
Blank == <<"blank", 0>>   \* an erased byte, 0xFF
One   == <<"one", 0>>

Encode(v, size) == [i \in 0..(size - 1) |-> IF v = "zero" THEN Zero ELSE <<v, i>>]

\* Members with the values val, in a structure of either version.
Image(struct, owner, val, unused) ==
    [a \in DOMAIN owner |-> IF owner[a] = "unused" THEN unused ELSE val[owner[a]][a - struct[owner[a]]]]

\* Member f of a struct config_v0 held in bytes.
Member(bytes, f) == [k \in 0..(FieldSize(f) - 1) |-> bytes[StructV0[f] + k]]

\* config_set_version seeks to the address mode.
SetterOffset(f) == Offset[IF f = "version" THEN "eth_addr_mode" ELSE f]

Get(f) == [k \in 0..(FieldSize(f) - 1) |-> fram[Offset[f] + k]]

Put(f, v) ==
    LET at == SetterOffset(f)
    IN  [a \in DOMAIN fram |->
            IF at <= a /\ a < at + FieldSize(f) THEN v[a - at] ELSE fram[a]]

\* A write of new over old that stops after n bytes.
Prefix(old, new, n) == [a \in DOMAIN old |-> IF a < n THEN new[a] ELSE old[a]]

\* The settings of an old file, and what a program that never saw one finds.
OldValue == [f \in Fields |-> IF f = "version" THEN Encode("zero", 1) ELSE Encode("old", FieldSize(f))]

OldFile ==
    LET v0 == Image(StructV0, OwnerV0, OldValue, Blank)
    IN  [a \in FileCells |-> IF a \in BackupCells THEN v0[a] ELSE Blank]
BlankFile == [a \in FileCells |-> IF a < 6 THEN <<"old", a>> ELSE Blank]

-----------------------------------------------------------------------------
(* config_migrate_latest. *)

Kept == {"mac", "ip", "mask", "gateway", "eth_addr_mode"}

\* Half decibels, most significant byte first, become b16_t; a b16_t that the
\* console has put there meanwhile becomes a meaningless number.
B16(bytes) == IF bytes = Encode("old", 4) THEN Encode("old_b16", 4) ELSE Encode("garbled", 4)

\* Mutant: the address mode is forgotten.
FromV0NoMode(conf) ==
    [f \in Fields |->
        IF f \in Kept \ {"eth_addr_mode"} THEN Member(conf, f)
        ELSE IF f = "attenuation" THEN B16(Member(conf, f))
        ELSE IF f = "eth_addr_mode" THEN Encode("zero", 1)
        ELSE Encode("one", FieldSize(f))]

FromV0(conf) ==
    [f \in Fields |->
        IF f \in Kept THEN Member(conf, f)
        ELSE IF f = "attenuation" THEN B16(Member(conf, f))
        ELSE IF f = "version" THEN Encode("one", 1)
        ELSE IF f = "temp_ctrl_mode" THEN Encode("one", 1)
        ELSE Encode("default", 4)]

\* Mutant: the version is left as it was.
DefaultsNoVersion(conf) ==
    [f \in Fields |->
        IF f \in {"mac", "version"} THEN Member(conf, f)
        ELSE IF f \in {"attenuation", "temp_ctrl_mode"} THEN Encode("zero", FieldSize(f))
        ELSE IF f = "eth_addr_mode" THEN Encode("one", 1)
        ELSE Encode("default", FieldSize(f))]

Defaults(conf) ==
    [f \in Fields |->
        IF f = "mac" THEN Member(conf, "mac")
        ELSE IF f \in {"attenuation", "temp_ctrl_mode"} THEN Encode("zero", FieldSize(f))
        ELSE IF f \in {"version", "eth_addr_mode"} THEN Encode("one", 1)
        ELSE Encode("default", FieldSize(f))]

IsV0(conf)    == Member(conf, "version")[0] = Zero
IsBlank(conf) == Member(conf, "version")[0] = Blank

NewFile(conf) ==
    Image(StructV1, OwnerV1, IF IsV0(conf) THEN FromV0(conf) ELSE Defaults(conf), Zero)

Init ==
    /\ was \in {"v0", "blank"}
    /\ fram = IF was = "v0" THEN OldFile ELSE BlankFile
    /\ backup = [a \in BackupCells |-> Blank]
    /\ confv0 = backup
    /\ phase = "read" /\ cuts = 0 /\ typed = {}

\* Mutant: no backup is made.
ReadNoBackup ==
    /\ phase = "read"
    /\ confv0' = [a \in BackupCells |-> fram[a]]
    /\ phase' = IF IsV0(confv0') \/ IsBlank(confv0') THEN "main" ELSE "use"
    /\ UNCHANGED <<fram, backup, cuts, was, typed>>

Read ==
    /\ phase = "read"
    /\ confv0' = [a \in BackupCells |-> fram[a]]
    /\ phase' = IF IsV0(confv0') THEN "backup" ELSE IF IsBlank(confv0') THEN "main" ELSE "use"
    /\ UNCHANGED <<fram, backup, cuts, was, typed>>

WriteBackup ==
    /\ phase = "backup" /\ phase' = "main"
    /\ backup' = confv0
    /\ UNCHANGED <<fram, confv0, cuts, was, typed>>

WriteMain ==
    /\ phase = "main" /\ phase' = "use"
    /\ fram' = NewFile(confv0)
    /\ UNCHANGED <<backup, confv0, cuts, was, typed>>

\* The board loses power, in the middle of a write if there is one.
PowerCut ==
    /\ cuts < MaxCuts /\ cuts' = cuts + 1
    /\ CASE phase = "backup" ->
              \E n \in 0..81 : backup' = Prefix(backup, confv0, n) /\ UNCHANGED fram
         [] phase = "main" ->
              \E n \in 0..128 : fram' = Prefix(fram, NewFile(confv0), n) /\ UNCHANGED backup
         [] OTHER -> UNCHANGED <<fram, backup>>
    /\ phase' = "read"
    /\ UNCHANGED <<confv0, was, typed>>

\* A setter of config_file.c, called for a client or for "rffe set ..." on the
\* console, which may come at any moment.
Set(f) ==
    /\ \A p \in typed : p[1] # f
    /\ typed' = typed \cup {<<f, phase>>}
    /\ fram' = Put(f, Encode("typed", FieldSize(f)))
    /\ UNCHANGED <<backup, phase, confv0, cuts, was>>

Next == Read \/ WriteBackup \/ WriteMain \/ PowerCut \/ \E f \in Settable : Set(f)

Spec == Init /\ [][Next]_vars

-----------------------------------------------------------------------------
(* Properties. *)

Typed == {p[1] : p \in typed}

\* Whatever power cuts do to the migration, the settings of the old file are
\* complete in one place: in the file, still marked as old, or in the backup
\* (config_file_migrate.c:87-91).
OldSettingsKept ==
    LET Holds(bytes) ==
            /\ IsV0(bytes)
            /\ \A f \in DOMAIN StructV0 : Member(bytes, f) = OldValue[f]
    IN  was = "v0" /\ Typed = {} => Holds(fram) \/ Holds(backup)

\* No power cut costs the board its address: what the old file said of the
\* network is readable at every moment, at the offsets the start-up reads.
NetworkSurvives == was = "v0" => \A f \in Kept \ Typed : Get(f) = OldValue[f]

\* "Migrate the FeRAM contents to the last format if necessary"
\* (rffe_main.c:83-85): what the start-up then reads, with the offsets of
\* config_file.c, is every setting in the new format.
\* The code does not keep this (README.md, section 5).
UsesNewFormat ==
    LET New(f) == IF was = "v0" THEN FromV0(OldFile)[f] ELSE Defaults(BlankFile)[f]
    IN  phase = "use" => \A f \in Fields \ Typed : Get(f) = New(f)

\* The packed structures that write the file and the offsets that read it agree
\* on every byte: an undisturbed migration brings every setting over.
LayoutsAgree == cuts = 0 => UsesNewFormat

\* A setting written after the start-up stays, through later restarts and
\* writes of other settings.
SettledSettingsHold ==
    \A p \in typed : p[2] = "use" => Get(p[1]) = Encode("typed", FieldSize(p[1]))

\* "Write the config file version" (config_file.h:51): after the call the file
\* has the version that was given.
\* The code does not keep this (README.md, section 5).
VersionIsWritten == "version" \in Typed => Get("version") = Encode("typed", 1)

\* "reading and writing configuration parameters from the FeRAM"
\* (rffe_main.c:117-119): a parameter written on the console is in the file.
\* The code does not keep this (README.md, section 5).
ConsoleSettingsHold == \A p \in typed : Get(p[1]) = Encode("typed", FieldSize(p[1]))
=============================================================================
