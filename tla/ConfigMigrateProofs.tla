------------------------- MODULE ConfigMigrateProofs -------------------------
(***************************************************************************)
(* What the migration of the configuration file keeps, for any number of   *)
(* power cuts and any settings written one by one.  The lemmas on the two  *)
(* layouts and on the bytes of a file come first; each of the four         *)
(* properties then has an inductive invariant of its own, all over         *)
(* Extents, which says that the files have the bytes they should have.     *)
(***************************************************************************)
EXTENDS ConfigMigrate, TLAPS

V0Fields == DOMAIN StructV0

\* The members and where they are.
LEMMA FieldNames ==
  /\ Fields = {"mac", "version", "ip", "mask", "gateway", "attenuation",
               "eth_addr_mode", "temp_ctrl_mode", "pid_ac_kc", "pid_ac_ti", "pid_ac_td",
               "pid_bd_kc", "pid_bd_ti", "pid_bd_td", "pid_ac_set_point", "pid_bd_set_point"}
  /\ V0Fields = {"mac", "version", "ip", "mask", "gateway", "attenuation", "eth_addr_mode"}
  /\ V0Fields \subseteq Fields
<1>1. Fields = {"mac", "version", "ip", "mask", "gateway", "attenuation",
               "eth_addr_mode", "temp_ctrl_mode", "pid_ac_kc", "pid_ac_ti", "pid_ac_td",
               "pid_bd_kc", "pid_bd_ti", "pid_bd_td", "pid_ac_set_point", "pid_bd_set_point"}
  BY DEF Fields, Offset
<1>2. V0Fields = {"mac", "version", "ip", "mask", "gateway", "attenuation", "eth_addr_mode"}
  BY DEF V0Fields, StructV0
<1> QED
  BY <1>1, <1>2

\* The packed structures put every member at the offset config_file.c uses.
LEMMA SameAddresses ==
  /\ \A f \in V0Fields : StructV0[f] = Offset[f]
  /\ DOMAIN StructV1 = Fields
  /\ \A f \in Fields : StructV1[f] = Offset[f]
<1>1. \A f \in V0Fields : StructV0[f] = Offset[f]
  BY FieldNames DEF StructV0, Offset
<1>2. DOMAIN StructV1 = Fields
  BY DEF StructV1, Offset, Fields
<1>3. \A f \in Fields : StructV1[f] = Offset[f]
  BY FieldNames DEF StructV1, Offset
<1> QED
  BY <1>1, <1>2, <1>3

\* Every member lies in the file, those of the old format in the backup too.
LEMMA Bounds ==
  /\ \A f \in Fields : /\ Offset[f] \in 0..124 /\ FieldSize(f) \in {1, 4, 6}
                       /\ Offset[f] + FieldSize(f) <= 128
  /\ \A f \in V0Fields : Offset[f] + FieldSize(f) <= 81
<1>1. \A f \in Fields : /\ Offset[f] \in 0..124 /\ FieldSize(f) \in {1, 4, 6}
                        /\ Offset[f] + FieldSize(f) <= 128
  BY FieldNames DEF Offset, FieldSize
<1>2. \A f \in V0Fields : Offset[f] + FieldSize(f) <= 81
  BY FieldNames DEF Offset, FieldSize
<1> QED
  BY <1>1, <1>2

\* No byte belongs to two members.
LEMMA Disjoint ==
  \A f, g \in Fields : f # g => \/ Offset[f] + FieldSize(f) <= Offset[g]
                                \/ Offset[g] + FieldSize(g) <= Offset[f]
  BY FieldNames DEF Offset, FieldSize

\* So the byte number k of a member belongs to that member alone.
LEMMA Owner ==
  ASSUME NEW f \in Fields, NEW k \in 0..(FieldSize(f) - 1)
  PROVE  /\ Offset[f] + k \in FileCells
         /\ Offset[f] + k \in DOMAIN OwnerV1 /\ OwnerV1[Offset[f] + k] = f
         /\ f \in V0Fields => /\ Offset[f] + k \in BackupCells
                              /\ Offset[f] + k \in DOMAIN OwnerV0 /\ OwnerV0[Offset[f] + k] = f
<1> DEFINE a == Offset[f] + k
<1>1. a \in FileCells /\ (f \in V0Fields => a \in BackupCells)
  BY Bounds DEF FileCells, BackupCells
<1>2. a \in Offset[f] .. Offset[f] + FieldSize(f) - 1
  BY Bounds
<1>3. ASSUME NEW g \in Fields, a \in Offset[g] .. Offset[g] + FieldSize(g) - 1
      PROVE  g = f
  <2>1. /\ Offset[f] \in Int /\ FieldSize(f) \in Int
        /\ Offset[g] \in Int /\ FieldSize(g) \in Int
    BY Bounds
  <2>2. a < Offset[g] + FieldSize(g) /\ Offset[g] <= a /\ a < Offset[f] + FieldSize(f) /\ Offset[f] <= a
    BY <1>2, <1>3, <2>1
  <2> HIDE DEF a
  <2>3. ~(Offset[f] + FieldSize(f) <= Offset[g] \/ Offset[g] + FieldSize(g) <= Offset[f])
    BY <2>1, <2>2, <1>2
  <2> QED
    BY <2>3, Disjoint
<1>4. DOMAIN OwnerV1 = FileCells /\ DOMAIN OwnerV0 = BackupCells
  BY DEF OwnerV1, OwnerV0, Owners
<1>5. OwnerV1[a] = f
  <2>1. f \in DOMAIN StructV1 /\ a \in StructV1[f] .. StructV1[f] + FieldSize(f) - 1
    BY <1>2, SameAddresses
  <2>2. \A g \in DOMAIN StructV1 : a \in StructV1[g] .. StructV1[g] + FieldSize(g) - 1 => g = f
    BY <1>3, SameAddresses
  <2>3. OwnerV1[a] = CHOOSE g \in DOMAIN StructV1 : a \in StructV1[g] .. StructV1[g] + FieldSize(g) - 1
    BY <2>1, <1>1 DEF OwnerV1, Owners
  <2> HIDE DEF a
  <2> QED
    BY <2>1, <2>2, <2>3
<1>6. ASSUME f \in V0Fields
      PROVE  OwnerV0[a] = f
  <2>1. f \in DOMAIN StructV0 /\ a \in StructV0[f] .. StructV0[f] + FieldSize(f) - 1
    BY <1>2, <1>6, SameAddresses DEF V0Fields
  <2>2. \A g \in DOMAIN StructV0 : a \in StructV0[g] .. StructV0[g] + FieldSize(g) - 1 => g = f
    BY <1>3, SameAddresses, FieldNames DEF V0Fields
  <2>3. OwnerV0[a] = CHOOSE g \in DOMAIN StructV0 : a \in StructV0[g] .. StructV0[g] + FieldSize(g) - 1
    BY <2>1, <1>1, <1>6 DEF OwnerV0, Owners
  <2> HIDE DEF a
  <2> QED
    BY <2>1, <2>2, <2>3
<1> QED
  BY <1>1, <1>4, <1>5, <1>6

\* A structure written to the file is found, member by member and byte by byte,
\* at the offsets of config_file.c.
LEMMA ImageBytes ==
  ASSUME NEW val, NEW unused, NEW f \in Fields, NEW k \in 0..(FieldSize(f) - 1)
  PROVE  /\ Image(StructV1, OwnerV1, val, unused)[Offset[f] + k] = val[f][k]
         /\ f \in V0Fields => Image(StructV0, OwnerV0, val, unused)[Offset[f] + k] = val[f][k]
<1>1. f # "unused"
  BY FieldNames
<1>2. (Offset[f] + k) - Offset[f] = k
  BY Bounds
<1>3. Image(StructV1, OwnerV1, val, unused)[Offset[f] + k] = val[f][k]
  BY <1>1, <1>2, Owner, SameAddresses DEF Image
<1>4. f \in V0Fields => Image(StructV0, OwnerV0, val, unused)[Offset[f] + k] = val[f][k]
  BY <1>1, <1>2, Owner, SameAddresses DEF Image
<1> QED
  BY <1>3, <1>4

\* The domains of what the writes write.
LEMMA Domains ==
  /\ \A val, unused : DOMAIN Image(StructV1, OwnerV1, val, unused) = FileCells
  /\ \A conf : DOMAIN NewFile(conf) = FileCells
  /\ DOMAIN OldFile = FileCells /\ DOMAIN BlankFile = FileCells
<1>1. DOMAIN OwnerV1 = FileCells
  BY DEF OwnerV1, Owners
<1>2. \A val, unused : DOMAIN Image(StructV1, OwnerV1, val, unused) = FileCells
  BY <1>1 DEF Image
<1> QED
  BY <1>2 DEF NewFile, OldFile, BlankFile

-----------------------------------------------------------------------------
(* The inductive invariants.                                               *)

\* The file and the structures are as long as they are, whatever is written.
Extents ==
  /\ DOMAIN fram = FileCells /\ DOMAIN backup = BackupCells /\ DOMAIN confv0 = BackupCells
  /\ was \in {"v0", "blank"} /\ cuts \in Nat
  /\ \A p \in typed : p = <<p[1], p[2]>> /\ p[1] \in Settable

\* An old file, complete.
Holds(bytes) == IsV0(bytes) /\ \A f \in DOMAIN StructV0 : Member(bytes, f) = OldValue[f]

\* While the file is being migrated the copy in memory is the old file; once the
\* file may be torn, with the version of the new format, so is the backup.
OldInv ==
  was = "v0" /\ typed = {} =>
    /\ Holds(fram) \/ (Holds(backup) /\ fram[15] = One)
    /\ phase \in {"backup", "main"} => Holds(confv0) /\ Holds(fram)
    /\ phase = "main" => Holds(backup)

\* What is kept of an old file is in the file and in the copy being migrated.
NetInv ==
  was = "v0" =>
    /\ fram[15] \in {Zero, One}
    /\ \A f \in Kept \ Typed : Get(f) = OldValue[f]
    /\ phase \in {"backup", "main"} =>
         confv0[15] = Zero /\ \A f \in Kept \ Typed : Member(confv0, f) = OldValue[f]

\* Once the start-up has got past the migration the file is never migrated again.
SettledInv ==
  /\ (phase = "use" \/ \E p \in typed : p[2] = "use") =>
        fram[15] \notin {Zero, Blank} /\ phase \in {"read", "use"}
  /\ SettledSettingsHold

\* Without power cuts the migration reads the first file, and leaves the new one.
Original == IF was = "v0" THEN OldFile ELSE BlankFile

LayoutInv ==
  cuts = 0 =>
    /\ phase \in {"read", "backup", "main", "use"}
    /\ phase = "read" => \A f \in DOMAIN StructV0 \ Typed : Member(fram, f) = Member(Original, f)
    /\ phase \in {"backup", "main"} =>
         \A f \in DOMAIN StructV0 \ Typed : Member(confv0, f) = Member(Original, f)
    /\ UsesNewFormat

-----------------------------------------------------------------------------
(* Bytes of the values written.                                            *)

LEMMA Bytes ==
  /\ \A v, size : Encode(v, size) = [i \in 0..(size - 1) |-> Encode(v, size)[i]]
  /\ Encode("zero", 1)[0] = Zero /\ Encode("one", 1)[0] = One
  /\ Zero # One /\ Zero # Blank /\ One # Blank
<1>1. \A v, size : Encode(v, size) = [i \in 0..(size - 1) |-> Encode(v, size)[i]]
  BY DEF Encode
<1>2. 0 \in 0..(1 - 1)
  OBVIOUS
<1>3. Encode("zero", 1)[0] = Zero /\ Encode("one", 1)[0] = One
  BY <1>2 DEF Encode, Zero, One
<1>4. Zero # One /\ Zero # Blank /\ One # Blank
  BY DEF Zero, One, Blank
<1> QED
  BY <1>1, <1>3, <1>4

\* Every value of a new file is a function on the bytes of its member.
Values(conf) == IF IsV0(conf) THEN FromV0(conf) ELSE Defaults(conf)

LEMMA NewFileBytes ==
  ASSUME NEW conf, NEW f \in Fields, NEW k \in 0..(FieldSize(f) - 1)
  PROVE  NewFile(conf)[Offset[f] + k] = Values(conf)[f][k]
BY ImageBytes DEF NewFile, Values

LEMMA VersionByte ==
  /\ "version" \in Fields /\ "version" \in DOMAIN StructV0
  /\ Offset["version"] = 15 /\ FieldSize("version") = 1 /\ 15 \in FileCells /\ 15 \in BackupCells
  /\ \A bytes : Member(bytes, "version") = [k \in 0..0 |-> bytes[15 + k]]
  /\ \A bytes : Member(bytes, "version")[0] = bytes[15]
<1>1. "version" \in Fields /\ "version" \in DOMAIN StructV0
  BY FieldNames DEF V0Fields
<1>2. Offset["version"] = 15 /\ FieldSize("version") = 1 /\ StructV0["version"] = 15
  BY DEF Offset, FieldSize, StructV0
<1>3. \A bytes : Member(bytes, "version") = [k \in 0..0 |-> bytes[15 + k]]
  BY <1>2 DEF Member
<1>4. \A bytes : Member(bytes, "version")[0] = bytes[15]
  BY <1>3
<1> QED
  BY <1>1, <1>2, <1>3, <1>4 DEF FileCells, BackupCells

\* A complete new file has the new version.
LEMMA NewVersion ==
  ASSUME NEW conf
  PROVE  NewFile(conf)[15] = One
<1>1. Values(conf)["version"] = Encode("one", 1)
  <2>1. FromV0(conf)["version"] = Encode("one", 1)
    BY VersionByte DEF FromV0, Kept
  <2>2. Defaults(conf)["version"] = Encode("one", 1)
    BY VersionByte DEF Defaults
  <2> QED
    BY <2>1, <2>2 DEF Values
<1>2. NewFile(conf)[Offset["version"] + 0] = Values(conf)["version"][0]
  BY NewFileBytes, VersionByte
<1> QED
  BY <1>1, <1>2, VersionByte, Bytes

\* The settings that are kept go over unchanged, and so does the MAC address of
\* a file of either kind.
LEMMA NewKept ==
  ASSUME NEW conf, NEW f \in Kept, IsV0(conf) \/ f = "mac", NEW k \in 0..(FieldSize(f) - 1)
  PROVE  NewFile(conf)[Offset[f] + k] = conf[Offset[f] + k]
<1>1. f \in Fields /\ f \in V0Fields
  BY FieldNames DEF Kept
<1>2. Values(conf)[f] = Member(conf, f)
  BY <1>1 DEF Values, FromV0, Defaults, Kept
<1>3. Member(conf, f)[k] = conf[Offset[f] + k]
  BY <1>1, SameAddresses DEF Member
<1> QED
  BY <1>1, <1>2, <1>3, NewFileBytes

\* The member a setter writes to.
Target(f) == IF f = "version" THEN "eth_addr_mode" ELSE f

\* A setter changes its member only, and all of it.
LEMMA PutBytes ==
  ASSUME DOMAIN fram = FileCells, NEW f \in Fields, NEW v,
         NEW g \in Fields, NEW k \in 0..(FieldSize(g) - 1)
  PROVE  Put(f, v)[Offset[g] + k] = IF g = Target(f) THEN v[k] ELSE fram[Offset[g] + k]
<1>1. Target(f) \in Fields /\ FieldSize(Target(f)) = FieldSize(f) /\ SetterOffset(f) = Offset[Target(f)]
  BY FieldNames DEF Target, FieldSize, SetterOffset
<1>2. Offset[g] + k \in FileCells
  BY Owner
<1>3. Offset[g] \in Int /\ FieldSize(g) \in Int /\ Offset[Target(f)] \in Int /\ FieldSize(f) \in Int
  BY <1>1, Bounds
<1>4. CASE g = Target(f)
  BY <1>1, <1>2, <1>3, <1>4 DEF Put
<1>5. CASE g # Target(f)
  <2>1. ~(Offset[Target(f)] <= Offset[g] + k /\ Offset[g] + k < Offset[Target(f)] + FieldSize(f))
    BY <1>1, <1>3, <1>5, Disjoint
  <2> QED
    BY <1>1, <1>2, <1>5, <2>1 DEF Put
<1> QED
  BY <1>4, <1>5

-----------------------------------------------------------------------------
(* What a step does to a member.                                           *)

LEMMA InitExtents ==
  ASSUME Init
  PROVE  Extents
<1>1. DOMAIN fram = FileCells
  BY Domains DEF Init
<1>2. DOMAIN backup = BackupCells /\ confv0 = backup /\ typed = {} /\ cuts = 0 /\ was \in {"v0", "blank"}
  BY DEF Init
<1> QED
  BY <1>1, <1>2 DEF Extents

LEMMA NextExtents ==
  ASSUME Extents, [Next]_vars
  PROVE  Extents'
<1> USE DEF Extents
<1>1. CASE Read
  BY <1>1 DEF Read
<1>2. CASE WriteBackup
  BY <1>2 DEF WriteBackup
<1>3. CASE WriteMain
  BY <1>3, Domains DEF WriteMain
<1>4. CASE PowerCut
  <2>1. cuts' \in Nat /\ UNCHANGED <<confv0, was, typed>>
    BY <1>4 DEF PowerCut
  <2>2. DOMAIN fram' = DOMAIN fram /\ DOMAIN backup' = DOMAIN backup
    BY <1>4 DEF PowerCut, Prefix
  <2> QED
    BY <2>1, <2>2
<1>5. ASSUME NEW f \in Settable, Set(f)
      PROVE  Extents'
  BY <1>5 DEF Set, Put
<1>6. CASE UNCHANGED vars
  BY <1>6 DEF vars
<1> QED
  BY <1>1, <1>2, <1>3, <1>4, <1>5, <1>6 DEF Next

\* A setter leaves the other members alone, the version always.
LEMMA SetLeaves ==
  ASSUME Extents, NEW f \in Settable, Set(f)
  PROVE  /\ \A g \in Fields \ {Target(f)} : Get(g)' = Get(g)
         /\ \A g \in DOMAIN StructV0 \ {Target(f)} : Member(fram', g) = Member(fram, g)
         /\ fram'[15] = fram[15]
         /\ f # "version" => Get(f)' = Encode("typed", FieldSize(f))
         /\ Typed' = Typed \cup {f} /\ f \notin Typed
<1>1. f \in Fields
  BY MigrateAssumption
<1>2. fram' = Put(f, Encode("typed", FieldSize(f)))
  BY DEF Set
<1>3. \A g \in Fields : \A k \in 0..(FieldSize(g) - 1) :
        fram'[Offset[g] + k] = IF g = Target(f) THEN Encode("typed", FieldSize(f))[k] ELSE fram[Offset[g] + k]
  BY <1>1, <1>2, PutBytes DEF Extents
<1>4. \A g \in Fields \ {Target(f)} : Get(g)' = Get(g)
  BY <1>3 DEF Get
<1>5. \A g \in DOMAIN StructV0 \ {Target(f)} : Member(fram', g) = Member(fram, g)
  BY <1>3, SameAddresses, FieldNames DEF Member, V0Fields
<1>6. fram'[15] = fram[15]
  BY <1>5, VersionByte DEF Target
<1>7. ASSUME f # "version"
      PROVE  Get(f)' = Encode("typed", FieldSize(f))
  <2>1. \A k \in 0..(FieldSize(f) - 1) : fram'[Offset[f] + k] = Encode("typed", FieldSize(f))[k]
    BY <1>1, <1>3, <1>7 DEF Target
  <2>2. Get(f)' = [k \in 0..(FieldSize(f) - 1) |-> Encode("typed", FieldSize(f))[k]]
    BY <2>1 DEF Get
  <2> QED
    BY <2>2, Bytes
<1>8. Typed' = Typed \cup {f} /\ f \notin Typed
  <2>1. typed' = typed \cup {<<f, phase>>} /\ \A p \in typed : p[1] # f
    BY DEF Set
  <2>2. f \notin Typed
    BY <2>1 DEF Typed
  <2>3. <<f, phase>>[1] = f
    OBVIOUS
  <2>4. ASSUME NEW x
        PROVE  x \in Typed' <=> x \in Typed \cup {f}
    <3>1. x \in Typed' <=> \E p \in typed' : x = p[1]
      BY DEF Typed
    <3>2. (\E p \in typed' : x = p[1]) <=> (\E p \in typed : x = p[1]) \/ x = <<f, phase>>[1]
      BY <2>1, Zenon
    <3>3. x \in Typed <=> \E p \in typed : x = p[1]
      BY DEF Typed
    <3> QED
      BY <2>3, <3>1, <3>2, <3>3
  <2> QED
    BY <2>2, <2>4
<1> QED
  BY <1>4, <1>5, <1>6, <1>7, <1>8

LEMMA GetMember ==
  ASSUME NEW f \in DOMAIN StructV0
  PROVE  Get(f) = Member(fram, f)
BY SameAddresses DEF Get, Member, V0Fields

\* What has been read into memory is the file's members.
LEMMA ReadMembers ==
  ASSUME NEW f \in DOMAIN StructV0, NEW bytes
  PROVE  Member([a \in BackupCells |-> bytes[a]], f) = Member(bytes, f)
<1>1. \A k \in 0..(FieldSize(f) - 1) : Offset[f] + k \in BackupCells
  BY Owner, FieldNames DEF V0Fields
<1>2. StructV0[f] = Offset[f]
  BY SameAddresses DEF V0Fields
<1> QED
  BY <1>1, <1>2 DEF Member

\* The values of an old file, byte by byte.
LEMMA OldValues ==
  /\ OldValue["version"] = Encode("zero", 1)
  /\ \A f \in Fields : OldValue[f] = [k \in 0..(FieldSize(f) - 1) |-> OldValue[f][k]]
<1>1. OldValue["version"] = Encode("zero", 1)
  BY VersionByte DEF OldValue
<1>2. \A f \in Fields : OldValue[f] = [k \in 0..(FieldSize(f) - 1) |-> OldValue[f][k]]
  <2> TAKE f \in Fields
  <2>1. OldValue[f] = IF f = "version" THEN Encode("zero", 1) ELSE Encode("old", FieldSize(f))
    BY DEF OldValue
  <2>2. CASE f = "version"
    BY <2>1, <2>2, Bytes, VersionByte
  <2>3. CASE f # "version"
    BY <2>1, <2>3, Bytes
  <2> QED
    BY <2>2, <2>3
<1> QED
  BY <1>1, <1>2

\* A member is the old one when each of its bytes is.
LEMMA MemberIsOld ==
  ASSUME NEW bytes, NEW f \in DOMAIN StructV0
  PROVE  Member(bytes, f) = OldValue[f]
           <=> \A k \in 0..(FieldSize(f) - 1) : bytes[Offset[f] + k] = OldValue[f][k]
<1>1. StructV0[f] = Offset[f] /\ f \in Fields
  BY SameAddresses, FieldNames DEF V0Fields
<1>2. ASSUME Member(bytes, f) = OldValue[f], NEW k \in 0..(FieldSize(f) - 1)
      PROVE  bytes[Offset[f] + k] = OldValue[f][k]
  <2>1. Member(bytes, f)[k] = bytes[Offset[f] + k]
    BY <1>1 DEF Member
  <2> QED
    BY <1>2, <2>1
<1>3. ASSUME \A k \in 0..(FieldSize(f) - 1) : bytes[Offset[f] + k] = OldValue[f][k]
      PROVE  Member(bytes, f) = OldValue[f]
  <2>1. Member(bytes, f) = [k \in 0..(FieldSize(f) - 1) |-> OldValue[f][k]]
    BY <1>1, <1>3 DEF Member
  <2> QED
    BY <1>1, <2>1, OldValues
<1> QED
  BY <1>2, <1>3

\* A file of the previous firmware.
LEMMA OldFileHolds ==
  /\ \A f \in DOMAIN StructV0 : Member(OldFile, f) = OldValue[f]
  /\ Holds(OldFile) /\ OldFile[15] = Zero
<1>1. \A f \in DOMAIN StructV0 : Member(OldFile, f) = OldValue[f]
  <2> TAKE f \in DOMAIN StructV0
  <2>1. f \in Fields /\ f \in V0Fields
    BY FieldNames DEF V0Fields
  <2>2. ASSUME NEW k \in 0..(FieldSize(f) - 1)
        PROVE  OldFile[Offset[f] + k] = OldValue[f][k]
    <3>1. Offset[f] + k \in FileCells /\ Offset[f] + k \in BackupCells
      BY <2>1, Owner
    <3>2. OldFile[Offset[f] + k] = Image(StructV0, OwnerV0, OldValue, Blank)[Offset[f] + k]
      BY <3>1 DEF OldFile
    <3>3. Image(StructV0, OwnerV0, OldValue, Blank)[Offset[f] + k] = OldValue[f][k]
      BY <2>1, ImageBytes
    <3> QED
      BY <3>2, <3>3
  <2>3. \A k \in 0..(FieldSize(f) - 1) : OldFile[Offset[f] + k] = OldValue[f][k]
    BY <2>2
  <2> QED
    BY <2>3, MemberIsOld
<1>2. OldFile[15] = Zero
  BY <1>1, OldValues, VersionByte, Bytes
<1>3. Holds(OldFile)
  BY <1>1, <1>2, VersionByte DEF Holds, IsV0
<1> QED
  BY <1>1, <1>2, <1>3

\* What a power cut leaves of a member: a byte is the old one or the new one.
LEMMA CutBytes ==
  ASSUME Extents, PowerCut, phase = "main"
  PROVE  \E n \in 0..128 : \A a \in FileCells :
            fram'[a] = IF a < n THEN NewFile(confv0)[a] ELSE fram[a]
<1>1. PICK n \in 0..128 : fram' = Prefix(fram, NewFile(confv0), n)
  BY DEF PowerCut
<1> QED
  BY <1>1 DEF Prefix, Extents

LEMMA CutElsewhere ==
  ASSUME PowerCut, phase # "main"
  PROVE  UNCHANGED fram
BY DEF PowerCut

-----------------------------------------------------------------------------
(* No power cut costs the board its address.                               *)

LEMMA InitNet ==
  ASSUME Init
  PROVE  NetInv
<1> SUFFICES ASSUME was = "v0" PROVE NetInv
  BY DEF NetInv
<1>1. fram = OldFile /\ phase = "read"
  BY DEF Init
<1>2. \A f \in Kept : Get(f) = OldValue[f]
  BY <1>1, OldFileHolds, GetMember, FieldNames DEF Kept, V0Fields
<1> QED
  BY <1>1, <1>2, OldFileHolds DEF NetInv

LEMMA NextNet ==
  ASSUME "version" \notin Settable, Extents, NetInv, [Next]_vars
  PROVE  NetInv'
<1> SUFFICES ASSUME was' = "v0" PROVE NetInv'
  BY DEF NetInv
<1>1. was = "v0"
  BY DEF Next, Read, WriteBackup, WriteMain, PowerCut, Set, vars
<1> DEFINE OldHere(bytes, T) == \A f \in Kept \ T : Member(bytes, f) = OldValue[f]
<1>2. \A f \in Kept : f \in DOMAIN StructV0 /\ f \in Fields /\ Get(f) = Member(fram, f)
  BY GetMember, FieldNames DEF Kept, V0Fields
<1>3. \A f \in Kept : Get(f)' = Member(fram', f)
  BY SameAddresses, FieldNames DEF Get, Member, V0Fields, Kept
<1>4. /\ fram[15] \in {Zero, One} /\ OldHere(fram, Typed)
      /\ phase \in {"backup", "main"} => confv0[15] = Zero /\ OldHere(confv0, Typed)
  BY <1>1, <1>2 DEF NetInv
<1>5. SUFFICES /\ fram'[15] \in {Zero, One} /\ OldHere(fram', Typed')
               /\ phase' \in {"backup", "main"} => confv0'[15] = Zero /\ OldHere(confv0', Typed')
  BY <1>3 DEF NetInv
<1>6. CASE Read
  <2>1. UNCHANGED <<fram, typed>> /\ confv0' = [a \in BackupCells |-> fram[a]]
    BY <1>6 DEF Read
  <2>2. OldHere(confv0', Typed')
    BY <1>2, <1>4, <2>1, ReadMembers DEF Typed
  <2>3. confv0'[15] = fram[15]
    BY <2>1, VersionByte
  <2>4. phase' \in {"backup", "main"} => fram[15] \in {Zero, Blank}
    BY <1>6, <2>3, VersionByte DEF Read, IsV0, IsBlank
  <2> QED
    BY <1>4, <2>1, <2>2, <2>3, <2>4, Bytes DEF Typed
<1>7. CASE WriteBackup
  BY <1>4, <1>7 DEF WriteBackup, Typed
<1>8. CASE WriteMain
  <2>1. fram' = NewFile(confv0) /\ phase = "main" /\ phase' = "use" /\ UNCHANGED typed
    BY <1>8 DEF WriteMain
  <2>2. IsV0(confv0)
    BY <1>4, <2>1, VersionByte DEF IsV0
  <2>3. ASSUME NEW f \in Kept \ Typed
        PROVE  Member(fram', f) = OldValue[f]
    <3>1. \A k \in 0..(FieldSize(f) - 1) : fram'[Offset[f] + k] = OldValue[f][k]
      BY <1>2, <1>4, <2>1, <2>2, MemberIsOld, NewKept
    <3> QED
      BY <1>2, <3>1, MemberIsOld
  <2> QED
    BY <2>1, <2>3, NewVersion DEF Typed
<1>9. CASE PowerCut
  <2>1. phase' = "read" /\ UNCHANGED typed
    BY <1>9 DEF PowerCut
  <2>2. CASE phase # "main"
    BY <1>4, <1>9, <2>1, <2>2, CutElsewhere DEF Typed
  <2>3. CASE phase = "main"
    <3>1. PICK n \in 0..128 : \A a \in FileCells :
             fram'[a] = IF a < n THEN NewFile(confv0)[a] ELSE fram[a]
      BY <1>9, <2>3, CutBytes
    <3>2. IsV0(confv0)
      BY <1>4, <2>3, VersionByte DEF IsV0
    <3>3. ASSUME NEW f \in Kept \ Typed
          PROVE  Member(fram', f) = OldValue[f]
      <4>1. ASSUME NEW k \in 0..(FieldSize(f) - 1)
            PROVE  fram'[Offset[f] + k] = OldValue[f][k]
        <5>1. Offset[f] + k \in FileCells
          BY <1>2, Owner
        <5>2. NewFile(confv0)[Offset[f] + k] = OldValue[f][k]
          BY <1>2, <1>4, <2>3, <3>2, MemberIsOld, NewKept
        <5>3. fram[Offset[f] + k] = OldValue[f][k]
          BY <1>2, <1>4, MemberIsOld
        <5> QED
          BY <3>1, <5>1, <5>2, <5>3
      <4> QED
        BY <1>2, <4>1, MemberIsOld
    <3>4. fram'[15] \in {Zero, One}
      BY <1>4, <3>1, VersionByte, NewVersion
    <3> QED
      BY <2>1, <3>3, <3>4 DEF Typed
  <2> QED
    BY <2>2, <2>3
<1>10. ASSUME NEW g \in Settable, Set(g)
       PROVE  /\ fram'[15] \in {Zero, One} /\ OldHere(fram', Typed')
              /\ phase' \in {"backup", "main"} => confv0'[15] = Zero /\ OldHere(confv0', Typed')
  <2>1. Target(g) = g /\ Typed' = Typed \cup {g} /\ UNCHANGED <<phase, confv0>>
    BY <1>10, SetLeaves DEF Target, Set
  <2>2. \A f \in DOMAIN StructV0 \ {g} : Member(fram', f) = Member(fram, f)
    BY <1>10, <2>1, SetLeaves
  <2>3. fram'[15] = fram[15]
    BY <1>10, SetLeaves
  <2> QED
    BY <1>2, <1>4, <2>1, <2>2, <2>3
<1>11. CASE UNCHANGED vars
  BY <1>4, <1>11 DEF vars, Typed
<1> QED
  BY <1>6, <1>7, <1>8, <1>9, <1>10, <1>11 DEF Next

\* The network settings of an old file survive any number of power cuts, and any
\* settings written meanwhile: config_set_version, which nothing calls, excepted.
THEOREM AddressSurvives ==
  ASSUME "version" \notin Settable
  PROVE  Spec => []NetworkSurvives
<1>1. Init => Extents /\ NetInv
  BY InitExtents, InitNet
<1>2. Extents /\ NetInv /\ [Next]_vars => (Extents /\ NetInv)'
  BY NextExtents, NextNet
<1>3. NetInv => NetworkSurvives
  BY DEF NetInv, NetworkSurvives
<1> QED
  BY <1>1, <1>2, <1>3, PTL DEF Spec

-----------------------------------------------------------------------------
(* A setting written after the start-up stays.                             *)

LEMMA InitSettled ==
  ASSUME Init
  PROVE  SettledInv
BY DEF Init, SettledInv, SettledSettingsHold

LEMMA NextSettled ==
  ASSUME "version" \notin Settable, Extents, SettledInv, [Next]_vars
  PROVE  SettledInv'
<1> DEFINE Settled == \E p \in typed : p[2] = "use"
<1>1. /\ (phase = "use" \/ Settled) => fram[15] \notin {Zero, Blank} /\ phase \in {"read", "use"}
      /\ \A p \in typed : p[2] = "use" => Get(p[1]) = Encode("typed", FieldSize(p[1]))
  BY DEF SettledInv, SettledSettingsHold
<1>2. ASSUME UNCHANGED <<fram, typed>>
      PROVE  \A p \in typed' : p[2] = "use" => Get(p[1])' = Encode("typed", FieldSize(p[1]))
  BY <1>1, <1>2 DEF Get
<1>3. CASE Read
  <2>1. UNCHANGED <<fram, typed>> /\ phase = "read" /\ confv0'[15] = fram[15]
    BY <1>3, VersionByte DEF Read
  <2>2. phase' = IF fram[15] = Zero THEN "backup" ELSE IF fram[15] = Blank THEN "main" ELSE "use"
    BY <1>3, <2>1, VersionByte DEF Read, IsV0, IsBlank
  <2> QED
    BY <1>1, <1>2, <2>1, <2>2 DEF SettledInv, SettledSettingsHold
<1>4. CASE WriteBackup
  <2>1. UNCHANGED <<fram, typed>> /\ phase = "backup" /\ phase' = "main"
    BY <1>4 DEF WriteBackup
  <2> QED
    BY <1>1, <1>2, <2>1 DEF SettledInv, SettledSettingsHold
<1>5. CASE WriteMain
  <2>1. UNCHANGED typed /\ phase = "main" /\ phase' = "use" /\ fram'[15] = One
    BY <1>5, NewVersion DEF WriteMain
  <2> QED
    BY <1>1, <2>1, Bytes DEF SettledInv, SettledSettingsHold
<1>6. CASE PowerCut
  <2>1. UNCHANGED typed /\ phase' = "read"
    BY <1>6 DEF PowerCut
  <2>2. CASE phase = "main"
    BY <1>1, <2>1, <2>2 DEF SettledInv, SettledSettingsHold
  <2>3. CASE phase # "main"
    <3>1. UNCHANGED fram
      BY <1>6, <2>3, CutElsewhere
    <3> QED
      BY <1>1, <1>2, <2>1, <3>1 DEF SettledInv, SettledSettingsHold
  <2> QED
    BY <2>2, <2>3
<1>7. ASSUME NEW g \in Settable, Set(g)
      PROVE  SettledInv'
  <2>1. /\ typed' = typed \cup {<<g, phase>>} /\ UNCHANGED phase
        /\ \A p \in typed : p[1] # g
    BY <1>7 DEF Set
  <2>2. /\ \A h \in Fields \ {g} : Get(h)' = Get(h)
        /\ fram'[15] = fram[15] /\ Get(g)' = Encode("typed", FieldSize(g))
    BY <1>7, SetLeaves DEF Target
  <2>3. \A p \in typed : p[1] \in Fields
    BY MigrateAssumption DEF Extents
  <2>4. ASSUME NEW p \in typed', p[2] = "use"
        PROVE  Get(p[1])' = Encode("typed", FieldSize(p[1]))
    <3>1. CASE p \in typed
      BY <1>1, <2>1, <2>2, <2>3, <2>4, <3>1
    <3>2. CASE p = <<g, phase>>
      <4>1. p[1] = g
        BY <3>2
      <4> QED
        BY <2>2, <4>1
    <3> QED
      BY <2>1, <3>1, <3>2
  <2>5. ASSUME phase' = "use" \/ \E p \in typed' : p[2] = "use"
        PROVE  phase = "use" \/ Settled
    <3>1. <<g, phase>>[2] = phase
      OBVIOUS
    <3> QED
      BY <2>1, <2>5, <3>1
  <2> HIDE DEF Settled
  <2>6. phase' = "use" \/ (\E p \in typed' : p[2] = "use")
          => fram'[15] \notin {Zero, Blank} /\ phase' \in {"read", "use"}
    BY <1>1, <2>1, <2>2, <2>5
  <2>7. SettledSettingsHold'
    BY <2>4 DEF SettledSettingsHold
  <2> QED
    BY <2>6, <2>7 DEF SettledInv
<1>8. CASE UNCHANGED vars
  BY <1>1, <1>2, <1>8 DEF vars, SettledInv, SettledSettingsHold
<1> QED
  BY <1>3, <1>4, <1>5, <1>6, <1>7, <1>8 DEF Next

\* What a client or the console sets after the start-up is there after any later
\* restart, power cut or write of another setting.
THEOREM SettledSettingsStay ==
  ASSUME "version" \notin Settable
  PROVE  Spec => []SettledSettingsHold
<1>1. Init => Extents /\ SettledInv
  BY InitExtents, InitSettled
<1>2. Extents /\ SettledInv /\ [Next]_vars => (Extents /\ SettledInv)'
  BY NextExtents, NextSettled
<1>3. SettledInv => SettledSettingsHold
  BY DEF SettledInv
<1> QED
  BY <1>1, <1>2, <1>3, PTL DEF Spec

-----------------------------------------------------------------------------
(* The old settings are complete in one place.                             *)

LEMMA InitOld ==
  ASSUME Init
  PROVE  OldInv
BY OldFileHolds DEF Init, OldInv

LEMMA NextOld ==
  ASSUME Extents, OldInv, [Next]_vars
  PROVE  OldInv'
<1> SUFFICES ASSUME was' = "v0", typed' = {}
             PROVE  OldInv'
  BY DEF OldInv
<1>1. was = "v0" /\ typed = {} /\ \A f \in Settable : ~Set(f)
  BY DEF Next, Read, WriteBackup, WriteMain, PowerCut, Set, vars
<1>2. /\ Holds(fram) \/ (Holds(backup) /\ fram[15] = One)
      /\ phase \in {"backup", "main"} => Holds(confv0) /\ Holds(fram)
      /\ phase = "main" => Holds(backup)
  BY <1>1 DEF OldInv
<1>3. \A bytes : Holds(bytes) => bytes[15] = Zero
  BY VersionByte DEF Holds, IsV0
<1>4. CASE Read
  <2>1. UNCHANGED <<fram, backup>> /\ confv0' = [a \in BackupCells |-> fram[a]] /\ confv0'[15] = fram[15]
    BY <1>4, VersionByte DEF Read
  <2>2. phase' = IF fram[15] = Zero THEN "backup" ELSE IF fram[15] = Blank THEN "main" ELSE "use"
    BY <1>4, <2>1, VersionByte DEF Read, IsV0, IsBlank
  <2>3. Holds(fram) => Holds(confv0')
    BY <2>1, ReadMembers, VersionByte DEF Holds, IsV0
  <2> QED
    BY <1>2, <1>3, <2>1, <2>2, <2>3, Bytes DEF OldInv
<1>5. CASE WriteBackup
  <2>1. backup' = confv0 /\ UNCHANGED <<fram, confv0>> /\ phase = "backup" /\ phase' = "main"
    BY <1>5 DEF WriteBackup
  <2> QED
    BY <1>2, <2>1 DEF OldInv
<1>6. CASE WriteMain
  <2>1. UNCHANGED <<backup, confv0>> /\ phase = "main" /\ phase' = "use" /\ fram'[15] = One
    BY <1>6, NewVersion DEF WriteMain
  <2> QED
    BY <1>2, <2>1 DEF OldInv
<1>7. CASE PowerCut
  <2>1. phase' = "read"
    BY <1>7 DEF PowerCut
  <2>2. CASE phase = "main"
    <3>1. PICK n \in 0..128 : \A a \in FileCells :
             fram'[a] = IF a < n THEN NewFile(confv0)[a] ELSE fram[a]
      BY <1>7, <2>2, CutBytes
    <3>2. UNCHANGED backup
      BY <1>7, <2>2 DEF PowerCut
    <3>3. CASE n > 15
      <4>1. fram'[15] = One
        BY <3>1, <3>3, VersionByte, NewVersion
      <4> QED
        BY <1>2, <2>1, <2>2, <3>2, <4>1 DEF OldInv
    <3>4. CASE n <= 15
      <4>1. ASSUME NEW f \in DOMAIN StructV0
            PROVE  Member(fram', f) = OldValue[f]
        <5>1. f \in Fields /\ \A k \in 0..(FieldSize(f) - 1) : Offset[f] + k \in FileCells
          BY Owner, FieldNames DEF V0Fields
        <5>2. Member(fram, f) = OldValue[f] /\ Member(confv0, f) = OldValue[f]
          BY <1>2, <2>2 DEF Holds
        <5>3. CASE f = "mac"
          <6>1. "mac" \in Kept
            BY DEF Kept
          <6>2. \A k \in 0..(FieldSize(f) - 1) : NewFile(confv0)[Offset[f] + k] = OldValue[f][k]
            BY <5>2, <5>3, <6>1, NewKept, MemberIsOld
          <6>3. \A k \in 0..(FieldSize(f) - 1) : fram[Offset[f] + k] = OldValue[f][k]
            BY <5>2, MemberIsOld
          <6>4. \A k \in 0..(FieldSize(f) - 1) : fram'[Offset[f] + k] = OldValue[f][k]
            BY <3>1, <5>1, <6>2, <6>3
          <6> QED
            BY <6>4, MemberIsOld
        <5>4. CASE f # "mac"
          <6>1. Offset[f] >= 15
            BY <5>4, FieldNames DEF V0Fields, Offset
          <6>2. \A k \in 0..(FieldSize(f) - 1) : ~(Offset[f] + k < n)
            BY <3>4, <5>1, <6>1, Bounds
          <6>3. \A k \in 0..(FieldSize(f) - 1) : fram[Offset[f] + k] = OldValue[f][k]
            BY <5>2, MemberIsOld
          <6>4. \A k \in 0..(FieldSize(f) - 1) : fram'[Offset[f] + k] = OldValue[f][k]
            BY <3>1, <5>1, <6>2, <6>3
          <6> QED
            BY <6>4, MemberIsOld
        <5> QED
          BY <5>3, <5>4
      <4>2. Holds(fram')
        BY <4>1, OldValues, VersionByte, Bytes DEF Holds, IsV0
      <4> QED
        BY <2>1, <4>2 DEF OldInv
    <3> QED
      BY <3>3, <3>4
  <2>3. CASE phase # "main"
    <3>1. UNCHANGED fram
      BY <1>7, <2>3, CutElsewhere
    <3>2. phase = "backup" \/ UNCHANGED backup
      BY <1>7, <2>3 DEF PowerCut
    <3> QED
      BY <1>2, <2>1, <3>1, <3>2 DEF OldInv
  <2> QED
    BY <2>2, <2>3
<1>8. CASE UNCHANGED vars
  BY <1>2, <1>8 DEF vars, OldInv
<1> QED
  BY <1>1, <1>4, <1>5, <1>6, <1>7, <1>8 DEF Next

\* No power cut in the migration, in its retry or in the retry of that loses a
\* setting of the old file: it is in the file, still marked as old, or in the
\* backup.
THEOREM OldSettingsAreKept == Spec => []OldSettingsKept
<1>1. Init => Extents /\ OldInv
  BY InitExtents, InitOld
<1>2. Extents /\ OldInv /\ [Next]_vars => (Extents /\ OldInv)'
  BY NextExtents, NextOld
<1>3. Extents /\ OldInv => OldSettingsKept
  <2>1. Typed = {} => typed = {}
    BY DEF Typed
  <2> QED
    BY <2>1 DEF OldInv, OldSettingsKept, Holds
<1> QED
  BY <1>1, <1>2, <1>3, PTL DEF Spec

-----------------------------------------------------------------------------
(* What is written as structures is read at the same offsets.              *)

LEMMA OriginalVersion == Original[15] = IF was = "v0" THEN Zero ELSE Blank
<1>1. BlankFile[15] = Blank
  BY VersionByte DEF BlankFile
<1> QED
  BY <1>1, OldFileHolds DEF Original

\* Each value of a new file has the size of its member.
LEMMA ValueSizes ==
  ASSUME NEW conf, NEW f \in Fields
  PROVE  Values(conf)[f] = [k \in 0..(FieldSize(f) - 1) |-> Values(conf)[f][k]]
<1>1. FieldSize("attenuation") = 4 /\ FieldSize("temp_ctrl_mode") = 1 /\ FieldSize("version") = 1
      /\ FieldSize("eth_addr_mode") = 1
  BY DEF FieldSize
<1>2. f \notin Kept \cup {"attenuation", "version", "temp_ctrl_mode"} => FieldSize(f) = 4
  BY FieldNames DEF FieldSize, Kept
<1>3. CASE f \in Kept /\ (IsV0(conf) \/ f = "mac")
  <2>1. Values(conf)[f] = Member(conf, f)
    BY <1>3 DEF Values, FromV0, Defaults, Kept
  <2> QED
    BY <2>1 DEF Member
<1>4. CASE ~(f \in Kept /\ (IsV0(conf) \/ f = "mac"))
  <2>1. \E v : Values(conf)[f] = Encode(v, FieldSize(f))
    <3>1. CASE IsV0(conf)
      <4>1. FromV0(conf)[f] =
              IF f = "attenuation" THEN B16(Member(conf, f))
              ELSE IF f \in {"version", "temp_ctrl_mode"} THEN Encode("one", 1) ELSE Encode("default", 4)
        BY <1>4, <3>1 DEF FromV0
      <4>2. \E v : B16(Member(conf, f)) = Encode(v, 4)
        BY DEF B16
      <4> QED
        BY <1>1, <1>2, <1>4, <3>1, <4>1, <4>2 DEF Values
    <3>2. CASE ~IsV0(conf)
      <4>1. f # "mac"
        BY <1>4 DEF Kept
      <4>2. Defaults(conf)[f] =
              IF f \in {"attenuation", "temp_ctrl_mode"} THEN Encode("zero", FieldSize(f))
              ELSE IF f \in {"version", "eth_addr_mode"} THEN Encode("one", 1) ELSE Encode("default", FieldSize(f))
        BY <4>1 DEF Defaults
      <4> QED
        BY <1>1, <3>2, <4>2 DEF Values
    <3> QED
      BY <3>1, <3>2
  <2> QED
    BY <2>1, Bytes
<1> QED
  BY <1>3, <1>4

\* A new value depends on the old value of its own setting only.
LEMMA ValuesAreLocal ==
  ASSUME NEW c, NEW d, NEW f \in Fields,
         IsV0(c) <=> IsV0(d),
         f \in DOMAIN StructV0 => Member(c, f) = Member(d, f)
  PROVE  Values(c)[f] = Values(d)[f]
<1>1. f \in Kept \cup {"attenuation"} => f \in DOMAIN StructV0
  BY FieldNames DEF V0Fields, Kept
<1>2. FromV0(c)[f] = FromV0(d)[f]
  BY <1>1 DEF FromV0
<1>3. Defaults(c)[f] = Defaults(d)[f]
  BY <1>1 DEF Defaults, Kept
<1> QED
  BY <1>2, <1>3 DEF Values

LEMMA InitLayout ==
  ASSUME Init
  PROVE  LayoutInv
<1>1. fram = Original /\ phase = "read"
  BY DEF Init, Original
<1> QED
  BY <1>1 DEF LayoutInv, UsesNewFormat

LEMMA NextLayout ==
  ASSUME "version" \notin Settable, Extents, LayoutInv, [Next]_vars
  PROVE  LayoutInv'
<1> SUFFICES ASSUME cuts' = 0
             PROVE  LayoutInv'
  BY DEF LayoutInv
<1>1. ~PowerCut /\ cuts = 0 /\ UNCHANGED was
  BY DEF Extents, Next, Read, WriteBackup, WriteMain, PowerCut, Set, vars
<1>2. /\ phase \in {"read", "backup", "main", "use"}
      /\ phase = "read" => \A f \in DOMAIN StructV0 \ Typed : Member(fram, f) = Member(Original, f)
      /\ phase \in {"backup", "main"} =>
           \A f \in DOMAIN StructV0 \ Typed : Member(confv0, f) = Member(Original, f)
      /\ UsesNewFormat
  BY <1>1 DEF LayoutInv
<1>3. "version" \in DOMAIN StructV0 \ Typed
  BY VersionByte DEF Extents, Typed
<1>4. Original' = Original
  BY <1>1 DEF Original
<1>5. CASE Read
  <2>1. UNCHANGED <<fram, typed>> /\ phase = "read" /\ confv0' = [a \in BackupCells |-> fram[a]]
    BY <1>5 DEF Read
  <2>2. \A f \in DOMAIN StructV0 \ Typed : Member(confv0', f) = Member(Original, f)
    BY <1>2, <2>1, ReadMembers
  <2>3. confv0'[15] = Original[15]
    BY <1>3, <2>2, VersionByte
  <2>4. phase' \in {"backup", "main"}
    BY <1>5, <2>3, OriginalVersion, VersionByte DEF Read, IsV0, IsBlank
  <2> QED
    BY <1>4, <2>1, <2>2, <2>4 DEF LayoutInv, UsesNewFormat, Typed
<1>6. CASE WriteBackup
  <2>1. UNCHANGED <<confv0, typed>> /\ phase = "backup" /\ phase' = "main"
    BY <1>6 DEF WriteBackup
  <2> QED
    BY <1>2, <1>4, <2>1 DEF LayoutInv, UsesNewFormat, Typed
<1>7. CASE WriteMain
  <2>1. UNCHANGED typed /\ phase = "main" /\ phase' = "use" /\ fram' = NewFile(confv0)
    BY <1>7 DEF WriteMain
  <2>2. confv0[15] = Original[15]
    BY <1>2, <1>3, <2>1, VersionByte
  <2>3. (IsV0(confv0) <=> was = "v0") /\ (IsV0(Original) <=> was = "v0")
    BY <2>2, OriginalVersion, VersionByte, Bytes DEF IsV0
  <2>4. ASSUME NEW f \in Fields \ Typed
        PROVE  Get(f)' = IF was = "v0" THEN FromV0(OldFile)[f] ELSE Defaults(BlankFile)[f]
    <3>1. Get(f)' = [k \in 0..(FieldSize(f) - 1) |-> Values(confv0)[f][k]]
      BY <2>1, NewFileBytes DEF Get
    <3>2. Get(f)' = Values(confv0)[f]
      BY <3>1, ValueSizes
    <3>3. Values(confv0)[f] = Values(Original)[f]
      BY <1>2, <2>1, <2>3, ValuesAreLocal
    <3> QED
      BY <2>3, <3>2, <3>3 DEF Values, Original
  <2>5. Typed' = Typed
    BY <2>1 DEF Typed
  <2>6. UsesNewFormat'
    BY <1>1, <2>4, <2>5 DEF UsesNewFormat
  <2> QED
    BY <2>1, <2>6 DEF LayoutInv
<1>8. ASSUME NEW g \in Settable, Set(g)
      PROVE  LayoutInv'
  <2>1. UNCHANGED <<phase, confv0>> /\ Target(g) = g /\ Typed' = Typed \cup {g}
    BY <1>8, SetLeaves DEF Set, Target
  <2>2. \A f \in Fields \ Typed' : Get(f)' = Get(f)
    BY <1>8, <2>1, SetLeaves
  <2>3. \A f \in DOMAIN StructV0 \ Typed' : Member(fram', f) = Member(fram, f)
    BY <1>8, <2>1, SetLeaves
  <2>4. UsesNewFormat'
    <3>1. SUFFICES ASSUME phase' = "use", NEW f \in Fields \ Typed'
                   PROVE  Get(f)' = IF was' = "v0" THEN FromV0(OldFile)[f] ELSE Defaults(BlankFile)[f]
      BY DEF UsesNewFormat
    <3>2. Get(f) = IF was = "v0" THEN FromV0(OldFile)[f] ELSE Defaults(BlankFile)[f]
      BY <1>2, <2>1, <3>1 DEF UsesNewFormat
    <3> QED
      BY <1>1, <2>2, <3>1, <3>2
  <2> QED
    BY <1>2, <1>4, <2>1, <2>3, <2>4 DEF LayoutInv
<1>9. CASE UNCHANGED vars
  <2>1. UsesNewFormat'
    BY <1>2, <1>9 DEF vars, UsesNewFormat, Get, Typed
  <2> QED
    BY <1>2, <1>4, <1>9, <2>1 DEF vars, LayoutInv, Typed
<1> QED
  BY <1>1, <1>5, <1>6, <1>7, <1>8, <1>9 DEF Next

\* The packed structures and the offsets agree on every setting: an undisturbed
\* migration, of a file of either kind, gives every setting its new value.
THEOREM LayoutsDoAgree ==
  ASSUME "version" \notin Settable
  PROVE  Spec => []LayoutsAgree
<1>1. Init => Extents /\ LayoutInv
  BY InitExtents, InitLayout
<1>2. Extents /\ LayoutInv /\ [Next]_vars => (Extents /\ LayoutInv)'
  BY NextExtents, NextLayout
<1>3. LayoutInv => LayoutsAgree
  BY DEF LayoutInv, LayoutsAgree
<1> QED
  BY <1>1, <1>2, <1>3, PTL DEF Spec
=============================================================================
