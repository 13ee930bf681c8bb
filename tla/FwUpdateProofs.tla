--------------------------- MODULE FwUpdateProofs ---------------------------
(***************************************************************************)
(* The firmware update for every flash geometry, every set of images and   *)
(* tools.  First what holds in every way the stream is cut, lost or        *)
(* misread: the types, that the server programs and erases the staging     *)
(* area only, and that the bootloader survives.  Then, until bytes come    *)
(* too late or a tool leaves its header behind (Undisturbed), that an      *)
(* update is one the bootloader can live with, so that what                *)
(* BootloaderProofs proves of the bootloader holds of the whole device.    *)
(***************************************************************************)
EXTENDS FwUpdate, BootloaderProofs, SequenceTheorems

\* What a connection can carry.
Segments ==
  (Letters \X {0}) \cup {Junk} \cup ({"addr"} \X (Pages \cup {BadAddr})) \cup ({"data"} \X Content)

HostsOK ==
  /\ host \in [Sessions ->
                 [at : {"idle", "erase", "wait_e", "write", "wait_w", "reset", "done", "gone"},
                  img : Images \cup {None}, k : Nat]]
  /\ \A s \in Sessions : host[s].at # "idle" =>
        host[s].img \in Uploads /\ host[s].k <= Length[host[s].img]

NetworkOK ==
  /\ wire \in [Sessions -> Seq(Segments)]
  /\ conn \in [Sessions -> {"none", "queued", "served", "closed"}]
  /\ fin \in [Sessions -> BOOLEAN]
  /\ answers \in [Sessions -> 0 .. MaxAnswers]

ServerOK ==
  /\ at \in {"accept", "cmd", "addr", "data", "erase"}
  /\ cur \in Sessions \cup {NoSession}
  /\ at # "accept" => cur \in Sessions
  /\ addr \in Pages \cup {BadAddr}
  /\ blk \in 0 .. AppSectors

FwInv == TypeOK /\ HostsOK /\ NetworkOK /\ ServerOK

LEMMA FwTypes == FwInv => FwTypeOK
<1> SUFFICES ASSUME FwInv, NEW s \in Sessions, NEW n \in DOMAIN wire[s]
             PROVE  wire[s][n][1] \in Letters \cup {"addr", "data", "junk"}
  BY DEF FwInv, HostsOK, NetworkOK, ServerOK, FwTypeOK
<1>1. wire[s] \in Seq(Segments)
  BY DEF FwInv, NetworkOK
<1>2. wire[s][n] \in Segments
  BY <1>1, LenProperties, ElementOfSeq
<1> QED BY <1>2 DEF Segments, Junk

LEMMA FwInitInv == FwInit => FwInv
<1> SUFFICES ASSUME FwInit PROVE FwInv
  OBVIOUS
<1>1. TypeOK
  BY TypeInit DEF FwInit
<1>2. HostsOK
  BY DEF FwInit, HostsOK
<1>3. NetworkOK
  BY SessionsAssumption, EmptySeq DEF FwInit, NetworkOK
<1>4. ServerOK
  BY Sizes, GeometryAssumption DEF FwInit, ServerOK, Pages
<1> QED BY <1>1, <1>2, <1>3, <1>4 DEF FwInv

(***************************************************************************)
(* What goes into a connection and what comes out of it.                   *)
(***************************************************************************)
LEMMA JunkSegment == Junk \in Segments
BY DEF Segments

LEMMA CommandSegment == \A c \in Letters : Cmd(c) \in Segments
BY DEF Cmd, Segments

\* The page a tool writes is a page, and so is its data.
LEMMA PageSegments ==
  ASSUME FwInv, NEW s \in Sessions, host[s].at # "idle"
  PROVE  Addr(PageAddr(s)) \in Segments /\ Data(PageData(s)) \in Segments
<1> DEFINE img == host[s].img
           k == host[s].k
<1>1. /\ img \in Uploads /\ img \in Images /\ k \in Nat /\ k <= Length[img]
      /\ Length[img] \in Nat /\ Length[img] <= app_size
  BY ImagesAssumption, GeometryAssumption, Sizes DEF FwInv, HostsOK, Images, app_size
<1>2. PageAddr(s) \in Pages
  <2>1. CASE IsHeader(s)
    BY <2>1, PageFacts DEF PageAddr
  <2>2. CASE ~IsHeader(s)
    BY <1>1, <2>2, Sizes DEF PageAddr, IsHeader, Pages
  <2> QED BY <2>1, <2>2
<1>3. PageData(s) \in Content
  <2>1. TypeFor(img) \in {AppType, BootType, OtherType}
    BY DEF TypeFor
  <2> QED BY <1>1, <2>1, PageFacts DEF PageData
<1> QED BY <1>2, <1>3 DEF Addr, Data, Segments

LEMMA SendTypes ==
  ASSUME NEW Segs, wire \in [Sessions -> Seq(Segs)],
         NEW s \in Sessions, NEW segs \in Seq(Segs), Send(s, segs)
  PROVE  wire' \in [Sessions -> Seq(Segs)]
<1>1. wire[s] \o segs \in Seq(Segs)
  BY ConcatProperties
<1> QED BY <1>1 DEF Send

LEMMA LongTail ==
  ASSUME NEW S, NEW w \in Seq(S), Len(w) > 1
  PROVE  Tail(Tail(w)) \in Seq(S)
<1>1. Tail(w) \in Seq(S) /\ Len(Tail(w)) = Len(w) - 1 /\ Len(w) \in Nat
  BY EmptySeq, HeadTailProperties, LenProperties
<1>2. Len(Tail(w)) # 0
  BY <1>1
<1>3. Tail(w) # <<>>
  BY <1>2, EmptySeq, Zenon
<1> QED BY <1>1, <1>3, HeadTailProperties

\* Received, misread or left alone: what remains is a stream of segments.
LEMMA ReceiveTypes ==
  ASSUME NEW Segs, Junk \in Segs, wire \in [Sessions -> Seq(Segs)],
         cur \in Sessions, Incoming # <<>>, Receive \/ Misread
  PROVE  wire' \in [Sessions -> Seq(Segs)]
<1>1. Incoming \in Seq(Segs)
  BY DEF Incoming
<1>2. Tail(Incoming) \in Seq(Segs)
  BY <1>1, HeadTailProperties
<1>3. <<Junk>> \in Seq(Segs)
  OBVIOUS
<1>4. \A w \in Seq(Segs) : <<Junk>> \o w \in Seq(Segs)
  BY <1>3, ConcatProperties
<1>5. Len(Incoming) > 1 => Tail(Tail(Incoming)) \in Seq(Segs)
  BY <1>1, LongTail
<1>6. \A rest \in Leftovers(Incoming) : rest \in Seq(Segs)
  BY <1>2, <1>4, <1>5 DEF Leftovers
<1>7. \E rest \in Seq(Segs) : wire' = [wire EXCEPT ![cur] = rest]
  <2>1. CASE Receive
    BY <1>2, <2>1 DEF Receive, Incoming
  <2>2. CASE Misread
    BY <1>6, <2>2 DEF Misread
  <2> QED BY <2>1, <2>2
<1> QED BY <1>7

LEMMA AnswerTypes ==
  ASSUME NetworkOK, cur \in Sessions, Answer
  PROVE  answers' \in [Sessions -> 0 .. MaxAnswers]
BY SessionsAssumption DEF NetworkOK, Answer

(***************************************************************************)
(* The steps.                                                              *)
(***************************************************************************)
LEMMA HostStep ==
  ASSUME FwInv, NEW s \in Sessions, Host(s)
  PROVE  FwInv'
<1>1. TypeOK' /\ ServerOK'
  BY DEF Host, FwInv, TypeOK, ServerOK, vars, server
<1> USE DEF FwInv, Move
<1>2. CASE Connect(s)
  <2>1. \A img \in Uploads : img \in Images /\ Length[img] \in Nat
    BY ImagesAssumption DEF Images
  <2>2. HostsOK'
    BY <1>2, <2>1 DEF Connect, HostsOK
  <2>3. NetworkOK'
    BY <1>2 DEF Connect, NetworkOK
  <2> QED BY <1>1, <2>2, <2>3
<1>3. CASE erase_all(s)
  <2>1. <<Cmd("e")>> \in Seq(Segments)
    BY CommandSegment DEF Letters
  <2>2. HostsOK'
    BY <1>3 DEF erase_all, HostsOK
  <2>3. NetworkOK'
    BY <1>3, <2>1, SendTypes DEF erase_all, NetworkOK
  <2> QED BY <1>1, <2>2, <2>3
<1>4. CASE write_sector(s)
  <2>1. <<Cmd("w"), Addr(PageAddr(s)), Data(PageData(s))>> \in Seq(Segments)
    <3>1. Cmd("w") \in Segments
      BY CommandSegment DEF Letters
    <3> QED BY <1>4, <3>1, PageSegments DEF write_sector
  <2>2. HostsOK'
    BY <1>4 DEF write_sector, HostsOK
  <2>3. NetworkOK'
    BY <1>4, <2>1, SendTypes DEF write_sector, NetworkOK
  <2> QED BY <1>1, <2>2, <2>3
<1>5. CASE ReadAnswer(s)
  <2>1. HostsOK'
    <3>1. host[s].at # "idle" => Length[host[s].img] \in Nat
      BY ImagesAssumption DEF HostsOK
    <3> QED BY <1>5, <3>1 DEF ReadAnswer, HostsOK, IsHeader
  <2>2. NetworkOK'
    BY <1>5, SessionsAssumption DEF ReadAnswer, NetworkOK
  <2> QED BY <1>1, <2>1, <2>2
<1>6. CASE reset(s)
  <2>1. <<Cmd("r")>> \in Seq(Segments)
    BY CommandSegment DEF Letters
  <2>2. HostsOK'
    BY <1>6 DEF reset, HostsOK
  <2>3. NetworkOK'
    BY <1>6, <2>1, SendTypes DEF reset, NetworkOK
  <2> QED BY <1>1, <2>2, <2>3
<1> QED BY <1>2, <1>3, <1>4, <1>5, <1>6 DEF Host

LEMMA AbortStep ==
  ASSUME FwInv, NEW s \in Sessions, HostAbort(s)
  PROVE  FwInv'
<1>1. TypeOK' /\ ServerOK'
  BY DEF HostAbort, FwInv, TypeOK, ServerOK, vars, server
<1>2. HostsOK'
  BY DEF HostAbort, Move, FwInv, HostsOK
<1>3. PICK n \in 0 .. Len(wire[s]) : wire' = [wire EXCEPT ![s] = SubSeq(@, 1, n)]
  BY DEF HostAbort
<1>4. SubSeq(wire[s], 1, n) \in Seq(Segments)
  <2>1. wire[s] \in Seq(Segments)
    BY DEF FwInv, NetworkOK
  <2>2. n \in Int /\ \A j \in 1 .. n : wire[s][j] \in Segments
    BY <2>1, LenProperties, ElementOfSeq
  <2> QED BY <2>2, SubSeqProperties
<1>5. NetworkOK'
  BY <1>3, <1>4 DEF HostAbort, FwInv, NetworkOK
<1> QED BY <1>1, <1>2, <1>5 DEF FwInv

\* The sector of every block of the erase command is one of the staging area.
LEMMA BlocksAreStaging ==
  ASSUME NEW b \in 0 .. AppSectors - 1
  PROVE  /\ update_start_sec + b \in StagingSectors
         /\ SectorPages({update_start_sec + b}) \subseteq Staging
<1>1. update_start_sec + b \in StagingSectors
  BY GeometryAssumption DEF update_start_sec, magic_word_sec, StagingSectors
<1> QED BY <1>1, RegionPages

LEMMA ServeStep ==
  ASSUME FwInv, Server
  PROVE  FwInv'
<1> USE DEF FwInv, Goto
<1>0. pc = "app" /\ Serve
  BY DEF Server
<1>1. CASE Accept
  BY <1>1 DEF Accept, TypeOK, vars, HostsOK, NetworkOK, ServerOK
<1>2. CASE RecvCommand
  <2>1. TypeOK' /\ HostsOK'
    BY <1>2 DEF RecvCommand, TypeOK, vars, HostsOK
  <2>2. ServerOK'
    BY <1>2, GeometryAssumption DEF RecvCommand, ServerOK
  <2>3. NetworkOK'
    <3>1. cur \in Sessions
      BY <1>2 DEF RecvCommand, ServerOK
    <3>2. wire' \in [Sessions -> Seq(Segments)]
      BY <1>2, <3>1, ReceiveTypes, JunkSegment DEF RecvCommand, NetworkOK
    <3>3. answers' \in [Sessions -> 0 .. MaxAnswers]
      BY <1>2, <3>1, AnswerTypes DEF RecvCommand, NetworkOK
    <3> QED BY <1>2, <3>2, <3>3 DEF RecvCommand, NetworkOK
  <2> QED BY <2>1, <2>2, <2>3
<1>3. CASE ResetCommand
  BY <1>3, EmptySeq, Sizes, GeometryAssumption
     DEF ResetCommand, AppReset, Disconnect, TypeOK, HostsOK, NetworkOK, ServerOK, Pages
<1>4. CASE EraseBlock
  <2>1. CASE blk < AppSectors /\ up_progmem_eraseblock(blk)
                /\ blk' = blk + 1 /\ UNCHANGED <<network, at, cur, addr>>
    <3>1. TypeOK'
      BY <2>1, PageFacts DEF up_progmem_eraseblock, Erased, TypeOK
    <3> QED BY <2>1, <3>1, GeometryAssumption DEF HostsOK, NetworkOK, ServerOK, network
  <2>2. CASE /\ blk = AppSectors /\ Answer /\ at' = "cmd"
             /\ UNCHANGED <<vars, host, conn, wire, fin, cur, addr, blk>>
    <3>1. answers' \in [Sessions -> 0 .. MaxAnswers]
      BY <1>4, <2>2, AnswerTypes DEF EraseBlock, ServerOK
    <3> QED BY <1>4, <2>2, <3>1 DEF EraseBlock, TypeOK, vars, HostsOK, NetworkOK, ServerOK
  <2> QED BY <1>4, <2>1, <2>2 DEF EraseBlock
<1>5. CASE RecvAddr
  <2>1. cur \in Sessions /\ Incoming # <<>>
    BY <1>5 DEF RecvAddr, ServerOK
  <2>2. wire' \in [Sessions -> Seq(Segments)]
    BY <1>5, <2>1, ReceiveTypes, JunkSegment DEF RecvAddr, NetworkOK
  <2>3. Head(Incoming) \in Segments
    BY <2>1, HeadTailProperties DEF NetworkOK, Incoming
  <2>4. addr' \in Pages \cup {BadAddr}
    BY <1>5, <2>3 DEF RecvAddr, Segments, Letters, Junk
  <2> QED BY <1>5, <2>1, <2>2, <2>4 DEF RecvAddr, TypeOK, vars, HostsOK, NetworkOK, ServerOK
<1>6. CASE RecvData
  <2>1. cur \in Sessions /\ Incoming # <<>>
    BY <1>6 DEF RecvData, ServerOK
  <2>2. wire' \in [Sessions -> Seq(Segments)]
    BY <1>6, <2>1, ReceiveTypes, JunkSegment DEF RecvData, NetworkOK
  <2>3. answers' \in [Sessions -> 0 .. MaxAnswers]
    BY <1>6, <2>1, AnswerTypes DEF RecvData
  <2>4. Head(Incoming) \in Segments
    BY <2>1, HeadTailProperties DEF NetworkOK, Incoming
  <2> DEFINE data == IF Head(Incoming)[1] = "data" THEN Head(Incoming)[2] ELSE Corrupt
  <2>5. data \in Content
    BY <2>4, PageFacts DEF Segments, Letters, Junk
  <2>6. UNCHANGED vars \/ (flash' = Programmed(addr, data) /\ UNCHANGED <<pc, upd, i, cuts>>)
    BY <1>6 DEF RecvData, up_progmem_write
  <2> HIDE DEF data
  <2>7. TypeOK'
    BY <2>5, <2>6, PageFacts DEF Programmed, TypeOK, vars
  <2> QED BY <1>6, <2>1, <2>2, <2>3, <2>7 DEF RecvData, HostsOK, NetworkOK, ServerOK
<1>7. CASE EndOfStream
  BY <1>7 DEF EndOfStream, ShortRead, Close, TypeOK, vars, HostsOK, NetworkOK, ServerOK
<1>8. CASE RecvTimeout
  <2>1. cur \in Sessions
    BY <1>8 DEF RecvTimeout, ServerOK
  <2>2. wire' \in [Sessions -> Seq(Segments)]
    BY <1>8, <2>1, ReceiveTypes, JunkSegment DEF RecvTimeout, NetworkOK
  <2> QED BY <1>8, <2>1, <2>2 DEF RecvTimeout, ShortRead, Close, TypeOK, vars, HostsOK, NetworkOK, ServerOK
<1> QED BY <1>0, <1>1, <1>2, <1>3, <1>4, <1>5, <1>6, <1>7, <1>8 DEF Serve

LEMMA DisconnectTypes ==
  ASSUME FwInv, Disconnect
  PROVE  HostsOK' /\ NetworkOK' /\ ServerOK'
BY EmptySeq, Sizes, GeometryAssumption DEF FwInv, Disconnect, Goto, HostsOK, NetworkOK, ServerOK, Pages

LEMMA FwStep == FwInv /\ [FwNext]_fwvars => FwInv'
<1> SUFFICES ASSUME FwInv, [FwNext]_fwvars PROVE FwInv'
  OBVIOUS
<1>1. CASE Booting
  <2>1. TypeOK'
    BY <1>1, TypeStep DEF Booting, Next, FwInv
  <2> QED BY <1>1, <2>1 DEF Booting, network, server, FwInv, HostsOK, NetworkOK, ServerOK
<1>2. CASE OtherReset
  <2>1. TypeOK'
    BY <1>2, TypeStep DEF OtherReset, Next, FwInv
  <2> QED BY <1>2, <2>1, DisconnectTypes DEF OtherReset, FwInv
<1>3. CASE FwPowerCut
  <2>1. TypeOK'
    <3>1. CASE pc = "app"
      <4>1. flash' \in [Pages -> Content]
        BY <1>3, <3>1, TornType DEF FwPowerCut, FwInv
      <4> QED BY <1>3, <3>1, <4>1, MaxCutsAssumption DEF FwPowerCut, FwInv, TypeOK
    <3>2. CASE pc # "app"
      BY <1>3, <3>2, TypeStep DEF FwPowerCut, Next, FwInv
    <3> QED BY <3>1, <3>2
  <2> QED BY <1>3, <2>1, DisconnectTypes DEF FwPowerCut, FwInv
<1>4. CASE UNCHANGED fwvars
  BY <1>4 DEF fwvars, vars, network, server, FwInv, TypeOK, HostsOK, NetworkOK, ServerOK
<1> QED BY <1>1, <1>2, <1>3, <1>4, HostStep, AbortStep, ServeStep DEF FwNext

\* The types of the tools, their connections and the server (fw_update.c,
\* rffe_nuttx_lib.py), however streams are cut, lost and misread.
THEOREM FwTypeCorrect == FwSpec => []FwTypeOK
BY FwInitInv, FwStep, FwTypes, PTL DEF FwSpec

(***************************************************************************)
(* What the server may write.                                              *)
(***************************************************************************)
\* What a power cut catches the running application at.
LEMMA BusyIsStaging == ASSUME FwInv PROVE ServerBusy \subseteq Staging
<1>1. CASE at = "erase" /\ blk < AppSectors
  BY <1>1, BlocksAreStaging, GeometryAssumption DEF ServerBusy, FwInv, ServerOK
<1>2. CASE ~(at = "erase" /\ blk < AppSectors)
  BY <1>2 DEF ServerBusy
<1> QED BY <1>1, <1>2

LEMMA OnlyStagingStep ==
  ASSUME FwInv, [FwNext]_fwvars, pc = "app", NEW p \in 0 .. UpdStart - 1
  PROVE  flash'[p] = flash[p]
<1>1. p \in Pages /\ p \notin Staging /\ flash \in [Pages -> Content]
  BY Sizes DEF Pages, Staging, FwInv, TypeOK
<1>2. ASSUME NEW s \in Sessions, Host(s) \/ HostAbort(s) PROVE flash' = flash
  BY <1>2 DEF Host, HostAbort, vars
<1>3. CASE Server
  <2>1. CASE EraseBlock
    <3>1. CASE blk < AppSectors /\ up_progmem_eraseblock(blk)
      <4>1. blk \in 0 .. AppSectors - 1
        BY <3>1, GeometryAssumption DEF FwInv, ServerOK
      <4> QED BY <1>1, <3>1, <4>1, BlocksAreStaging DEF up_progmem_eraseblock, Erased
    <3>2. CASE UNCHANGED vars
      BY <3>2 DEF vars
    <3> QED BY <2>1, <3>1, <3>2 DEF EraseBlock, vars
  <2>2. CASE RecvData
    <3>1. CASE UNCHANGED vars
      BY <3>1 DEF vars
    <3>2. ASSUME addr >= UpdStart, NEW data, up_progmem_write(addr, data) PROVE flash'[p] = flash[p]
      <4>1. addr # p
        BY <3>2, Sizes DEF FwInv, ServerOK, Pages, BadAddr
      <4> QED BY <1>1, <3>2, <4>1 DEF up_progmem_write, Programmed
    <3> QED BY <2>2, <3>1, <3>2 DEF RecvData
  <2>3. CASE Accept \/ RecvCommand \/ RecvAddr \/ EndOfStream \/ RecvTimeout
    BY <2>3 DEF Accept, RecvCommand, RecvAddr, EndOfStream, RecvTimeout, vars
  <2>4. CASE ResetCommand
    BY <2>4 DEF ResetCommand, AppReset
  <2> QED BY <1>3, <2>1, <2>2, <2>3, <2>4 DEF Server, Serve
<1>4. CASE Booting
  BY <1>4 DEF Booting, Bootstep, PowerOn, main, EraseRegion, copy_flash_region, EraseMagic
<1>5. CASE OtherReset
  BY <1>5 DEF OtherReset, AppReset
<1>6. CASE FwPowerCut
  <2>1. Torn(ServerBusy)
    BY <1>6 DEF FwPowerCut
  <2> QED BY <1>1, <2>1, BusyIsStaging DEF Torn
<1>7. CASE UNCHANGED fwvars
  BY <1>7 DEF fwvars, vars
<1> QED BY <1>2, <1>3, <1>4, <1>5, <1>6, <1>7 DEF FwNext

\* Whatever a client sends, in whatever pieces, and wherever a command breaks
\* off: while the application runs nothing below the staging area changes
\* (fw_update.c:112-155), for every geometry and any number of clients.
THEOREM ServerKeepsToStaging == FwSpec => OnlyStagingWritten
<1>1. FwInv /\ [FwNext]_fwvars =>
        [pc = "app" => \A p \in 0 .. UpdStart - 1 : flash'[p] = flash[p]]_fwvars
  BY OnlyStagingStep
<1> QED BY <1>1, FwInitInv, FwStep, PTL DEF FwSpec, OnlyStagingWritten

(***************************************************************************)
(* However an upload of applications goes wrong, the bootloader survives.  *)
(* No tool sends a header that asks for a self-update, so none ever gets   *)
(* to the header's page; the bootloader then only ever works on the        *)
(* application's region, and everything else on the staging area.          *)
(***************************************************************************)
AppSegments == Segments \ {Data(Header(BootType))}

SpareInv ==
  /\ FwInv
  /\ wire \in [Sessions -> Seq(AppSegments)]
  /\ ~Armed(BootType)
  /\ upd = AppType
  /\ BootIntact /\ pc # "dead"

\* What the tools send, when they upload applications.
LEMMA AppStreams ==
  ASSUME Uploads \subseteq AppImages, SpareInv, NEW s \in Sessions, Host(s) \/ HostAbort(s)
  PROVE  wire' \in [Sessions -> Seq(AppSegments)]
<1> USE DEF SpareInv
<1>1. \A c \in Letters : Cmd(c) \in AppSegments
  BY CommandSegment DEF AppSegments, Cmd, Data, Letters
<1>2. CASE erase_all(s)
  <2>1. <<Cmd("e")>> \in Seq(AppSegments)
    BY <1>1 DEF Letters
  <2> QED BY <1>2, <2>1, SendTypes DEF erase_all
<1>3. CASE write_sector(s)
  <2>1. host[s].at # "idle" /\ host[s].img \in Uploads
    BY <1>3 DEF write_sector, FwInv, HostsOK
  <2>2. PageData(s) # Header(BootType)
    <3>1. TypeFor(host[s].img) = AppType
      BY <2>1 DEF TypeFor
    <3> QED BY <3>1, Headers DEF PageData, PageOf, Header
  <2>3. Addr(PageAddr(s)) \in AppSegments /\ Data(PageData(s)) \in AppSegments
    BY <2>1, <2>2, PageSegments DEF AppSegments, Addr, Data
  <2>4. <<Cmd("w"), Addr(PageAddr(s)), Data(PageData(s))>> \in Seq(AppSegments)
    <3>1. Cmd("w") \in AppSegments
      BY <1>1 DEF Letters
    <3> QED BY <2>3, <3>1
  <2> QED BY <1>3, <2>4, SendTypes DEF write_sector
<1>4. CASE reset(s)
  <2>1. <<Cmd("r")>> \in Seq(AppSegments)
    BY <1>1 DEF Letters
  <2> QED BY <1>4, <2>1, SendTypes DEF reset
<1>5. CASE Connect(s) \/ ReadAnswer(s)
  BY <1>5 DEF Connect, ReadAnswer
<1>6. CASE HostAbort(s)
  <2>1. PICK n \in 0 .. Len(wire[s]) : wire' = [wire EXCEPT ![s] = SubSeq(@, 1, n)]
    BY <1>6 DEF HostAbort
  <2>2. wire[s] \in Seq(AppSegments)
    OBVIOUS
  <2>3. n \in Int /\ \A j \in 1 .. n : wire[s][j] \in AppSegments
    BY <2>2, LenProperties, ElementOfSeq
  <2>4. SubSeq(wire[s], 1, n) \in Seq(AppSegments)
    BY <2>3, SubSeqProperties
  <2> QED BY <2>1, <2>4
<1> QED BY <1>2, <1>3, <1>4, <1>5, <1>6 DEF Host

\* What the server reads of it, misread or not, and what it writes then.
LEMMA AppServed ==
  ASSUME SpareInv, Server
  PROVE  wire' \in [Sessions -> Seq(AppSegments)] /\ ~Armed(BootType)'
<1> USE DEF SpareInv, FwInv
<1>0. Serve /\ (at # "accept" => cur \in Sessions) /\ flash \in [Pages -> Content]
  BY DEF Server, ServerOK, TypeOK
<1>1. Junk \in AppSegments
  BY JunkSegment DEF AppSegments, Junk, Data
<1>2. flash[HeaderPage] # Header(BootType)
  BY DEF Armed
<1>3. CASE Accept \/ EndOfStream
  BY <1>2, <1>3 DEF Accept, EndOfStream, vars, Armed
<1>4. CASE RecvCommand
  BY <1>0, <1>1, <1>2, <1>4, ReceiveTypes DEF RecvCommand, vars, Armed
<1>5. CASE ResetCommand
  BY <1>2, <1>5, EmptySeq DEF ResetCommand, AppReset, Disconnect, Armed
<1>6. CASE EraseBlock
  <2>1. flash' = flash \/ flash' = Erased(update_start_sec + blk)
    BY <1>6 DEF EraseBlock, up_progmem_eraseblock, vars
  <2>2. wire' = wire
    BY <1>6 DEF EraseBlock, network
  <2> QED BY <1>2, <2>1, <2>2, PageFacts, Headers DEF Erased, Armed, Blank, Header
<1>7. CASE RecvAddr
  BY <1>0, <1>1, <1>2, <1>7, ReceiveTypes DEF RecvAddr, vars, Armed
<1>8. CASE RecvData
  <2>1. cur \in Sessions /\ Incoming # <<>>
    BY <1>0, <1>8 DEF RecvData
  <2>2. wire' \in [Sessions -> Seq(AppSegments)]
    BY <1>1, <1>8, <2>1, ReceiveTypes DEF RecvData
  <2>3. Head(Incoming) \in AppSegments
    BY <2>1, HeadTailProperties DEF Incoming
  <2> DEFINE data == IF Head(Incoming)[1] = "data" THEN Head(Incoming)[2] ELSE Corrupt
  <2>4. data # Header(BootType)
    BY <2>3 DEF AppSegments, Segments, Letters, Junk, Data, Corrupt, Header
  <2>5. UNCHANGED vars \/ flash' = Programmed(addr, data)
    BY <1>8 DEF RecvData, up_progmem_write
  <2> HIDE DEF data
  <2>6. ~Armed(BootType)'
    <3>1. flash'[HeaderPage] \in {flash[HeaderPage], data, Corrupt}
      BY <1>0, <2>5, PageFacts DEF Programmed, vars
    <3> QED BY <1>2, <2>4, <3>1, Headers DEF Armed
  <2> QED BY <2>2, <2>6
<1>9. CASE RecvTimeout
  BY <1>0, <1>1, <1>2, <1>9, ReceiveTypes DEF RecvTimeout, vars, Armed
<1> QED BY <1>0, <1>3, <1>4, <1>5, <1>6, <1>7, <1>8, <1>9 DEF Serve

\* The bootloader, told to install an application, and whatever tears it,
\* leave its own region and every other header alone.
LEMMA BootSpared ==
  ASSUME FwInv, upd = AppType, Booting \/ FwPowerCut
  PROVE  /\ \A p \in 0 .. AppStart - 1 : flash'[p] = flash[p]
         /\ flash'[HeaderPage] = flash[HeaderPage] \/ ~Armed(BootType)'
<1> USE DEF FwInv, TypeOK
<1>1. /\ Dest = AppStart /\ Dest + len = UpdStart /\ len \in Nat
      /\ SectorPages(FirstSec .. LastSec) = AppStart .. UpdStart - 1
  BY UpdatedRegion, Sizes
<1>2. /\ \A p \in 0 .. AppStart - 1 : p \in Pages /\ p \notin AppStart .. UpdStart - 1 /\ p \notin Staging
      /\ HeaderPage \in Pages /\ HeaderPage \notin AppStart .. UpdStart - 1
      /\ HeaderPage \notin 0 .. AppStart - 1
  BY Sizes, PageFacts DEF Pages, Staging
<1>3. SectorPages({magic_word_sec}) \subseteq Staging
  <2>1. magic_word_sec \in StagingSectors
    BY GeometryAssumption DEF StagingSectors, update_start_sec, magic_word_sec
  <2> QED BY <2>1, RegionPages
<1>4. CASE Booting
  <2>1. CASE PowerOn \/ main
    BY <2>1 DEF PowerOn, main
  <2>2. CASE EraseRegion
    BY <1>1, <1>2, <2>2 DEF EraseRegion, lpc17_iap_erase_sectors
  <2>3. CASE copy_flash_region
    <3>1. Dest + i \in AppStart .. UpdStart - 1 \/ flash' = flash
      BY <1>1, <2>3, Sizes DEF copy_flash_region
    <3>2. \E d : flash' = [flash EXCEPT ![Dest + i] = d] \/ flash' = flash
      BY <2>3 DEF copy_flash_region, lpc17_iap_copy_ram_flash
    <3> QED BY <1>2, <3>1, <3>2
  <2>4. CASE EraseMagic
    <3>1. flash' = [p \in Pages |-> IF p \in SectorPages({magic_word_sec}) THEN Blank ELSE flash[p]]
      BY <2>4, RegionPages DEF EraseMagic, lpc17_iap_erase_sectors
    <3>2. flash'[HeaderPage] \in {Blank, flash[HeaderPage]}
      BY <1>2, <3>1
    <3> QED BY <1>2, <1>3, <3>1, <3>2, Headers DEF Armed
  <2> QED BY <1>4, <2>1, <2>2, <2>3, <2>4 DEF Booting, Bootstep
<1>5. CASE FwPowerCut
  <2>1. PICK S : Torn(S) /\ \A p \in S : p \in AppStart .. UpdStart - 1 \/ p \in Staging
    <3>1. CASE pc = "app"
      BY <1>5, <3>1, BusyIsStaging DEF FwPowerCut
    <3>2. CASE pc # "app"
      <4>1. PICK S \in Busy : Torn(S)
        BY <1>5, <3>2 DEF FwPowerCut, PowerCut
      <4>2. CASE pc = "erase"
        BY <1>1, <4>1, <4>2 DEF Busy
      <4>3. CASE pc = "copy"
        <5>1. \A p \in S : p = Dest + i /\ i < len
          BY <4>1, <4>3 DEF Busy
        <5> QED BY <1>1, <4>1, <5>1, Sizes
      <4>4. CASE pc = "magic"
        BY <1>3, <4>1, <4>4 DEF Busy
      <4>5. CASE pc \in {"off", "main", "hung", "dead"}
        BY <4>1, <4>5 DEF Busy
      <4> QED BY <3>2, <4>2, <4>3, <4>4, <4>5
    <3> QED BY <3>1, <3>2
  <2>2. /\ \A p \in Pages : p \notin S => flash'[p] = flash[p]
        /\ flash'[HeaderPage] = flash[HeaderPage] \/ ~Armed(BootType)'
    BY <2>1, TornPages
  <2> QED BY <1>2, <2>1, <2>2
<1> QED BY <1>4, <1>5

LEMMA SpareStep ==
  ASSUME Uploads \subseteq AppImages, SpareInv, [FwNext]_fwvars
  PROVE  SpareInv'
<1> USE DEF SpareInv
<1>0. FwInv'
  BY FwStep
<1>1. flash[HeaderPage] # Header(BootType)
  BY DEF Armed
<1>2. ASSUME NEW s \in Sessions, Host(s) \/ HostAbort(s) PROVE SpareInv'
  <2>1. UNCHANGED <<flash, pc, upd>>
    BY <1>2 DEF Host, HostAbort, vars
  <2> QED BY <1>0, <1>2, <2>1, AppStreams DEF Armed, BootIntact
<1>3. CASE Server
  <2>1. pc = "app" /\ pc' \in {"app", "off"} /\ upd' = upd
    BY <1>3 DEF Server, Serve, Accept, RecvCommand, ResetCommand, EraseBlock, RecvAddr,
                RecvData, EndOfStream, RecvTimeout, AppReset, up_progmem_eraseblock,
                up_progmem_write, vars
  <2>2. \A p \in 0 .. AppStart - 1 : flash'[p] = flash[p]
    <3>1. \A p \in 0 .. AppStart - 1 : p \in 0 .. UpdStart - 1
      BY Sizes
    <3> QED BY <1>3, <2>1, <3>1, OnlyStagingStep DEF FwNext
  <2> QED BY <1>0, <1>3, <2>1, <2>2, AppServed, KeepsBoot
<1>4. CASE Booting \/ FwPowerCut
  <2>1. ~Armed(BootType)' /\ BootIntact'
    BY <1>1, <1>4, BootSpared, KeepsBoot DEF Armed
  <2>2. upd' = AppType
    BY <1>4 DEF Booting, FwPowerCut, Bootstep, PowerOn, main, EraseRegion, copy_flash_region,
                EraseMagic, PowerCut
  <2>3. pc' # "dead"
    BY <1>4 DEF Booting, FwPowerCut, Bootstep, PowerOn, main, EraseRegion, copy_flash_region,
                EraseMagic, PowerCut, start_app
  <2>4. wire' \in [Sessions -> Seq(AppSegments)]
    BY <1>4, EmptySeq DEF Booting, FwPowerCut, Disconnect, network
  <2> QED BY <1>0, <2>1, <2>2, <2>3, <2>4
<1>5. CASE OtherReset
  BY <1>0, <1>5, EmptySeq DEF OtherReset, AppReset, Disconnect, Armed, BootIntact
<1>6. CASE UNCHANGED fwvars
  BY <1>0, <1>6 DEF fwvars, vars, network, Armed, BootIntact
<1> QED BY <1>2, <1>3, <1>4, <1>5, <1>6 DEF FwNext

\* However bytes are delayed, lost or misread, whenever tools die, the power
\* fails or the device is reset, and whatever header is left over whatever
\* pages: uploads of applications never touch the bootloader's region
\* (main.c:87-123, fw_update.c:112-155), so the device always gets to main().
THEOREM UploadsSpareTheBootloader == FwSpec => []BootloaderSurvives
<1>1. CASE Uploads \subseteq AppImages
  <2>1. FwInit => SpareInv
    <3> SUFFICES ASSUME FwInit PROVE SpareInv
      OBVIOUS
    <3>1. FwInv /\ pc = "off" /\ upd = AppType
      BY FwInitInv DEF FwInit, Init
    <3>2. BootIntact /\ ~Armed(BootType)
      BY Delivered DEF FwInit, Installing
    <3> QED BY <3>1, <3>2, EmptySeq DEF SpareInv, FwInit
  <2>2. SpareInv => BootloaderSurvives
    BY DEF SpareInv, BootloaderSurvives
  <2>3. SpareInv /\ [FwNext]_fwvars => SpareInv'
    BY <1>1, SpareStep
  <2> QED BY <2>1, <2>2, <2>3, PTL DEF FwSpec
<1>2. CASE ~(Uploads \subseteq AppImages)
  <2>1. BootloaderSurvives
    BY <1>2 DEF BootloaderSurvives
  <2> QED BY <2>1, PTL
<1> QED BY <1>1, <1>2

(***************************************************************************)
(* Undisturbed, the whole update is one the bootloader can live with.      *)
(* Bytes that are never late keep the stream in step with the server, so   *)
(* each connection is in one of a few states, and in each of them it is    *)
(* known what the staging area holds: nothing once the erase is answered,  *)
(* then the pages up to the one in flight, and all of the image when the   *)
(* header is sent.  A header that is set leaves the tool one step, the     *)
(* reset, and the server nothing else to read.                             *)
(***************************************************************************)
\* The pages before page n of the image are staged, the others blank.
Upto(s, n) ==
  /\ \A k \in 0 .. n - 1 : flash[UpdStart + k] = PageOf(host[s].img, k)
  /\ \A p \in Staging : p >= UpdStart + n => flash[p] = Blank

\* A write command on its way, all of it or what a dying tool has sent.
InFlight(w, p, d) ==
  \/ at = "cmd" /\ w = <<Cmd("w"), Addr(p), Data(d)>>
  \/ at = "addr" /\ w = <<Addr(p), Data(d)>>
  \/ at = "data" /\ addr = p /\ w = <<Data(d)>>

BreaksOff(w, p, d) ==
  \/ at = "cmd" /\ w \in {<<Cmd("w")>>, <<Cmd("w"), Addr(p)>>, <<Cmd("w"), Addr(p), Data(d)>>}
  \/ at = "addr" /\ w \in {<<>>, <<Addr(p)>>, <<Addr(p), Data(d)>>}
  \/ at = "data" /\ addr = p /\ w \in {<<>>, <<Data(d)>>}

\* A connection while its tool has not connected, and while it waits to be accepted.
Idle(s) == conn[s] = "none" /\ wire[s] = <<>> /\ answers[s] = 0

Queued(s) ==
  \/ host[s].at = "erase" /\ host[s].k = 0 /\ wire[s] = <<>> /\ answers[s] = 0
  \/ host[s].at = "wait_e" /\ host[s].k = 0 /\ wire[s] = <<Cmd("e")>> /\ answers[s] = 0
  \/ host[s].at = "gone" /\ wire[s] \in {<<>>, <<Cmd("e")>>}

Ready(s) == at = "cmd" /\ wire[s] = <<>>

\* The connection being served, by the command its tool is at.
ServedErase(s) ==
  /\ host[s].k = 0
  /\ \/ host[s].at = "erase" /\ answers[s] = 0 /\ Ready(s)
     \/ /\ host[s].at = "wait_e" /\ answers[s] = 0
        /\ (at = "cmd" /\ wire[s] = <<Cmd("e")>>) \/ (at = "erase" /\ wire[s] = <<>>)
     \/ host[s].at = "wait_e" /\ answers[s] = 1 /\ Ready(s) /\ Upto(s, 0)

ServedWrite(s) ==
  \/ host[s].at = "write" /\ answers[s] = 0 /\ Ready(s) /\ Upto(s, host[s].k)
  \/ /\ host[s].at = "wait_w" /\ answers[s] = 0 /\ Upto(s, host[s].k)
     /\ InFlight(wire[s], PageAddr(s), PageData(s))
  \/ /\ host[s].at = "wait_w" /\ answers[s] = 1 /\ Ready(s)
     /\ IF IsHeader(s) THEN Staged(host[s].img) ELSE Upto(s, host[s].k + 1)

ServedEnd(s) ==
  \/ host[s].at = "reset" /\ IsHeader(s) /\ Ready(s) /\ Staged(host[s].img)
  \/ host[s].at = "done" /\ at = "cmd" /\ wire[s] = <<Cmd("r")>>

\* What a tool that died has left behind: never the write of a header.
ServedGone(s) ==
  /\ host[s].at = "gone"
  /\ \/ at = "cmd" /\ wire[s] \in {<<>>, <<Cmd("e")>>}
     \/ at = "erase" /\ wire[s] = <<>>
     \/ \E p \in Staging \ {HeaderPage} : \E d \in StageData(p) : BreaksOff(wire[s], p, d)

Served(s) == ServedErase(s) \/ ServedWrite(s) \/ ServedEnd(s) \/ ServedGone(s)

\* The header is set, and all that is left for the tool is the reset.
Finishing(s) ==
  host[s].at \in {"reset", "done"} \/ (host[s].at = "wait_w" /\ IsHeader(s) /\ answers[s] = 1)

SessionInv(s) ==
  /\ host[s].at = "idle" => Idle(s)
  /\ fin[s] => host[s].at \in {"done", "gone"}
  /\ conn[s] = "queued" => Queued(s)
  /\ conn[s] = "served" => at # "accept" /\ s = cur /\ Served(s)

\* The server has the application to itself, erases the staging area in order
\* and without a header, and under a header only waits for the reset.
ServerInv ==
  /\ pc # "app" => at = "accept" /\ \A s \in Sessions : conn[s] \in {"none", "closed"}
  /\ at # "accept" => conn[cur] = "served"
  /\ at = "erase" => /\ ~Installing
                     /\ \A b \in 0 .. blk - 1 : \A p \in SectorPages({update_start_sec + b}) :
                          flash[p] = Blank
  /\ pc = "app" /\ Installing => at = "cmd" /\ Finishing(cur)

UploadInv == FwInv /\ BootInv /\ ServerInv /\ \A s \in Sessions : SessionInv(s)

LEMMA Streams ==
  /\ \A a : /\ <<a>> # <<>> /\ Head(<<a>>) = a /\ Tail(<<a>>) = <<>> /\ Len(<<a>>) = 1
            /\ <<>> \o <<a>> = <<a>>
  /\ \A a, b : <<a, b>> # <<>> /\ Head(<<a, b>>) = a /\ Tail(<<a, b>>) = <<b>> /\ Len(<<a, b>>) = 2
  /\ \A a, b, c : /\ <<a, b, c>> # <<>> /\ Head(<<a, b, c>>) = a /\ Tail(<<a, b, c>>) = <<b, c>>
                  /\ <<>> \o <<a, b, c>> = <<a, b, c>> /\ Len(<<a, b, c>>) = 3
OBVIOUS

\* The first segment of a stream and the rest.
LEMMA Parts ==
  ASSUME NEW w
  PROVE  /\ \A a : w = <<a>> => w # <<>> /\ Head(w) = a /\ Tail(w) = <<>>
         /\ \A a, b : w = <<a, b>> => w # <<>> /\ Head(w) = a /\ Tail(w) = <<b>>
         /\ \A a, b, c : w = <<a, b, c>> => w # <<>> /\ Head(w) = a /\ Tail(w) = <<b, c>>
<1>1. ASSUME NEW a, w = <<a>> PROVE w # <<>> /\ Head(w) = a /\ Tail(w) = <<>>
  BY <1>1
<1>2. ASSUME NEW a, NEW b, w = <<a, b>> PROVE w # <<>> /\ Head(w) = a /\ Tail(w) = <<b>>
  BY <1>2
<1>3. ASSUME NEW a, NEW b, NEW c, w = <<a, b, c>>
      PROVE w # <<>> /\ Head(w) = a /\ Tail(w) = <<b, c>>
  BY <1>3
<1> QED BY <1>1, <1>2, <1>3

\* Cutting a stream where another one ends leaves that one.
LEMMA PrefixIs ==
  ASSUME NEW S, NEW s \in Seq(S), NEW t \in Seq(S), Len(t) <= Len(s),
         \A n \in 1 .. Len(t) : t[n] = s[n]
  PROVE  SubSeq(s, 1, Len(t)) = t
<1>1. Len(t) \in Nat /\ Len(s) \in Nat
  BY LenProperties
<1>2. \A n \in 1 .. Len(t) : s[n] \in S
  BY <1>1, ElementOfSeq
<1>3. /\ SubSeq(s, 1, Len(t)) \in Seq(S) /\ Len(SubSeq(s, 1, Len(t))) = Len(t)
      /\ \A n \in 1 .. Len(t) : SubSeq(s, 1, Len(t))[n] = s[n]
  BY <1>1, <1>2, SubSeqProperties
<1> QED BY <1>3, SeqEqual

\* What is left of a write command that is cut.
LEMMA Prefixes ==
  ASSUME NEW a, NEW b, NEW c
  PROVE  /\ \A n \in 0 .. Len(<<>>) : SubSeq(<<>>, 1, n) = <<>>
         /\ \A n \in 0 .. Len(<<a>>) : SubSeq(<<a>>, 1, n) \in {<<>>, <<a>>}
         /\ \A n \in 0 .. Len(<<a, b>>) : SubSeq(<<a, b>>, 1, n) \in {<<>>, <<a>>, <<a, b>>}
         /\ \A n \in 0 .. Len(<<a, b, c>>) :
              SubSeq(<<a, b, c>>, 1, n) \in {<<>>, <<a>>, <<a, b>>, <<a, b, c>>}
<1> DEFINE S == {a, b, c}
<1>1. \A s \in Seq(S) : SubSeq(s, 1, 0) = <<>>
  BY SubSeqEmpty
<1>2. <<>> \in Seq(S) /\ <<a>> \in Seq(S) /\ <<a, b>> \in Seq(S) /\ <<a, b, c>> \in Seq(S)
  OBVIOUS
<1>3. Len(<<>>) = 0 /\ Len(<<a>>) = 1 /\ Len(<<a, b>>) = 2 /\ Len(<<a, b, c>>) = 3
  OBVIOUS
<1>4. /\ \A n \in 1 .. Len(<<a>>) : /\ <<a>>[n] = <<a, b>>[n] /\ <<a>>[n] = <<a, b, c>>[n]
      /\ \A n \in 1 .. Len(<<a, b>>) : <<a, b>>[n] = <<a, b, c>>[n]
  OBVIOUS
<1> HIDE DEF S
<1>5. /\ SubSeq(<<a>>, 1, 1) = <<a>> /\ SubSeq(<<a, b>>, 1, 1) = <<a>>
      /\ SubSeq(<<a, b, c>>, 1, 1) = <<a>>
  <2>1. SubSeq(<<a>>, 1, 1) = <<a>>
    BY <1>2, <1>3, SubSeqFull
  <2>2. SubSeq(<<a, b>>, 1, Len(<<a>>)) = <<a>>
    <3>1. Len(<<a>>) <= Len(<<a, b>>)
      BY <1>3
    <3> QED BY <1>2, <1>4, <3>1, PrefixIs
  <2>3. SubSeq(<<a, b, c>>, 1, Len(<<a>>)) = <<a>>
    <3>1. Len(<<a>>) <= Len(<<a, b, c>>)
      BY <1>3
    <3> QED BY <1>2, <1>4, <3>1, PrefixIs
  <2> QED BY <1>3, <2>1, <2>2, <2>3
<1>6. SubSeq(<<a, b>>, 1, 2) = <<a, b>> /\ SubSeq(<<a, b, c>>, 1, 2) = <<a, b>>
  <2>1. SubSeq(<<a, b>>, 1, 2) = <<a, b>>
    BY <1>2, <1>3, SubSeqFull
  <2>2. SubSeq(<<a, b, c>>, 1, Len(<<a, b>>)) = <<a, b>>
    <3>1. Len(<<a, b>>) <= Len(<<a, b, c>>)
      BY <1>3
    <3> QED BY <1>2, <1>4, <3>1, PrefixIs
  <2> QED BY <1>3, <2>1, <2>2
<1>7. SubSeq(<<a, b, c>>, 1, 3) = <<a, b, c>>
  BY <1>2, <1>3, SubSeqFull
<1>8. ASSUME NEW n \in 0 .. 3
      PROVE n = 0 \/ n = 1 \/ n = 2 \/ n = 3
  OBVIOUS
<1> QED BY <1>1, <1>2, <1>3, <1>5, <1>6, <1>7, <1>8

\* A session nothing touches stays as it is.
LEMMA SameSession ==
  ASSUME NEW s \in Sessions, SessionInv(s),
         host'[s] = host[s], conn'[s] = conn[s], wire'[s] = wire[s], fin'[s] = fin[s],
         answers'[s] = answers[s], conn[s] = "served" => UNCHANGED <<at, cur, addr, flash>>
  PROVE  SessionInv(s)'
<1>1. CASE conn[s] # "served"
  BY <1>1 DEF SessionInv, Idle, Queued
<1>2. CASE conn[s] = "served"
  <2>1. UNCHANGED <<at, cur, addr, flash>>
    BY <1>2
  <2>2. Served(s)'
    <3>1. Served(s)
      BY <1>2 DEF SessionInv
    <3> QED BY <2>1, <3>1 DEF Served, ServedErase, ServedWrite, ServedEnd, ServedGone, Ready, Upto,
               Staged, At, InFlight, BreaksOff, IsHeader, PageAddr, PageData, TypeFor
  <2> QED BY <1>2, <2>1, <2>2 DEF SessionInv, Idle
<1> QED BY <1>1, <1>2

(***************************************************************************)
(* The steps of a tool.                                                    *)
(***************************************************************************)
\* A step of one tool leaves the others and their connections alone.
LEMMA OtherTools ==
  ASSUME FwInv, NEW s \in Sessions, Host(s) \/ HostAbort(s), NEW t \in Sessions, t # s, SessionInv(t)
  PROVE  SessionInv(t)'
<1>1. /\ host'[t] = host[t] /\ conn'[t] = conn[t] /\ wire'[t] = wire[t] /\ fin'[t] = fin[t]
      /\ answers'[t] = answers[t]
  BY DEF Host, HostAbort, Connect, erase_all, write_sector, ReadAnswer, reset, Send, Move,
         FwInv, HostsOK, NetworkOK
<1>2. UNCHANGED <<at, cur, addr, flash>>
  BY DEF Host, HostAbort, vars, server
<1> QED BY <1>1, <1>2, SameSession

\* The tool that moves goes from one line of the table to the next.
LEMMA OwnTool ==
  ASSUME UploadInv, NEW s \in Sessions, Host(s)
  PROVE  SessionInv(s)'
<1> USE DEF UploadInv, FwInv, HostsOK, NetworkOK
<1>0. /\ SessionInv(s)
      /\ UNCHANGED <<vars, server>>
      /\ UNCHANGED <<flash, pc, at, cur, addr>>
  BY DEF Host, vars, server
<1>1. CASE Connect(s)
  BY <1>0, <1>1 DEF Connect, SessionInv, Idle, Queued
<1>2. CASE erase_all(s)
  <2>1. host' = [host EXCEPT ![s].at = "wait_e"] /\ UNCHANGED <<conn, fin, answers>> /\ host[s].at = "erase"
    BY <1>2 DEF erase_all, Move
  <2>2. wire[s] = <<>> /\ conn[s] # "closed" => wire'[s] = <<Cmd("e")>>
    BY <1>2, Streams DEF erase_all, Send
  <2>3. CASE conn[s] = "queued"
    BY <1>0, <2>1, <2>2, <2>3 DEF SessionInv, Queued
  <2>4. CASE conn[s] = "served"
    BY <1>0, <2>1, <2>2, <2>4 DEF SessionInv, Served, ServedErase, ServedWrite, ServedEnd, ServedGone, Ready
  <2> QED BY <1>0, <2>1, <2>3, <2>4 DEF SessionInv
<1>3. CASE write_sector(s)
  <2>1. /\ host' = [host EXCEPT ![s].at = "wait_w"] /\ UNCHANGED <<conn, fin, answers>>
        /\ host[s].at = "write"
    BY <1>3 DEF write_sector, Move
  <2>2. wire[s] = <<>> /\ conn[s] # "closed" =>
          wire'[s] = <<Cmd("w"), Addr(PageAddr(s)), Data(PageData(s))>>
    BY <1>3, Streams DEF write_sector, Send
  <2>3. conn[s] # "queued"
    BY <1>0, <2>1 DEF SessionInv, Queued
  <2>4. CASE conn[s] = "served"
    <3>1. Ready(s) /\ answers[s] = 0 /\ Upto(s, host[s].k)
      BY <1>0, <2>1, <2>4 DEF SessionInv, Served, ServedErase, ServedWrite, ServedEnd, ServedGone
    <3>2. host'[s].k = host[s].k /\ host'[s].img = host[s].img /\ host'[s].at = "wait_w"
      BY <2>1
    <3>3. PageAddr(s)' = PageAddr(s) /\ PageData(s)' = PageData(s) /\ Upto(s, host[s].k)'
      BY <1>0, <3>1, <3>2 DEF PageAddr, PageData, IsHeader, Upto
    <3>4. InFlight(wire[s], PageAddr(s), PageData(s))'
      BY <1>0, <2>2, <2>4, <3>1, <3>3 DEF InFlight, Ready
    <3>5. ServedWrite(s)'
      BY <2>1, <3>1, <3>2, <3>3, <3>4 DEF ServedWrite
    <3> QED BY <1>0, <2>1, <2>4, <3>2, <3>5 DEF SessionInv, Served
  <2> QED BY <1>0, <2>1, <2>3, <2>4 DEF SessionInv
<1>4. CASE ReadAnswer(s)
  <2>1. /\ conn[s] # "closed" => answers[s] > 0 /\ answers'[s] = answers[s] - 1
        /\ UNCHANGED <<conn, wire, fin>>
    BY <1>4 DEF ReadAnswer
  <2>2. host[s].at \in {"wait_e", "wait_w"} /\ host'[s].at \in {"write", "reset"}
    BY <1>4 DEF ReadAnswer, Move
  <2>3. conn[s] # "queued"
    BY <1>0, <2>1, <2>2 DEF SessionInv, Queued
  <2>4. CASE conn[s] = "served"
    <3>1. ServedErase(s) \/ ServedWrite(s)
      BY <1>0, <2>2, <2>4 DEF SessionInv, Served, ServedEnd, ServedGone
    <3>2. answers[s] = 1 /\ Ready(s) /\ answers'[s] = 0
      BY <2>1, <2>2, <2>4, <3>1 DEF ServedErase, ServedWrite
    <3>3. CASE host[s].at = "wait_e"
      <4>1. host'[s].at = "write" /\ host'[s].k = host[s].k /\ host'[s].img = host[s].img
        BY <1>4, <3>3 DEF ReadAnswer, Move
      <4>2. host[s].k = 0 /\ Upto(s, host[s].k)
        BY <3>1, <3>2, <3>3 DEF ServedErase, ServedWrite
      <4>3. Upto(s, host[s].k)'
        BY <1>0, <4>1, <4>2 DEF Upto
      <4>4. ServedWrite(s)'
        BY <1>0, <2>1, <3>2, <4>1, <4>3 DEF ServedWrite, Ready
      <4> QED BY <1>0, <2>1, <2>2, <2>4, <4>1, <4>4 DEF SessionInv, Served
    <3>4. CASE host[s].at = "wait_w" /\ IsHeader(s)
      <4>1. host'[s].at = "reset" /\ host'[s].k = host[s].k /\ host'[s].img = host[s].img
        BY <1>4, <3>4 DEF ReadAnswer, Move
      <4>2. Staged(host[s].img)
        BY <3>1, <3>2, <3>4 DEF ServedErase, ServedWrite
      <4>3. Staged(host[s].img)'
        BY <1>0, <4>1, <4>2 DEF Staged, At
      <4> QED BY <1>0, <2>1, <2>4, <3>2, <3>4, <4>1, <4>3 DEF SessionInv, Served, ServedEnd, Ready, IsHeader
    <3>5. CASE host[s].at = "wait_w" /\ ~IsHeader(s)
      <4>1. host'[s].at = "write" /\ host'[s].k = host[s].k + 1 /\ host'[s].img = host[s].img
        BY <1>4, <3>5 DEF ReadAnswer, Move
      <4>2. Upto(s, host[s].k + 1)
        BY <3>1, <3>2, <3>5 DEF ServedErase, ServedWrite
      <4>3. Upto(s, host[s].k)'
        BY <1>0, <4>1, <4>2 DEF Upto
      <4>4. ServedWrite(s)'
        BY <1>0, <2>1, <3>2, <4>1, <4>3 DEF ServedWrite, Ready
      <4> QED BY <1>0, <2>1, <2>2, <2>4, <4>1, <4>4 DEF SessionInv, Served
    <3> QED BY <2>2, <3>3, <3>4, <3>5
  <2> QED BY <1>0, <2>1, <2>2, <2>3, <2>4 DEF SessionInv
<1>5. CASE reset(s)
  <2>1. /\ host' = [host EXCEPT ![s].at = "done"] /\ UNCHANGED <<conn, answers>> /\ host[s].at = "reset"
    BY <1>5 DEF reset, Move
  <2>2. wire[s] = <<>> /\ conn[s] # "closed" => wire'[s] = <<Cmd("r")>>
    BY <1>5, Streams DEF reset, Send
  <2>3. conn[s] # "queued"
    BY <1>0, <2>1 DEF SessionInv, Queued
  <2>4. CASE conn[s] = "served"
    BY <1>0, <2>1, <2>2, <2>4 DEF SessionInv, Served, ServedErase, ServedWrite, ServedEnd, ServedGone, Ready
  <2> QED BY <1>0, <2>1, <2>3, <2>4 DEF SessionInv
<1> QED BY <1>1, <1>2, <1>3, <1>4, <1>5 DEF Host

\* A tool whose header is set goes on to the reset; the server waits for it.
LEMMA ToolServer ==
  ASSUME UploadInv, NEW s \in Sessions, Host(s)
  PROVE  ServerInv'
<1> USE DEF UploadInv, FwInv, HostsOK, NetworkOK
<1>0. /\ SessionInv(s)
      /\ UNCHANGED <<vars, server>>
      /\ UNCHANGED <<flash, pc, upd, i, cuts, at, cur, addr, blk>>
  BY DEF Host, vars, server
<1>1. pc = "app" \/ conn' = conn
  BY DEF Host, Connect, erase_all, write_sector, ReadAnswer, reset
<1>2. \A t \in Sessions : t # s \/ conn[s] = "served" => conn'[t] = conn[t]
  <2>1. Connect(s) => conn[s] = "none"
    BY <1>0 DEF Connect, SessionInv, Idle
  <2> QED BY <2>1 DEF Host, Connect, erase_all, write_sector, ReadAnswer, reset
<1>3. ASSUME at # "accept" PROVE conn'[cur] = "served" /\ cur \in Sessions /\ conn[cur] = "served"
  BY <1>2, <1>3 DEF ServerInv, ServerOK
<1>4. ASSUME pc = "app", Installing
      PROVE  at = "cmd" /\ Finishing(cur)'
  <2>1. at = "cmd" /\ Finishing(cur) /\ cur \in Sessions /\ conn[cur] = "served"
    BY <1>3, <1>4 DEF ServerInv
  <2>2. CASE s # cur
    <3>1. host'[cur] = host[cur] /\ answers'[cur] = answers[cur]
      BY <2>1, <2>2 DEF Host, Connect, erase_all, write_sector, ReadAnswer, reset, Move
    <3> QED BY <1>0, <2>1, <3>1 DEF Finishing, IsHeader
  <2>3. CASE s = cur
    <3>1. host[s].at \in {"reset", "done", "wait_w"}
      BY <2>1, <2>3 DEF Finishing
    <3>2. CASE reset(s)
      BY <1>0, <2>1, <2>3, <3>2 DEF reset, Move, Finishing
    <3>3. CASE ReadAnswer(s)
      BY <1>0, <2>1, <2>3, <3>1, <3>3 DEF ReadAnswer, Move, Finishing
    <3> QED BY <3>1, <3>2, <3>3 DEF Host, Connect, erase_all, write_sector
  <2> QED BY <2>1, <2>2, <2>3
<1>5. Installing' <=> Installing
  BY <1>0 DEF Installing, Armed
<1> QED BY <1>0, <1>1, <1>3, <1>4, <1>5 DEF ServerInv

\* A page of an image is one the bootloader expects to be staged.
LEMMA PlainPage ==
  ASSUME HeaderSectorFree, FwInv, NEW s \in Sessions, host[s].at # "idle", ~IsHeader(s)
  PROVE  /\ PageAddr(s) \in Staging \ {HeaderPage}
         /\ PageData(s) \in StageData(PageAddr(s))
         /\ PageAddr(s) = UpdStart + host[s].k /\ PageData(s) = PageOf(host[s].img, host[s].k)
<1>1. /\ host[s].img \in Uploads /\ host[s].img \in Images /\ host[s].k \in Nat
      /\ host[s].k < Length[host[s].img] /\ Length[host[s].img] \in Nat
      /\ Length[host[s].img] <= app_size - Reserved /\ Reserved \in Nat /\ Reserved >= 1
  BY ImagesAssumption, GeometryAssumption
     DEF FwInv, HostsOK, IsHeader, Images, app_size, HeaderSectorFree
<1>2. /\ PageAddr(s) = UpdStart + host[s].k /\ PageData(s) = PageOf(host[s].img, host[s].k)
  BY DEF PageAddr, PageData
<1>3. PageAddr(s) \in Staging \ {HeaderPage} /\ PageAddr(s) - UpdStart = host[s].k
  BY <1>1, <1>2, Sizes DEF Staging, HeaderPage
<1>4. PageData(s) \in StageData(PageAddr(s))
  BY <1>1, <1>2, <1>3 DEF StageData
<1> QED BY <1>2, <1>3, <1>4

\* A tool that dies leaves a prefix of one command behind, and no header.
LEMMA AbortedTool ==
  ASSUME HeaderSectorFree, UploadInv, NEW s \in Sessions, HostAbort(s), ~HeaderLeftBehind(s)
  PROVE  SessionInv(s)'
<1> USE DEF UploadInv, FwInv, HostsOK, NetworkOK
<1>0. /\ SessionInv(s)
      /\ UNCHANGED <<vars, server, conn, answers>>
      /\ UNCHANGED <<flash, pc, upd, i, cuts, at, cur, addr, blk>>
  BY DEF HostAbort, vars, server
<1>1. host[s].at \notin {"idle", "done", "gone"} /\ host'[s].at = "gone"
  BY DEF HostAbort, Move
<1>2. conn[s] # "closed" => ~HeaderSent(s)
  BY DEF HeaderLeftBehind
<1>3. PICK n \in 0 .. Len(wire[s]) : wire'[s] = SubSeq(wire[s], 1, n)
  BY DEF HostAbort
<1>4. /\ wire[s] = <<>> => wire'[s] = <<>>
      /\ \A a : wire[s] = <<a>> => wire'[s] \in {<<>>, <<a>>}
      /\ \A a, b : wire[s] = <<a, b>> => wire'[s] \in {<<>>, <<a>>, <<a, b>>}
      /\ \A a, b, c : wire[s] = <<a, b, c>> => wire'[s] \in {<<>>, <<a>>, <<a, b>>, <<a, b, c>>}
  <2>1. wire[s] = <<>> => wire'[s] = <<>>
    BY <1>3, Prefixes
  <2>2. ASSUME NEW a, wire[s] = <<a>> PROVE wire'[s] \in {<<>>, <<a>>}
    BY <1>3, <2>2, Prefixes
  <2>3. ASSUME NEW a, NEW b, wire[s] = <<a, b>> PROVE wire'[s] \in {<<>>, <<a>>, <<a, b>>}
    <3>1. n \in 0 .. Len(<<a, b>>) /\ wire'[s] = SubSeq(<<a, b>>, 1, n)
      BY <1>3, <2>3, Zenon
    <3> QED BY <3>1, Prefixes, Zenon
  <2>4. ASSUME NEW a, NEW b, NEW c, wire[s] = <<a, b, c>>
        PROVE  wire'[s] \in {<<>>, <<a>>, <<a, b>>, <<a, b, c>>}
    <3>1. n \in 0 .. Len(<<a, b, c>>) /\ wire'[s] = SubSeq(<<a, b, c>>, 1, n)
      BY <1>3, <2>4, Zenon
    <3> QED BY <3>1, Prefixes, Zenon
  <2> QED BY <2>1, <2>2, <2>3, <2>4
<1>5. CASE conn[s] = "queued"
  <2>1. wire[s] \in {<<>>, <<Cmd("e")>>}
    BY <1>0, <1>5 DEF SessionInv, Queued
  <2>2. wire'[s] \in {<<>>, <<Cmd("e")>>}
    BY <1>4, <2>1
  <2> QED BY <1>0, <1>1, <1>5, <2>2 DEF SessionInv, Queued
<1>6. CASE conn[s] = "served"
  <2>1. at # "accept" /\ s = cur /\ Served(s)
    BY <1>0, <1>6 DEF SessionInv
  <2>2. CASE wire[s] \in {<<>>, <<Cmd("e")>>} /\ (at = "cmd" \/ (at = "erase" /\ wire[s] = <<>>))
    <3>1. wire'[s] \in {<<>>, <<Cmd("e")>>} /\ (wire[s] = <<>> => wire'[s] = <<>>)
      BY <1>4, <2>2
    <3>2. ServedGone(s)'
      BY <1>0, <1>1, <2>2, <3>1 DEF ServedGone
    <3> QED BY <1>0, <1>1, <1>6, <2>1, <3>2 DEF SessionInv, Served
  <2>3. CASE InFlight(wire[s], PageAddr(s), PageData(s)) /\ ~IsHeader(s)
    <3> DEFINE p == PageAddr(s)
               d == PageData(s)
    <3>1. p \in Staging \ {HeaderPage} /\ d \in StageData(p)
      BY <1>1, <2>3, PlainPage
    <3>2. InFlight(wire[s], p, d)
      BY <2>3
    <3> HIDE DEF p, d
    <3>3. (at = "cmd" /\ wire'[s] = <<>>) \/ BreaksOff(wire'[s], p, d)
      BY <1>4, <3>2 DEF InFlight, BreaksOff
    <3>4. ServedGone(s)'
      <4>1. CASE at = "cmd" /\ wire'[s] = <<>>
        BY <1>0, <1>1, <4>1 DEF ServedGone
      <4>2. CASE BreaksOff(wire'[s], p, d)
        BY <1>0, <1>1, <3>1, <4>2 DEF ServedGone, BreaksOff
      <4> QED BY <3>3, <4>1, <4>2
    <3> QED BY <1>0, <1>1, <1>6, <2>1, <3>4 DEF SessionInv, Served
  <2>4. \/ wire[s] \in {<<>>, <<Cmd("e")>>} /\ (at = "cmd" \/ (at = "erase" /\ wire[s] = <<>>))
        \/ InFlight(wire[s], PageAddr(s), PageData(s)) /\ ~IsHeader(s)
    BY <1>1, <1>2, <1>6, <2>1 DEF Served, ServedErase, ServedWrite, ServedEnd, ServedGone, Ready, HeaderSent
  <2> QED BY <2>2, <2>3, <2>4
<1> QED BY <1>0, <1>1, <1>5, <1>6 DEF SessionInv

LEMMA AbortedToolServer ==
  ASSUME HeaderSectorFree, UploadInv, NEW s \in Sessions, HostAbort(s), ~HeaderLeftBehind(s)
  PROVE  ServerInv'
<1> USE DEF UploadInv, FwInv, HostsOK, NetworkOK
<1>0. /\ SessionInv(s)
      /\ UNCHANGED <<vars, server, conn, answers>>
      /\ UNCHANGED <<flash, pc, upd, i, cuts, at, cur, addr, blk>>
  BY DEF HostAbort, vars, server
<1>1. host[s].at \notin {"idle", "done", "gone"}
  BY DEF HostAbort
<1>2. conn[s] # "closed" => ~HeaderSent(s)
  BY DEF HeaderLeftBehind
<1>3. ASSUME pc = "app", Installing
      PROVE  at = "cmd" /\ Finishing(cur)'
  <2>1. at = "cmd" /\ Finishing(cur) /\ cur \in Sessions /\ conn[cur] = "served"
    BY <1>3 DEF ServerInv, ServerOK
  <2>2. s # cur
    BY <1>0, <1>1, <1>2, <2>1
       DEF Finishing, HeaderSent, SessionInv, Served, ServedErase, ServedWrite, ServedEnd, ServedGone
  <2>3. host'[cur] = host[cur] /\ answers'[cur] = answers[cur]
    BY <1>0, <2>1, <2>2 DEF HostAbort, Move
  <2> QED BY <1>0, <2>1, <2>3 DEF Finishing, IsHeader
<1> QED BY <1>0, <1>3 DEF ServerInv, Installing, Armed

(***************************************************************************)
(* The steps of the server that leave the flash alone.                     *)
(***************************************************************************)
\* The server works for one connection at a time.
LEMMA OtherConnections ==
  ASSUME UploadInv, at # "accept", NEW t \in Sessions, t # cur, UNCHANGED host,
         conn'[t] = conn[t], wire'[t] = wire[t], fin'[t] = fin[t], answers'[t] = answers[t]
  PROVE  SessionInv(t)'
<1>1. SessionInv(t) /\ conn[t] # "served"
  BY DEF UploadInv, SessionInv
<1> QED BY <1>1, SameSession

LEMMA AcceptUpload ==
  ASSUME UploadInv, Server, Accept
  PROVE  ServerInv' /\ \A t \in Sessions : SessionInv(t)'
<1> USE DEF UploadInv, FwInv, HostsOK, NetworkOK
<1>0. /\ pc = "app" /\ at = "accept" /\ at' = "cmd" /\ UNCHANGED <<host, wire, fin, answers>>
      /\ UNCHANGED <<flash, pc, upd, i, cuts>>
  BY DEF Server, Accept, Goto, vars
<1>1. PICK s \in Sessions : conn[s] = "queued" /\ conn' = [conn EXCEPT ![s] = "served"] /\ cur' = s
  BY DEF Accept
<1>2. ASSUME NEW t \in Sessions PROVE SessionInv(t)'
  <2>1. CASE t # s
    <3>1. conn[t] # "served" /\ conn'[t] = conn[t] /\ SessionInv(t)
      BY <1>0, <1>1, <2>1 DEF SessionInv
    <3> QED BY <1>0, <3>1, SameSession
  <2>2. CASE t = s
    <3>1. Queued(s) /\ SessionInv(s)
      BY <1>1 DEF SessionInv
    <3>2. Served(s)'
      BY <1>0, <3>1 DEF Queued, Served, ServedErase, ServedGone, Ready
    <3> QED BY <1>0, <1>1, <2>2, <3>1, <3>2 DEF SessionInv, Queued
  <2> QED BY <2>1, <2>2
<1>3. ~Installing
  BY <1>0 DEF ServerInv
<1>4. ServerInv'
  BY <1>0, <1>1, <1>3 DEF ServerInv, Installing, Armed
<1> QED BY <1>2, <1>4

\* What the server finds when it reads a command: the letter of one, always.
LEMMA CommandsFramed ==
  ASSUME UploadInv, at = "cmd", Incoming # <<>>
  PROVE  /\ cur \in Sessions /\ conn[cur] = "served" /\ SessionInv(cur) /\ wire[cur] = Incoming
         /\ \/ /\ Incoming = <<Cmd("r")>> /\ host[cur].at = "done"
            \/ /\ Incoming = <<Cmd("e")>>
               /\ \/ host[cur].at = "wait_e" /\ host[cur].k = 0 /\ answers[cur] = 0
                  \/ host[cur].at = "gone"
            \/ /\ Incoming = <<Cmd("w"), Addr(PageAddr(cur)), Data(PageData(cur))>>
               /\ host[cur].at = "wait_w" /\ answers[cur] = 0 /\ Upto(cur, host[cur].k)
            \/ /\ host[cur].at = "gone"
               /\ \E p \in Staging \ {HeaderPage} : \E d \in StageData(p) : BreaksOff(Incoming, p, d)
<1>1. cur \in Sessions /\ conn[cur] = "served" /\ SessionInv(cur)
  BY DEF UploadInv, ServerInv, FwInv, ServerOK
<1>2. Served(cur) /\ wire[cur] = Incoming /\ wire[cur] # <<>>
  BY <1>1 DEF SessionInv, Incoming
<1> QED BY <1>1, <1>2 DEF Served, ServedErase, ServedWrite, ServedEnd, ServedGone, Ready, InFlight

\* Once a header is set the server has nothing to read but the reset.
LEMMA HeaderWaits ==
  ASSUME UploadInv, pc = "app", Installing
  PROVE  at = "cmd" /\ host[cur].at # "gone" /\ Incoming \in {<<>>, <<Cmd("r")>>}
<1>1. at = "cmd" /\ Finishing(cur) /\ cur \in Sessions /\ conn[cur] = "served" /\ SessionInv(cur)
  BY DEF UploadInv, ServerInv, FwInv, ServerOK
<1>2. Served(cur)
  BY <1>1 DEF SessionInv
<1>3. CASE host[cur].at \in {"reset", "done"}
  BY <1>1, <1>2, <1>3 DEF Served, ServedErase, ServedWrite, ServedEnd, ServedGone, Ready, Incoming
<1>4. CASE host[cur].at = "wait_w" /\ answers[cur] = 1
  BY <1>1, <1>2, <1>4 DEF Served, ServedErase, ServedWrite, ServedEnd, ServedGone, Ready, Incoming
<1> QED BY <1>1, <1>3, <1>4 DEF Finishing

LEMMA CommandReceived ==
  ASSUME UploadInv, Server, RecvCommand
  PROVE  ServerInv' /\ \A t \in Sessions : SessionInv(t)'
<1> USE DEF UploadInv, FwInv, HostsOK, NetworkOK
<1>s. PICK s \in Sessions : s = cur
  BY DEF Server, RecvCommand, ServerOK
<1>w. PICK w : w = Incoming
  OBVIOUS
<1> USE <1>s, <1>w
<1>0. /\ pc = "app" /\ at = "cmd" /\ w # <<>> /\ UNCHANGED <<host, conn, fin, addr>>
      /\ UNCHANGED <<flash, pc, upd, i, cuts>>
  BY DEF Server, RecvCommand, vars
<1>1. /\ s \in Sessions /\ conn[s] = "served" /\ SessionInv(s) /\ wire[s] = w
  BY <1>0, CommandsFramed
<1>2. Head(w)[1] \in Letters /\ Head(w) = Cmd(Head(w)[1])
  BY <1>0, CommandsFramed, Streams DEF Cmd, Letters, BreaksOff
<1>3. wire' = [wire EXCEPT ![s] = Tail(w)]
  BY <1>2 DEF RecvCommand, Receive, Incoming
<1>4. \/ Head(w) = Cmd("e") /\ at' = "erase" /\ blk' = 0 /\ UNCHANGED <<answers, cur>>
      \/ Head(w) = Cmd("w") /\ at' = "addr" /\ UNCHANGED <<answers, blk, cur>>
  BY <1>2 DEF RecvCommand, CommandsIn, Goto, Letters
<1>5. ~Installing
  BY <1>0, <1>4, HeaderWaits, Streams DEF Cmd
<1>6. Served(s)'
  <2>1. CASE w = <<Cmd("e")>>
    <3>1. at' = "erase" /\ wire'[s] = <<>>
      BY <1>1, <1>3, <1>4, <2>1, Streams DEF Cmd
    <3>2. \/ host[s].at = "wait_e" /\ host[s].k = 0 /\ answers[s] = 0
          \/ host[s].at = "gone"
      BY <1>0, <2>1, CommandsFramed, Streams DEF BreaksOff, Cmd, Addr
    <3> QED BY <1>0, <1>1, <1>4, <3>1, <3>2 DEF Served, ServedErase, ServedGone
  <2>2. CASE w = <<Cmd("w"), Addr(PageAddr(s)), Data(PageData(s))>> /\ host[s].at = "wait_w"
    <3>1. at' = "addr" /\ wire'[s] = <<Addr(PageAddr(s)), Data(PageData(s))>> /\ UNCHANGED <<answers, cur>>
      BY <1>1, <1>3, <1>4, <2>2, Streams DEF Cmd
    <3>2. answers[s] = 0 /\ Upto(s, host[s].k)
      BY <1>0, <2>2, CommandsFramed, Streams
    <3>3. PageAddr(s)' = PageAddr(s) /\ PageData(s)' = PageData(s) /\ Upto(s, host[s].k)'
      BY <1>0, <3>1, <3>2 DEF PageAddr, PageData, IsHeader, Upto
    <3>4. InFlight(wire[s], PageAddr(s), PageData(s))'
      BY <3>1, <3>3 DEF InFlight
    <3> QED BY <1>0, <1>1, <2>2, <3>1, <3>2, <3>3, <3>4 DEF Served, ServedWrite
  <2>3. CASE /\ host[s].at = "gone"
             /\ \E p \in Staging \ {HeaderPage} : \E d \in StageData(p) : BreaksOff(w, p, d)
    <3>1. PICK p \in Staging \ {HeaderPage} : \E d \in StageData(p) : BreaksOff(w, p, d)
      BY <2>3
    <3>2. PICK d \in StageData(p) : BreaksOff(w, p, d)
      BY <3>1
    <3>3. w \in {<<Cmd("w")>>, <<Cmd("w"), Addr(p)>>, <<Cmd("w"), Addr(p), Data(d)>>}
      BY <1>0, <3>2 DEF BreaksOff
    <3>4. at' = "addr" /\ cur' = cur /\ wire'[s] \in {<<>>, <<Addr(p)>>, <<Addr(p), Data(d)>>}
      <4>1. Head(w) = Cmd("w") /\ Tail(w) \in {<<>>, <<Addr(p)>>, <<Addr(p), Data(d)>>}
        <5>1. CASE w = <<Cmd("w")>>
          BY <5>1, Streams
        <5>2. CASE w = <<Cmd("w"), Addr(p)>>
          <6>1. Head(w) = Cmd("w") /\ Tail(w) = <<Addr(p)>>
            BY <5>2, Parts, Zenon
          <6> QED BY <6>1, Zenon
        <5>3. CASE w = <<Cmd("w"), Addr(p), Data(d)>>
          <6>1. Head(w) = Cmd("w") /\ Tail(w) = <<Addr(p), Data(d)>>
            BY <5>3, Parts, Z3
          <6> QED BY <6>1, Zenon
        <5> QED BY <3>3, <5>1, <5>2, <5>3
      <4> QED BY <1>1, <1>3, <1>4, <4>1 DEF Cmd
    <3>5. BreaksOff(wire[s], p, d)'
      BY <3>4 DEF BreaksOff
    <3> QED BY <1>0, <2>3, <3>4, <3>5 DEF Served, ServedGone
  <2> QED BY <1>0, <1>4, CommandsFramed, Streams, <2>1, <2>2, <2>3 DEF Cmd
<1>7. SessionInv(s)'
  BY <1>0, <1>1, <1>4, <1>6 DEF SessionInv, Idle
<1>8. ASSUME NEW t \in Sessions, t # s PROVE SessionInv(t)'
  <2>1. wire'[t] = wire[t] /\ answers'[t] = answers[t]
    BY <1>1, <1>3, <1>4, <1>8
  <2> QED BY <1>0, <1>8, <2>1, OtherConnections
<1>9. ServerInv'
  BY <1>0, <1>1, <1>4, <1>5 DEF ServerInv, Installing, Armed
<1> QED BY <1>7, <1>8, <1>9

\* What the server finds when it reads the rest of a write command.
LEMMA WritesFramed ==
  ASSUME UploadInv, at \in {"addr", "data"}
  PROVE  /\ cur \in Sessions /\ conn[cur] = "served" /\ SessionInv(cur) /\ wire[cur] = Incoming
         /\ \/ /\ host[cur].at = "wait_w" /\ answers[cur] = 0 /\ Upto(cur, host[cur].k)
               /\ InFlight(Incoming, PageAddr(cur), PageData(cur))
            \/ /\ host[cur].at = "gone"
               /\ \E p \in Staging \ {HeaderPage} : \E d \in StageData(p) : BreaksOff(Incoming, p, d)
<1>1. cur \in Sessions /\ conn[cur] = "served" /\ SessionInv(cur)
  BY DEF UploadInv, ServerInv, FwInv, ServerOK
<1>2. Served(cur) /\ wire[cur] = Incoming
  BY <1>1 DEF SessionInv, Incoming
<1> QED BY <1>1, <1>2 DEF Served, ServedErase, ServedWrite, ServedEnd, ServedGone, Ready

LEMMA AddrReceived ==
  ASSUME UploadInv, Server, RecvAddr
  PROVE  ServerInv' /\ \A t \in Sessions : SessionInv(t)'
<1> USE DEF UploadInv, FwInv, HostsOK, NetworkOK
<1>s. PICK s \in Sessions : s = cur
  BY DEF Server, RecvAddr, ServerOK
<1>w. PICK w : w = Incoming
  OBVIOUS
<1> USE <1>s, <1>w
<1>0. /\ pc = "app" /\ at = "addr" /\ at' = "data" /\ w # <<>>
      /\ UNCHANGED <<host, conn, fin, answers, cur, blk>> /\ UNCHANGED <<flash, pc, upd, i, cuts>>
  BY DEF Server, RecvAddr, vars, Goto
<1>1. conn[s] = "served" /\ SessionInv(s) /\ wire[s] = w
  BY <1>0, WritesFramed
<1>2. ASSUME NEW p, NEW d, w = <<Addr(p)>> \/ w = <<Addr(p), Data(d)>>
      PROVE  addr' = p /\ wire' = [wire EXCEPT ![s] = Tail(w)]
  <2>1. Head(w) = Addr(p)
    BY <1>2, Parts
  <2> QED BY <2>1 DEF RecvAddr, Receive, Incoming, Addr
<1>3. ASSUME host[s].at = "wait_w", answers[s] = 0, Upto(s, host[s].k),
             InFlight(w, PageAddr(s), PageData(s))
      PROVE  Served(s)' /\ \E rest : wire' = [wire EXCEPT ![s] = rest]
  <2>1. w = <<Addr(PageAddr(s)), Data(PageData(s))>>
    BY <1>0, <1>3 DEF InFlight
  <2>2. Tail(w) = <<Data(PageData(s))>>
    BY <2>1, Parts
  <2>3. addr' = PageAddr(s) /\ wire' = [wire EXCEPT ![s] = <<Data(PageData(s))>>]
    BY <1>2, <2>1, <2>2
  <2>4. PageAddr(s)' = PageAddr(s) /\ PageData(s)' = PageData(s) /\ Upto(s, host[s].k)'
    BY <1>0, <1>3 DEF PageAddr, PageData, IsHeader, Upto
  <2>5. InFlight(wire[s], PageAddr(s), PageData(s))'
    BY <1>0, <2>3, <2>4 DEF InFlight
  <2>6. Served(s)'
    BY <1>0, <1>3, <2>4, <2>5 DEF Served, ServedWrite
  <2> QED BY <2>3, <2>6
<1>4. ASSUME host[s].at = "gone",
             \E p \in Staging \ {HeaderPage} : \E d \in StageData(p) : BreaksOff(w, p, d)
      PROVE  Served(s)' /\ \E rest : wire' = [wire EXCEPT ![s] = rest]
  <2>1. PICK p \in Staging \ {HeaderPage} : \E d \in StageData(p) : BreaksOff(w, p, d)
    BY <1>4
  <2>2. PICK d \in StageData(p) : BreaksOff(w, p, d)
    BY <2>1
  <2>3. w = <<Addr(p)>> \/ w = <<Addr(p), Data(d)>>
    BY <1>0, <2>2 DEF BreaksOff
  <2>4. Tail(w) \in {<<>>, <<Data(d)>>}
    BY <2>3, Parts
  <2>5. addr' = p /\ wire' = [wire EXCEPT ![s] = Tail(w)]
    BY <1>2, <2>3
  <2>6. BreaksOff(wire[s], p, d)'
    BY <1>0, <2>4, <2>5 DEF BreaksOff
  <2>7. Served(s)'
    BY <1>0, <1>4, <2>6 DEF Served, ServedGone
  <2> QED BY <2>5, <2>7
<1>5. Served(s)' /\ \E rest : wire' = [wire EXCEPT ![s] = rest]
  BY <1>0, <1>3, <1>4, WritesFramed
<1>6. SessionInv(s)'
  BY <1>0, <1>1, <1>5 DEF SessionInv, Idle
<1>7. ASSUME NEW t \in Sessions, t # s PROVE SessionInv(t)'
  <2>1. wire'[t] = wire[t]
    BY <1>5, <1>7
  <2> QED BY <1>0, <1>7, <2>1, OtherConnections
<1>8. ~Installing
  BY <1>0, HeaderWaits
<1>9. ServerInv'
  BY <1>0, <1>1, <1>8 DEF ServerInv, Installing, Armed
<1> QED BY <1>6, <1>7, <1>9

\* A tool that is gone: the server leaves the command, then the connection.
LEMMA GivenUp ==
  ASSUME UploadInv, Server, EndOfStream \/ RecvTimeout, ~LateBytes
  PROVE  ServerInv' /\ \A t \in Sessions : SessionInv(t)'
<1> USE DEF UploadInv, FwInv, HostsOK, NetworkOK
<1>s. PICK s \in Sessions : s = cur
  BY DEF Server, EndOfStream, RecvTimeout, ServerOK
<1> USE <1>s
<1>0. /\ pc = "app" /\ at \in {"cmd", "addr", "data"} /\ Incoming = <<>> /\ ShortRead
      /\ UNCHANGED <<host, wire, fin, answers, cur, addr, blk>> /\ UNCHANGED <<flash, pc, upd, i, cuts>>
  BY DEF Server, EndOfStream, RecvTimeout, LateBytes, vars
<1>1. conn[s] = "served" /\ SessionInv(s) /\ wire[s] = <<>> /\ Served(s)
  BY <1>0 DEF ServerInv, SessionInv, Incoming
<1>2. host[s].at = "gone"
  <2>1. host[s].at = "gone" \/ fin[s]
    BY DEF EndOfStream, LateBytes
  <2>2. host[s].at \in {"gone", "done"}
    BY <1>1, <2>1 DEF SessionInv
  <2> QED BY <1>0, <1>1, <2>2, Parts DEF Served, ServedErase, ServedWrite, ServedEnd, ServedGone
<1>3. ~Installing
  BY <1>0, <1>2, HeaderWaits
<1>4. CASE at = "cmd"
  <2>1. conn' = [conn EXCEPT ![s] = "closed"] /\ at' = "accept"
    BY <1>0, <1>4 DEF ShortRead, Close, Goto
  <2>2. SessionInv(s)'
    BY <1>0, <1>1, <1>2, <2>1 DEF SessionInv
  <2>3. ASSUME NEW t \in Sessions, t # s PROVE SessionInv(t)'
    BY <1>0, <1>4, <2>1, <2>3, OtherConnections
  <2>4. ServerInv'
    BY <1>0, <1>3, <2>1 DEF ServerInv, Installing, Armed
  <2> QED BY <2>2, <2>3, <2>4
<1>5. CASE at # "cmd"
  <2>1. conn' = conn /\ at' = "cmd"
    BY <1>0, <1>5 DEF ShortRead, Goto
  <2>2. SessionInv(s)'
    BY <1>0, <1>1, <1>2, <2>1 DEF SessionInv, Served, ServedGone
  <2>3. ASSUME NEW t \in Sessions, t # s PROVE SessionInv(t)'
    BY <1>0, <2>1, <2>3, OtherConnections
  <2>4. ServerInv'
    BY <1>0, <1>1, <1>3, <2>1 DEF ServerInv, Installing, Armed
  <2> QED BY <2>2, <2>3, <2>4
<1> QED BY <1>4, <1>5

\* A reset takes every connection down with the application.
LEMMA AllDisconnected ==
  ASSUME UploadInv, Disconnect, pc' # "app"
  PROVE  ServerInv' /\ \A t \in Sessions : SessionInv(t)'
<1>1. /\ \A t \in Sessions : conn'[t] = (IF conn[t] = "none" THEN "none" ELSE "closed") /\ wire'[t] = <<>>
      /\ at' = "accept" /\ UNCHANGED <<host, fin, answers>>
  BY DEF Disconnect, Goto
<1>2. ASSUME NEW t \in Sessions PROVE SessionInv(t)'
  BY <1>1 DEF UploadInv, SessionInv, Idle
<1>3. ServerInv'
  BY <1>1 DEF ServerInv
<1> QED BY <1>2, <1>3

(***************************************************************************)
(* The steps of the server that erase and program.                         *)
(***************************************************************************)
\* The blocks of the erase command are all of the staging area.
LEMMA AllBlocks ==
  ASSUME NEW p \in Staging
  PROVE  \E b \in 0 .. AppSectors - 1 : p \in SectorPages({update_start_sec + b})
<1> DEFINE sec == get_sector_number(p)
<1>1. p \in Pages /\ p >= AppStart /\ p >= UpdStart
  BY Sizes DEF Staging, Pages
<1>2. AppSectors * LargePages = app_size /\ (2 * AppSectors) * LargePages = 2 * app_size
  BY GeometryAssumption, Z3 DEF app_size
<1>3. sec \in Int /\ ((p < AppStart + AppSectors * LargePages) <=> (sec < BootSectors + AppSectors))
  BY <1>1, SectorOfLargePage, GeometryAssumption
<1>4. (p < AppStart + (2 * AppSectors) * LargePages) <=> (sec < BootSectors + 2 * AppSectors)
  BY <1>1, SectorOfLargePage, GeometryAssumption
<1> HIDE DEF sec
<1>5. sec \in update_start_sec .. magic_word_sec
  BY <1>1, <1>2, <1>3, <1>4, Sizes, GeometryAssumption DEF Staging, update_start_sec, magic_word_sec
<1>6. sec - update_start_sec \in 0 .. AppSectors - 1
  BY <1>5, GeometryAssumption DEF update_start_sec, magic_word_sec
<1>7. p \in SectorPages({update_start_sec + (sec - update_start_sec)})
  BY <1>1, <1>5, GeometryAssumption DEF SectorPages, sec, update_start_sec
<1> QED BY <1>6, <1>7

LEMMA BlockErased ==
  ASSUME UploadInv, Server, EraseBlock
  PROVE  /\ ServerInv' /\ \A t \in Sessions : SessionInv(t)'
         /\ [Next]_vars
<1> USE DEF UploadInv, FwInv, HostsOK, NetworkOK
<1>s. PICK s \in Sessions : s = cur
  BY DEF Server, EraseBlock, ServerOK
<1> USE <1>s
<1>0. pc = "app" /\ at = "erase" /\ ~Installing
  BY DEF Server, EraseBlock, ServerInv
<1>1. conn[s] = "served" /\ SessionInv(s) /\ Served(s)
  BY <1>0 DEF ServerInv, SessionInv
<1>2. /\ wire[s] = <<>>
      /\ host[s].at = "gone" \/ (host[s].at = "wait_e" /\ host[s].k = 0 /\ answers[s] = 0)
  BY <1>0, <1>1 DEF Served, ServedErase, ServedWrite, ServedEnd, ServedGone, Ready, InFlight, BreaksOff
<1>3. CASE /\ blk < AppSectors /\ up_progmem_eraseblock(blk) /\ blk' = blk + 1
           /\ UNCHANGED <<network, at, cur, addr>>
  <2>0. UNCHANGED <<host, conn, wire, fin, answers, at, cur, addr>>
    BY <1>3 DEF network
  <2>1. StageErase(update_start_sec + blk) /\ update_start_sec + blk \in StagingSectors
    <3>1. blk \in 0 .. AppSectors - 1
      BY <1>3, GeometryAssumption DEF ServerOK
    <3> QED BY <1>0, <1>3, <3>1, BlocksAreStaging DEF up_progmem_eraseblock, StageErase, MayErase
  <2>2. /\ pc' = pc
        /\ \A p \in Pages :
             flash'[p] = IF p \in SectorPages({update_start_sec + blk}) THEN Blank ELSE flash[p]
    BY <2>1 DEF StageErase, Erased
  <2>3. ~Installing'
    BY <1>0, <2>2, PageFacts, Headers DEF Installing, Armed
  <2>4. \A b \in 0 .. blk' - 1 : \A p \in SectorPages({update_start_sec + b}) : flash'[p] = Blank
    <3>0. blk \in Nat /\ blk' - 1 = blk
      BY <1>3, GeometryAssumption DEF ServerOK
    <3>1. SUFFICES ASSUME NEW b \in 0 .. blk, NEW p \in SectorPages({update_start_sec + b})
                   PROVE flash'[p] = Blank
      BY <3>0
    <3>2. p \in Pages
      BY DEF SectorPages
    <3>3. CASE b = blk
      BY <2>2, <3>2, <3>3
    <3>4. CASE b # blk
      <4>1. flash[p] = Blank
        <5>1. b \in 0 .. blk - 1
          BY <3>0, <3>4
        <5> QED BY <1>0, <3>1, <5>1 DEF ServerInv
      <4> QED BY <2>2, <3>2, <4>1
    <3> QED BY <3>3, <3>4
  <2>5. Served(s)'
    BY <1>0, <1>2, <2>0 DEF Served, ServedErase, ServedGone
  <2>6. SessionInv(s)'
    BY <1>0, <1>1, <1>2, <2>0, <2>5 DEF SessionInv
  <2>7. ASSUME NEW t \in Sessions, t # s PROVE SessionInv(t)'
    BY <1>0, <2>0, <2>7, OtherConnections
  <2>8. ServerInv'
    BY <1>0, <1>1, <2>0, <2>2, <2>3, <2>4 DEF ServerInv
  <2> QED BY <2>1, <2>6, <2>7, <2>8 DEF Next, Stage
<1>4. CASE /\ blk = AppSectors /\ Answer /\ at' = "cmd"
           /\ UNCHANGED <<vars, host, conn, wire, fin, cur, addr, blk>>
  <2>0. UNCHANGED <<host, conn, wire, fin, cur, addr, blk>> /\ UNCHANGED <<flash, pc, upd, i, cuts>>
    BY <1>4 DEF vars
  <2>1. \A p \in Staging : flash[p] = Blank
    <3>1. ASSUME NEW p \in Staging PROVE flash[p] = Blank
      <4>1. PICK b \in 0 .. AppSectors - 1 : p \in SectorPages({update_start_sec + b})
        BY AllBlocks
      <4> QED BY <1>0, <1>4, <4>1 DEF ServerInv
    <3> QED BY <3>1
  <2>2. Upto(s, 0)'
    BY <2>0, <2>1, Sizes DEF Upto
  <2>3. answers[s] = 0 => answers'[s] = 1
    BY <1>4, SessionsAssumption DEF Answer
  <2>4. Served(s)'
    BY <1>2, <1>4, <2>0, <2>2, <2>3 DEF Served, ServedErase, ServedGone, Ready
  <2>5. SessionInv(s)'
    BY <1>0, <1>1, <1>2, <1>4, <2>0, <2>4 DEF SessionInv
  <2>6. ASSUME NEW t \in Sessions, t # s PROVE SessionInv(t)'
    <3>1. answers'[t] = answers[t]
      BY <1>4, <2>6 DEF Answer
    <3> QED BY <1>0, <2>0, <2>6, <3>1, OtherConnections
  <2>7. ServerInv'
    BY <1>0, <1>1, <1>4, <2>0 DEF ServerInv, Installing, Armed
  <2> QED BY <1>4, <2>5, <2>6, <2>7
<1> QED BY <1>3, <1>4 DEF EraseBlock, Goto

\* Programming a page of an image while no header is set is a step of Stage.
LEMMA WriteIsStaged ==
  ASSUME TypeOK, pc = "app", ~Installing, NEW p \in Staging \ {HeaderPage}, NEW d \in StageData(p),
         up_progmem_write(p, d)
  PROVE  /\ [Next]_vars /\ ~Installing' /\ pc' = pc
         /\ \A q \in Pages : q # p => flash'[q] = flash[q]
         /\ flash[p] = Blank => flash'[p] = d
<1>1. StageWrite(p, d)
  BY DEF up_progmem_write, StageWrite
<1>2. /\ p \in Pages /\ \A q \in Pages : q # p => flash'[q] = flash[q]
      /\ flash[p] = Blank => flash'[p] = d
  BY <1>1, PageFacts DEF StageWrite, Programmed, TypeOK
<1>3. ~Installing'
  BY <1>2, PageFacts DEF Installing, Armed
<1> QED BY <1>1, <1>2, <1>3 DEF Next, Stage, StageWrite

LEMMA DataReceived ==
  ASSUME HeaderSectorFree, UploadInv, Server, RecvData
  PROVE  /\ ServerInv' /\ \A t \in Sessions : SessionInv(t)'
         /\ [Next]_vars
<1> USE DEF UploadInv, FwInv, HostsOK, NetworkOK
<1>s. PICK s \in Sessions : s = cur
  BY DEF Server, RecvData, ServerOK
<1>w. PICK w : w = Incoming
  OBVIOUS
<1> USE <1>s, <1>w
<1>0. /\ pc = "app" /\ at = "data" /\ at' = "cmd" /\ w # <<>> /\ Answer
      /\ UNCHANGED <<host, conn, fin, cur, addr, blk>>
  BY DEF Server, RecvData, Goto
<1>1. conn[s] = "served" /\ SessionInv(s) /\ wire[s] = w /\ ~Installing
  BY <1>0, WritesFramed, HeaderWaits
<1>2. ASSUME NEW d, w = <<Data(d)>>, addr \in Staging
      PROVE  wire' = [wire EXCEPT ![s] = <<>>] /\ up_progmem_write(addr, d)
  <2>1. Head(w) = Data(d) /\ Tail(w) = <<>>
    BY <1>2, Parts
  <2>2. addr >= UpdStart /\ addr <= FlashPages - 1
    BY <1>2, Sizes DEF Staging
  <2>3. Head(Incoming)[1] = "data" /\ Head(Incoming)[2] = d
    BY <2>1 DEF Data
  <2>4. Receive /\ up_progmem_write(addr, d)
    BY <2>2, <2>3 DEF RecvData
  <2> QED BY <2>1, <2>4 DEF Receive, Incoming
<1>3. ASSUME host[s].at = "wait_w", answers[s] = 0, Upto(s, host[s].k),
             InFlight(w, PageAddr(s), PageData(s))
      PROVE  /\ Served(s)' /\ wire' = [wire EXCEPT ![s] = <<>>] /\ [Next]_vars
             /\ pc' = pc /\ (Installing' => Finishing(s)')
  <2>1. addr = PageAddr(s) /\ w = <<Data(PageData(s))>>
    BY <1>0, <1>3 DEF InFlight
  <2>2. answers'[s] = 1
    BY <1>0, <1>3, SessionsAssumption DEF Answer
  <2>3. CASE ~IsHeader(s)
    <3>1. /\ PageAddr(s) \in Staging \ {HeaderPage} /\ PageData(s) \in StageData(PageAddr(s))
          /\ PageAddr(s) = UpdStart + host[s].k /\ PageData(s) = PageOf(host[s].img, host[s].k)
      BY <1>3, <2>3, PlainPage
    <3>2. wire' = [wire EXCEPT ![s] = <<>>] /\ up_progmem_write(PageAddr(s), PageData(s))
      BY <1>2, <2>1, <3>1
    <3>3. /\ [Next]_vars /\ ~Installing' /\ pc' = pc
          /\ \A q \in Pages : q # PageAddr(s) => flash'[q] = flash[q]
          /\ flash[PageAddr(s)] = Blank => flash'[PageAddr(s)] = PageData(s)
      BY <1>0, <1>1, <3>1, <3>2, WriteIsStaged
    <3>4. flash[PageAddr(s)] = Blank
      <4>1. PageAddr(s) \in Staging /\ PageAddr(s) >= UpdStart + host[s].k
        BY <3>1, Sizes
      <4> QED BY <1>3, <4>1 DEF Upto
    <3>5. Upto(s, host[s].k + 1)'
      <4>1. /\ host[s].k \in Nat
            /\ \A k \in 0 .. host[s].k - 1 : UpdStart + k \in Pages /\ UpdStart + k # PageAddr(s)
        BY <3>1, Sizes DEF Staging, Pages
      <4>2. \A k \in 0 .. host[s].k : flash'[UpdStart + k] = PageOf(host[s].img, k)
        BY <1>3, <3>1, <3>3, <3>4, <4>1 DEF Upto
      <4>3. \A q \in Staging : q >= UpdStart + (host[s].k + 1) => flash'[q] = Blank
        <5>1. ASSUME NEW q \in Staging, q >= UpdStart + (host[s].k + 1)
              PROVE  q \in Pages /\ q >= UpdStart + host[s].k /\ q # PageAddr(s)
          BY <3>1, <4>1, <5>1, Sizes DEF Staging, Pages
        <5> QED BY <1>3, <3>3, <5>1 DEF Upto
      <4> QED BY <1>0, <4>1, <4>2, <4>3 DEF Upto
    <3>6. Served(s)'
      BY <1>0, <1>1, <1>3, <2>2, <2>3, <3>2, <3>5 DEF Served, ServedWrite, Ready, IsHeader
    <3> QED BY <3>2, <3>3, <3>6
  <2>4. CASE IsHeader(s)
    <3> DEFINE img == host[s].img
               t == TypeFor(img)
    <3>1. PageAddr(s) = HeaderPage /\ PageData(s) = Header(t)
      BY <2>4 DEF PageAddr, PageData
    <3>2. wire' = [wire EXCEPT ![s] = <<>>] /\ up_progmem_write(HeaderPage, Header(t))
      BY <1>2, <2>1, <3>1, PageFacts
    <3>3. t \in {AppType, BootType} /\ StagedComplete(t) /\ Staged(img)
      <4>1. img \in AppImages \cup BootImages
        BY <1>3, ImagesAssumption
      <4>2. Staged(img)
        BY <1>3, <2>4 DEF Upto, IsHeader, Staged, At
      <4> QED BY <4>1, <4>2 DEF TypeFor, StagedComplete, ImagesOf, AppType, BootType
    <3>4. Arm(t)
      BY <1>0, <3>2, <3>3 DEF Arm, up_progmem_write
    <3>5. Staged(img)'
      <4>1. img \in Images /\ Length[img] \in Nat /\ Length[img] <= app_size - 1
        BY <1>3, ImagesAssumption, GeometryAssumption DEF Images, app_size, HeaderSectorFree
      <4>2. \A k \in 0 .. Length[img] - 1 : UpdStart + k \in Pages /\ UpdStart + k # HeaderPage
        BY <4>1, Sizes DEF Pages, HeaderPage
      <4>3. \A p \in Pages : p # HeaderPage => flash'[p] = flash[p]
        BY <3>4 DEF Arm, Programmed, TypeOK
      <4> QED BY <1>0, <3>3, <4>2, <4>3 DEF Staged, At
    <3>6. Served(s)' /\ Finishing(s)'
      BY <1>0, <1>1, <1>3, <2>2, <2>4, <3>2, <3>5 DEF Served, ServedWrite, Ready, Finishing, IsHeader
    <3> QED BY <3>2, <3>3, <3>4, <3>6 DEF Next, Stage, Arm
  <2> QED BY <2>3, <2>4
<1>4. ASSUME host[s].at = "gone",
             \E p \in Staging \ {HeaderPage} : \E d \in StageData(p) : BreaksOff(w, p, d)
      PROVE  /\ Served(s)' /\ wire' = [wire EXCEPT ![s] = <<>>] /\ [Next]_vars
             /\ pc' = pc /\ (Installing' => Finishing(s)')
  <2>1. PICK p \in Staging \ {HeaderPage} : \E d \in StageData(p) : BreaksOff(w, p, d)
    BY <1>4
  <2>2. PICK d \in StageData(p) : BreaksOff(w, p, d)
    BY <2>1
  <2>3. addr = p /\ w = <<Data(d)>>
    BY <1>0, <2>2 DEF BreaksOff
  <2>4. wire' = [wire EXCEPT ![s] = <<>>] /\ up_progmem_write(p, d)
    BY <1>2, <2>3
  <2>5. [Next]_vars /\ ~Installing' /\ pc' = pc
    BY <1>0, <1>1, <2>4, WriteIsStaged
  <2>6. Served(s)'
    BY <1>0, <1>4, <2>4 DEF Served, ServedGone
  <2> QED BY <2>4, <2>5, <2>6
<1>5. /\ Served(s)' /\ wire' = [wire EXCEPT ![s] = <<>>] /\ [Next]_vars
      /\ pc' = pc /\ (Installing' => Finishing(s)')
  BY <1>0, <1>3, <1>4, WritesFramed
<1>6. SessionInv(s)'
  BY <1>0, <1>1, <1>5 DEF SessionInv, Idle
<1>7. ASSUME NEW t \in Sessions, t # s PROVE SessionInv(t)'
  <2>1. wire'[t] = wire[t] /\ answers'[t] = answers[t]
    BY <1>0, <1>5, <1>7 DEF Answer
  <2> QED BY <1>0, <1>7, <2>1, OtherConnections
<1>8. ServerInv'
  BY <1>0, <1>1, <1>5 DEF ServerInv
<1> QED BY <1>5, <1>6, <1>7, <1>8

(***************************************************************************)
(* The device, and all of it together.                                     *)
(***************************************************************************)
\* The bootloader runs while nobody is connected, and starts the application
\* without a header.
LEMMA BootingStep ==
  ASSUME HeaderSectorFree, UploadInv, Booting
  PROVE  ServerInv' /\ \A t \in Sessions : SessionInv(t)'
<1> USE DEF UploadInv, FwInv
<1>0. pc # "app" /\ UNCHANGED <<host, conn, wire, fin, answers, at, cur, addr, blk>>
  BY DEF Booting, Bootstep, PowerOn, main, EraseRegion, copy_flash_region, EraseMagic, network, server
<1>1. at = "accept" /\ \A t \in Sessions : conn[t] \in {"none", "closed"}
  BY <1>0 DEF ServerInv
<1>2. ASSUME NEW t \in Sessions PROVE SessionInv(t)'
  BY <1>0, <1>1, SameSession
<1>3. pc' = "app" => ~Installing'
  <2>1. CASE PowerOn \/ EraseRegion \/ copy_flash_region
    BY <2>1 DEF PowerOn, EraseRegion, copy_flash_region
  <2>2. CASE main
    BY <2>2 DEF main, Installing, Armed
  <2>3. CASE EraseMagic
    BY <2>3, MagicErased
  <2> QED BY <2>1, <2>2, <2>3 DEF Booting, Bootstep
<1>4. ServerInv'
  BY <1>0, <1>1, <1>3 DEF ServerInv
<1> QED BY <1>2, <1>4

\* What a power cut tears under the server is what Bootloader says it may.
LEMMA CutUnderServer ==
  ASSUME UploadInv, FwPowerCut
  PROVE  PowerCut /\ Disconnect /\ pc' = "off"
<1> USE DEF UploadInv, FwInv
<1>1. CASE pc # "app"
  BY <1>1 DEF FwPowerCut, PowerCut
<1>2. CASE pc = "app"
  <2>0. /\ cuts < MaxCuts /\ Torn(ServerBusy) /\ pc' = "off" /\ cuts' = cuts + 1
        /\ UNCHANGED <<upd, i>> /\ Disconnect
    BY <1>2 DEF FwPowerCut
  <2>1. magic_word_sec \in StagingSectors /\ MayErase(magic_word_sec)
    BY GeometryAssumption DEF StagingSectors, MayErase, update_start_sec, magic_word_sec
  <2>2. CASE at = "erase" /\ blk < AppSectors
    <3>1. update_start_sec + blk \in StagingSectors
      <4>1. blk \in 0 .. AppSectors - 1
        BY <2>2, GeometryAssumption DEF ServerOK
      <4> QED BY <4>1, BlocksAreStaging
    <3>2. MayErase(update_start_sec + blk)
      BY <2>2 DEF MayErase, ServerInv
    <3>3. ServerBusy \in Busy
      BY <1>2, <2>2, <3>1, <3>2 DEF ServerBusy, Busy
    <3> QED BY <1>2, <2>0, <3>3 DEF PowerCut
  <2>3. CASE at = "data" /\ addr \in Staging
    <3>1. ~Installing
      BY <1>2, <2>3 DEF ServerInv
    <3>2. ServerBusy \in Busy
      BY <1>2, <2>3, <3>1 DEF ServerBusy, Busy
    <3> QED BY <1>2, <2>0, <3>2 DEF PowerCut
  <2>4. CASE ~(at = "erase" /\ blk < AppSectors) /\ ~(at = "data" /\ addr \in Staging)
    <3>1. ServerBusy = {}
      BY <2>4 DEF ServerBusy
    <3>2. Torn(SectorPages({magic_word_sec}))
      BY <2>0, <3>1 DEF Torn
    <3>3. SectorPages({magic_word_sec}) \in Busy
      BY <1>2, <2>1 DEF Busy
    <3> QED BY <1>2, <2>0, <3>2, <3>3 DEF PowerCut
  <2> QED BY <2>2, <2>3, <2>4
<1> QED BY <1>1, <1>2

LEMMA UploadInit == FwInit => UploadInv
<1> SUFFICES ASSUME FwInit PROVE UploadInv
  OBVIOUS
<1>1. FwInv /\ BootInv
  BY FwInitInv, BootInvInit DEF FwInit
<1>2. ServerInv
  BY DEF FwInit, Init, ServerInv
<1>3. ASSUME NEW t \in Sessions PROVE SessionInv(t)
  BY DEF FwInit, SessionInv, Idle
<1> QED BY <1>1, <1>2, <1>3 DEF UploadInv

LEMMA UploadStep ==
  ASSUME HeaderSectorFree, UploadInv, [FwNext]_fwvars, [Undisturbed]_fwvars
  PROVE  [Next]_vars /\ UploadInv'
<1>1. [Next]_vars /\ ServerInv' /\ \A t \in Sessions : SessionInv(t)'
  <2>1. ASSUME NEW s \in Sessions, Host(s)
        PROVE  UNCHANGED vars /\ ServerInv' /\ \A t \in Sessions : SessionInv(t)'
    BY <2>1, OwnTool, OtherTools, ToolServer DEF UploadInv, Host
  <2>2. ASSUME NEW s \in Sessions, HostAbort(s), Undisturbed
        PROVE  UNCHANGED vars /\ ServerInv' /\ \A t \in Sessions : SessionInv(t)'
    BY <2>2, AbortedTool, AbortedToolServer, OtherTools DEF UploadInv, HostAbort, Undisturbed
  <2>3. CASE Server /\ Undisturbed
    <3>1. CASE Accept
      BY <2>3, <3>1, AcceptUpload DEF Accept
    <3>2. CASE RecvCommand
      BY <2>3, <3>2, CommandReceived DEF RecvCommand
    <3>3. CASE ResetCommand
      BY <3>3, AllDisconnected DEF ResetCommand, AppReset, Next
    <3>4. CASE EraseBlock
      BY <2>3, <3>4, BlockErased
    <3>5. CASE RecvAddr
      BY <2>3, <3>5, AddrReceived DEF RecvAddr
    <3>6. CASE RecvData
      BY <2>3, <3>6, DataReceived
    <3>7. CASE EndOfStream \/ RecvTimeout
      BY <2>3, <3>7, GivenUp DEF EndOfStream, RecvTimeout, Undisturbed
    <3> QED BY <2>3, <3>1, <3>2, <3>3, <3>4, <3>5, <3>6, <3>7 DEF Server, Serve
  <2>4. CASE Booting
    BY <2>4, BootingStep DEF Booting, Next
  <2>5. CASE OtherReset
    BY <2>5, AllDisconnected DEF OtherReset, AppReset, Next
  <2>6. CASE FwPowerCut
    BY <2>6, CutUnderServer, AllDisconnected DEF Next
  <2>7. CASE UNCHANGED fwvars
    <3>1. UNCHANGED <<flash, pc, upd, i, cuts, host, conn, wire, fin, answers, at, cur, addr, blk>>
      BY <2>7 DEF fwvars, vars, network, server
    <3>2. ServerInv'
      BY <3>1 DEF UploadInv, ServerInv, Installing, Armed, Finishing, IsHeader
    <3> QED BY <3>1, <3>2, SameSession DEF UploadInv, vars
  <2> QED BY <2>1, <2>2, <2>3, <2>4, <2>5, <2>6, <2>7 DEF FwNext
<1>2. BootInv'
  BY <1>1, BootInvStep DEF UploadInv, FwInv
<1>3. FwInv'
  BY FwStep DEF UploadInv
<1> QED BY <1>1, <1>2, <1>3 DEF UploadInv

\* An update from end to end is one the bootloader can live with: for every
\* image, geometry and number of clients, wherever a tool dies before its
\* header, the power fails or another reset comes, the server (fw_update.c)
\* and the tool (rffe_nuttx_lib.py) set a header over a complete image only
\* and disturb nothing under it, for as long as no receive timeout comes while
\* bytes are only late and no tool dies between its header and its reset.
\* Nothing in the code rules these two out.
THEOREM UploadsStageSafely ==
  ASSUME HeaderSectorFree
  PROVE  FwSpec /\ [][Undisturbed]_fwvars => StagesSafely
<1>1. UploadInv /\ [FwNext]_fwvars /\ [Undisturbed]_fwvars => [Next]_vars /\ UploadInv'
  BY UploadStep
<1>2. FwInit => Init
  BY DEF FwInit
<1> QED BY <1>1, <1>2, UploadInit, PTL DEF FwSpec, StagesSafely

\* A page the tool has moved past is in the flash, which it takes the answer to
\* mean, though neither side checks it; under the same two conditions.
THEOREM PagesAreWritten ==
  ASSUME HeaderSectorFree
  PROVE  FwSpec /\ [][Undisturbed]_fwvars => []WriteSectorWrites
<1>1. UploadInv => WriteSectorWrites
  <2> SUFFICES ASSUME UploadInv, NEW s \in Sessions,
                      conn[s] = "served", host[s].at \in {"write", "wait_w", "reset"},
                      NEW k \in 0 .. host[s].k - 1, k < Length[host[s].img]
               PROVE  flash[UpdStart + k] = PageOf(host[s].img, k)
    BY DEF WriteSectorWrites
  <2>1. ServedWrite(s) \/ ServedEnd(s)
    BY DEF UploadInv, SessionInv, Served, ServedErase, ServedGone
  <2>2. host[s].k \in Nat /\ k \in Nat /\ Length[host[s].img] \in Nat
    BY ImagesAssumption DEF UploadInv, FwInv, HostsOK
  <2>3. Upto(s, host[s].k) \/ Upto(s, host[s].k + 1) \/ Staged(host[s].img)
    BY <2>1 DEF ServedWrite, ServedEnd
  <2> QED BY <2>2, <2>3 DEF Upto, Staged, At
<1>2. UploadInv /\ [FwNext]_fwvars /\ [Undisturbed]_fwvars => UploadInv'
  BY UploadStep
<1> QED BY <1>1, <1>2, UploadInit, PTL DEF FwSpec

\* So, until bytes are late or a tool leaves its header behind, the device has a
\* complete application, in its place or staged under its header, and its
\* bootloader unless it replaces itself.
THEOREM UndisturbedUploadsAreRecoverable ==
  ASSUME HeaderSectorFree
  PROVE  FwSpec /\ [][Undisturbed]_fwvars =>
           [](Recoverable /\ NeverHung /\ BootAtRiskOnlyInSelfUpdate)
<1>1. FwSpec /\ [][Undisturbed]_fwvars => Spec
  BY UploadsStageSafely DEF StagesSafely, Spec
<1> QED BY <1>1, AlwaysRecoverable, PTL

\* ... and what it runs next is what its user last chose to install: the
\* application that is staged is installed whole, and installed once.
THEOREM UndisturbedUploadsAreInstalled ==
  ASSUME HeaderSectorFree
  PROVE  FwSpec /\ [][Undisturbed]_fwvars =>
           NeverChoosesByAccident /\ InstallsWhatWasStaged /\ NoInstallLeftBehind
<1>1. FwSpec /\ [][Undisturbed]_fwvars => Spec
  BY UploadsStageSafely DEF StagesSafely, Spec
<1> QED BY <1>1, Refinement, InstallsTheStagedImage, InstalledOnce

=============================================================================
