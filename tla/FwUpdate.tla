------------------------------ MODULE FwUpdate ------------------------------
(***************************************************************************)
(* A firmware update from end to end: the upload tool                      *)
(* (utils/rffe_nuttx_lib.py), its TCP connection, the firmware update      *)
(* server of the running application (rffe-app/fw_update.c) and, after the *)
(* reset, the bootloader of module Bootloader, whose variables and actions *)
(* this module takes over.                                                 *)
(*                                                                         *)
(* A connection carries segments instead of bytes: a command letter, the   *)
(* four bytes of an address, the 256 bytes of a page.  The protocol has no *)
(* framing, so a server that gives up in the middle of a command reads the *)
(* rest of it as commands: what is left of a segment then is Junk, bytes   *)
(* of any value.                                                           *)
(***************************************************************************)
EXTENDS Bootloader, Sequences

CONSTANTS
  Sessions,      \* the uploads that are ever started
  MaxAnswers,    \* bound on the answers waiting in a connection
  Stalls,        \* the network may delay bytes by more than the receive timeout
  HostFinishes   \* a tool that has sent the header lives to send the reset

ASSUME SessionsAssumption ==
  /\ MaxAnswers \in Nat \ {0}
  /\ Stalls \in BOOLEAN /\ HostFinishes \in BOOLEAN

VARIABLES
  host,    \* host[s]: the tool: [at, img, k], k the page it is at
  conn,    \* conn[s]: "none", "queued", "served" or "closed"
  wire,    \* wire[s]: segments sent and not yet received
  fin,     \* fin[s]: the tool's end is closed, and the server can see it
  answers, \* answers[s]: answer bytes the tool has not read
  at,      \* where the server is
  cur,     \* the session it serves
  addr,    \* start_addr, the page it received an address for
  blk      \* the block it is going to erase

server  == <<at, cur, addr, blk>>
network == <<host, conn, wire, fin, answers>>
fwvars  == <<vars, network, server>>

Junk      == <<"junk", 0>>
Cmd(c)    == <<c, 0>>
Addr(p)   == <<"addr", p>>
Data(d)   == <<"data", d>>
Letters   == {"e", "w", "r"}
BadAddr   == FlashPages          \* any address outside the flash
NoSession == 0

TypeFor(img) == IF img \in AppImages THEN AppType ELSE BootType

FwTypeOK ==
  /\ TypeOK
  /\ \A s \in Sessions :
       /\ host[s].at \in {"idle", "erase", "wait_e", "write", "wait_w", "reset", "done", "gone"}
       /\ host[s].img \in Images \cup {None}
       /\ host[s].k \in Nat
       /\ conn[s] \in {"none", "queued", "served", "closed"}
       /\ \A n \in DOMAIN wire[s] : wire[s][n][1] \in Letters \cup {"addr", "data", "junk"}
       /\ fin[s] \in BOOLEAN
       /\ answers[s] \in 0 .. MaxAnswers
  /\ at \in {"accept", "cmd", "addr", "data", "erase"}
  /\ cur \in Sessions \cup {NoSession}
  /\ addr \in Pages \cup {BadAddr}
  /\ blk \in 0 .. AppSectors

(***************************************************************************)
(* The upload tool.  reprogram() erases, writes page after page and then   *)
(* the header page, and resets.  It reads one answer byte per command and  *)
(* looks at none.                                                          *)
(***************************************************************************)
Move(s, loc) == host' = [host EXCEPT ![s].at = loc]
Send(s, segs) == wire' = [wire EXCEPT ![s] = IF conn[s] = "closed" THEN @ ELSE @ \o segs]

Connect(s) ==
  /\ host[s].at = "idle"
  /\ pc = "app"
  /\ \E img \in Uploads : host' = [host EXCEPT ![s] = [at |-> "erase", img |-> img, k |-> 0]]
  /\ conn' = [conn EXCEPT ![s] = "queued"]
  /\ UNCHANGED <<wire, fin, answers>>

erase_all(s) ==
  /\ host[s].at = "erase"
  /\ Send(s, <<Cmd("e")>>)
  /\ Move(s, "wait_e")
  /\ UNCHANGED <<conn, fin, answers>>

IsHeader_OneEarly(s) == host[s].k + 1 = Length[host[s].img]
\* The page the tool writes next: one of the image, or the header after the last.
IsHeader(s) == host[s].k = Length[host[s].img]
PageAddr(s) == IF IsHeader(s) THEN HeaderPage ELSE UpdStart + host[s].k
PageData(s) == IF IsHeader(s) THEN Header(TypeFor(host[s].img))
               ELSE PageOf(host[s].img, host[s].k)

write_sector(s) ==
  /\ host[s].at = "write"
  /\ Send(s, <<Cmd("w"), Addr(PageAddr(s)), Data(PageData(s))>>)
  /\ Move(s, "wait_w")
  /\ UNCHANGED <<conn, fin, answers>>

\* One answer byte, whatever its value; recv(1) gives none when the connection
\* is closed, and the tool does not look at that either.
ReadAnswer(s) ==
  /\ answers[s] > 0 \/ conn[s] = "closed"
  /\ answers' = [answers EXCEPT ![s] = IF @ > 0 THEN @ - 1 ELSE 0]
  /\ \/ /\ host[s].at = "wait_e"
        /\ Move(s, "write")
     \/ /\ host[s].at = "wait_w"
        /\ host' = [host EXCEPT ![s].at = IF IsHeader(s) THEN "reset" ELSE "write",
                                ![s].k = IF IsHeader(s) THEN @ ELSE @ + 1]
  /\ UNCHANGED <<conn, wire, fin>>

reset_JustCloses(s) ==
  /\ host[s].at = "reset"
  /\ Move(s, "done")
  /\ fin' = [fin EXCEPT ![s] = TRUE]
  /\ UNCHANGED <<conn, wire, answers>>

reset(s) ==
  /\ host[s].at = "reset"
  /\ Send(s, <<Cmd("r")>>)
  /\ Move(s, "done")
  /\ fin' = [fin EXCEPT ![s] = TRUE]
  /\ UNCHANGED <<conn, answers>>

\* The tool is killed, or its machine or network goes away, with the closing
\* of its connection seen by the server or not; part of what it sent is lost.
HeaderSent(s) == host[s].at \in {"wait_w", "reset"} /\ IsHeader(s)

HostAbort(s) ==
  /\ host[s].at \notin {"idle", "done", "gone"}
  /\ HostFinishes /\ HeaderSent(s) => conn[s] = "closed"
  /\ Move(s, "gone")
  /\ \E n \in 0 .. Len(wire[s]) : wire' = [wire EXCEPT ![s] = SubSeq(@, 1, n)]
  /\ fin' \in {fin, [fin EXCEPT ![s] = TRUE]}
  /\ UNCHANGED <<conn, answers, vars, server>>

Host(s) ==
  /\ \/ Connect(s) \/ erase_all(s) \/ write_sector(s) \/ ReadAnswer(s) \/ reset(s)
  /\ UNCHANGED <<vars, server>>

(***************************************************************************)
(* The firmware update server: one thread, one connection at a time.       *)
(***************************************************************************)
Goto(loc) == at' = loc

Accept ==
  /\ at = "accept"
  /\ \E s \in Sessions : /\ conn[s] = "queued"
                         /\ conn' = [conn EXCEPT ![s] = "served"]
                         /\ cur' = s
  /\ Goto("cmd")
  /\ UNCHANGED <<vars, host, wire, fin, answers, addr, blk>>

Incoming  == wire[cur]
Receive   == wire' = [wire EXCEPT ![cur] = Tail(@)]
Answer    == answers' = [answers EXCEPT ![cur] = IF @ < MaxAnswers THEN @ + 1 ELSE @]

\* What may be left of the stream when part of its bytes has been consumed
\* without regard to the segments.
Leftovers(w) ==
  {Tail(w), <<Junk>> \o Tail(w)}
    \cup (IF Len(w) > 1 THEN {<<Junk>> \o Tail(Tail(w))} ELSE {})
Misread == \E rest \in Leftovers(Incoming) : wire' = [wire EXCEPT ![cur] = rest]

\* A command letter, or the first byte of anything else: any byte at all.
CommandsIn(seg) == IF seg[1] \in Letters THEN {seg[1]} ELSE Letters \cup {"other"}

RecvCommand ==
  /\ at = "cmd" /\ Incoming # <<>>
  /\ IF Head(Incoming)[1] \in Letters THEN Receive ELSE Misread
  /\ \E c \in CommandsIn(Head(Incoming)) :
       \/ c = "e" /\ Goto("erase") /\ blk' = 0 /\ UNCHANGED <<answers, cur>>
       \/ c = "w" /\ Goto("addr") /\ UNCHANGED <<answers, blk, cur>>
       \/ c = "other" /\ Answer /\ UNCHANGED <<at, blk, cur>>
  /\ UNCHANGED <<vars, host, conn, fin, addr>>

\* boardctl(BOARDIOC_RESET): the application and its connections are gone.
Disconnect ==
  /\ conn' = [s \in Sessions |-> IF conn[s] = "none" THEN "none" ELSE "closed"]
  /\ wire' = [s \in Sessions |-> <<>>]
  /\ Goto("accept") /\ cur' = NoSession /\ addr' = 0 /\ blk' = 0
  /\ UNCHANGED <<host, fin, answers>>

ResetCommand ==
  /\ at = "cmd" /\ Incoming # <<>>
  /\ "r" \in CommandsIn(Head(Incoming))
  /\ AppReset
  /\ Disconnect

\* The drivers under the server, in the running application.
up_progmem_eraseblock(b) ==
  pc = "app" /\ flash' = Erased(update_start_sec + b) /\ UNCHANGED <<pc, upd, i, cuts>>
up_progmem_write(page, data) ==
  pc = "app" /\ flash' = Programmed(page, data) /\ UNCHANGED <<pc, upd, i, cuts>>

\* Erase the blocks of the staging area one after the other, then answer.
EraseBlock ==
  /\ at = "erase"
  /\ \/ /\ blk < AppSectors
        /\ up_progmem_eraseblock(blk)
        /\ blk' = blk + 1
        /\ UNCHANGED <<network, at, cur, addr>>
     \/ /\ blk = AppSectors
        /\ Answer
        /\ Goto("cmd")
        /\ UNCHANGED <<vars, host, conn, wire, fin, cur, addr, blk>>

RecvAddr ==
  /\ at = "addr" /\ Incoming # <<>>
  /\ IF Head(Incoming)[1] = "addr"
     THEN addr' = Head(Incoming)[2] /\ Receive
     ELSE addr' \in Pages \cup {BadAddr} /\ Misread
  /\ Goto("data")
  /\ UNCHANGED <<vars, host, conn, fin, answers, cur, blk>>

RecvData_Checked(inside) ==
  /\ at = "data" /\ Incoming # <<>>
  /\ IF Head(Incoming)[1] = "data" THEN Receive ELSE Misread
  /\ IF inside
     THEN up_progmem_write(addr, IF Head(Incoming)[1] = "data" THEN Head(Incoming)[2] ELSE Corrupt)
     ELSE UNCHANGED vars
  /\ Answer /\ Goto("cmd")
  /\ UNCHANGED <<host, conn, fin, cur, addr, blk>>

RecvData_OffByOne     == RecvData_Checked(addr > UpdStart /\ addr <= FlashPages - 1)
RecvData_NoLowerBound == RecvData_Checked(addr <= FlashPages - 1)

\* The address has to lie in the staging area; the result of the write is not
\* looked at.
RecvData ==
  /\ at = "data" /\ Incoming # <<>>
  /\ LET framed == Head(Incoming)[1] = "data"
         data   == IF framed THEN Head(Incoming)[2] ELSE Corrupt
     IN  /\ IF framed THEN Receive ELSE Misread
         /\ IF addr >= UpdStart /\ addr <= FlashPages - 1
            THEN up_progmem_write(addr, data)
            ELSE UNCHANGED vars
  /\ Answer
  /\ Goto("cmd")
  /\ UNCHANGED <<host, conn, fin, cur, addr, blk>>

Close == conn' = [conn EXCEPT ![cur] = "closed"] /\ Goto("accept")

\* recv() returns less than it was asked for.  At a command this closes the
\* connection; inside a write command it leaves the switch only, and the
\* server goes on to read a command.
ShortRead ==
  IF at = "cmd" THEN Close ELSE Goto("cmd") /\ UNCHANGED conn

EndOfStream ==
  /\ at \in {"cmd", "addr", "data"}
  /\ Incoming = <<>> /\ fin[cur]
  /\ ShortRead
  /\ UNCHANGED <<vars, host, wire, fin, answers, cur, addr, blk>>

RecvTimeout_NotSet == FALSE /\ UNCHANGED fwvars

\* 30 seconds without the bytes asked for; some of them may have arrived.
RecvTimeout ==
  /\ at \in {"cmd", "addr", "data"}
  /\ Stalls \/ (Incoming = <<>> /\ host[cur].at = "gone")
  /\ ShortRead
  /\ UNCHANGED wire \/ (at # "cmd" /\ Incoming # <<>> /\ Misread)
  /\ UNCHANGED <<vars, host, fin, answers, cur, addr, blk>>

Serve ==
  \/ Accept \/ RecvCommand \/ ResetCommand \/ EraseBlock \/ RecvAddr \/ RecvData
  \/ EndOfStream \/ RecvTimeout

Server == pc = "app" /\ Serve

(***************************************************************************)
(* The device: the bootloader, a reset asked for through another interface *)
(* (the SCPI command SYSTem:RESet), and power cuts.                                *)
(***************************************************************************)
Booting == Bootstep /\ UNCHANGED <<network, server>>

OtherReset == AppReset /\ Disconnect

\* What the running application may be in the middle of.
ServerBusy ==
  CASE at = "erase" /\ blk < AppSectors -> SectorPages({update_start_sec + blk})
    [] at = "data" /\ addr \in Staging  -> {addr}
    [] OTHER                             -> {}

FwPowerCut ==
  /\ IF pc = "app"
     THEN /\ cuts < MaxCuts
          /\ Torn(ServerBusy)
          /\ pc' = "off" /\ cuts' = cuts + 1
          /\ UNCHANGED <<upd, i>>
     ELSE PowerCut
  /\ Disconnect

FwNext ==
  \/ \E s \in Sessions : Host(s) \/ HostAbort(s)
  \/ Server \/ Booting \/ OtherReset \/ FwPowerCut

FwInit ==
  /\ Init
  /\ host = [s \in Sessions |-> [at |-> "idle", img |-> None, k |-> 0]]
  /\ conn = [s \in Sessions |-> "none"]
  /\ wire = [s \in Sessions |-> <<>>]
  /\ fin = [s \in Sessions |-> FALSE]
  /\ answers = [s \in Sessions |-> 0]
  /\ at = "accept" /\ cur = NoSession /\ addr = 0 /\ blk = 0

FwSpec == FwInit /\ [][FwNext]_fwvars

(***************************************************************************)
(* Fairness: the processor executes, and a tool that is alive goes on.  A  *)
(* connection that was closed under a tool ends it (HostAbort).            *)
(***************************************************************************)
FwFairSpec ==
  /\ FwSpec
  /\ WF_fwvars(Booting) /\ WF_fwvars(Server)
  /\ \A s \in Sessions : WF_fwvars(Host(s) /\ host[s].at # "idle")

(***************************************************************************)
(* Properties.                                                             *)
(***************************************************************************)
\* Every step of the tool, the connection and the server is a step the
\* bootloader can live with: no page under a set header is disturbed, and a
\* header is set over a complete image only.
StagesSafely == Init /\ [][Next]_vars

\* The two things that go wrong between a tool and a device without either
\* noticing: a receive timeout while bytes are only late, and a tool that dies
\* after it sent the header, before the reset.
LateBytes           == RecvTimeout /\ ~EndOfStream /\ ~(Incoming = <<>> /\ host[cur].at = "gone")
HeaderLeftBehind(s) == HostAbort(s) /\ HeaderSent(s) /\ conn[s] # "closed"
Undisturbed         == ~LateBytes /\ \A s \in Sessions : ~HeaderLeftBehind(s)

\* Whatever reaches the staging area, late or cut short, and whoever sets the
\* header: uploads of applications leave the bootloader's region alone, so the
\* device always gets as far as main().
BootloaderSurvives == Uploads \subseteq AppImages => BootIntact /\ pc # "dead"

\* "New app firmware update found!", says the bootloader when it finds the magic
\* word: an installation only starts when a whole firmware is staged.
\* The code does not keep this (README.md, section 5).
MagicMeansNewFirmware == pc = "erase" => StagedComplete(upd)

\* The tool's write_sector() "Write data to flash": a page it has moved past
\* is in the staging area, until the device is reset.
WriteSectorWrites ==
  \A s \in Sessions :
    (conn[s] = "served" /\ host[s].at \in {"write", "wait_w", "reset"}) =>
      \A k \in 0 .. host[s].k - 1 :
        k < Length[host[s].img] => flash[UpdStart + k] = PageOf(host[s].img, k)

\* However misread the stream is, the server leaves the bootloader and the
\* application it runs in alone.
OnlyStagingWritten ==
  [][pc = "app" => \A p \in 0 .. UpdStart - 1 : flash'[p] = flash[p]]_fwvars

\* A client that dies or falls silent in any state does not keep the server:
\* it gets back to accept(), unless the device is reset or loses power.
ServerComesBack == (pc = "app" /\ at # "accept") ~> (at = "accept" \/ pc # "app")

\* A header that has been set leads to the image it was set for.
ArmedGetsInstalled ==
  \A img \in AppImages :
    (pc = "app" /\ Armed(AppType) /\ Staged(img)) ~> (pc = "app" /\ At(flash, img, AppStart))
=============================================================================
