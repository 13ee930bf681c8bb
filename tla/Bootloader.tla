----------------------------- MODULE Bootloader -----------------------------
(***************************************************************************)
(* The bootloader of the RFFE controller (bootloader/src/main.c) and the   *)
(* flash it works on, page by page.  The flash holds three regions,        *)
(*                                                                         *)
(*      0 .. AppStart-1           the bootloader itself                    *)
(*      AppStart .. UpdStart-1    the application                          *)
(*      UpdStart .. FlashPages-1  the staging area of a firmware update    *)
(*                                                                         *)
(* and the last page of the staging area may hold a header that makes the  *)
(* bootloader install what is staged.  Power may fail at any moment, also  *)
(* in the middle of an erase or of the programming of a page.              *)
(***************************************************************************)
EXTENDS Integers, FiniteSets

CONSTANTS
  BootSectors,   \* small sectors of the bootloader region (16 in the LPC1769)
  SmallPages,    \* 256-byte pages of a small sector       (16)
  AppSectors,    \* large sectors of the application, and of the staging area (7)
  LargePages,    \* pages of a large sector                (128)
  AppImages,     \* the application images
  BootImages,    \* the bootloader images
  Uploads,       \* the images that are ever staged
  Length,        \* Length[img]: how many pages the image takes
  Reserved,      \* pages at the end of the staging area no image reaches
  MaxCuts        \* bound on the power cuts of one behaviour

ASSUME GeometryAssumption ==
  /\ BootSectors \in Nat \ {0} /\ SmallPages \in Nat \ {0}
  /\ AppSectors \in Nat \ {0}  /\ LargePages \in Nat \ {0}
  /\ BootSectors * SmallPages <= AppSectors * LargePages

None == <<"none", 0, 0>>   \* no image

ASSUME ImagesAssumption ==
  /\ None \notin AppImages
  /\ AppImages \cap BootImages = {}
  /\ Uploads \subseteq AppImages \cup BootImages
  /\ Reserved \in Nat
  /\ Length \in [AppImages \cup BootImages -> Nat \ {0}]
  /\ \A img \in AppImages : Length[img] <= AppSectors * LargePages - Reserved
  /\ \A img \in BootImages : /\ Length[img] <= BootSectors * SmallPages
                             /\ Length[img] <= AppSectors * LargePages - Reserved

ASSUME MaxCutsAssumption == MaxCuts \in Nat

boot_size == BootSectors * SmallPages
app_size  == AppSectors * LargePages
AppStart   == boot_size
UpdStart   == AppStart + app_size
FlashPages == UpdStart + app_size
HeaderPage == FlashPages - 1

Pages   == 0 .. FlashPages - 1
Staging == UpdStart .. FlashPages - 1

boot_start_sec   == 0
boot_end_sec     == BootSectors - 1
app_start_sec    == BootSectors
update_start_sec == BootSectors + AppSectors
magic_word_sec   == BootSectors + 2 * AppSectors - 1
Sectors          == 0 .. magic_word_sec

get_sector_number(page) ==
  IF page < boot_size
  THEN page \div SmallPages
  ELSE ((page - boot_size) \div LargePages) + BootSectors

SectorPages(secs) == {p \in Pages : get_sector_number(p) \in secs}

(***************************************************************************)
(* What a page can hold: nothing, garbage, page k of an image, or a header *)
(* with the magic word and a firmware type.  An image only ever occurs     *)
(* under its own page numbers, so that a page copied to the wrong place is *)
(* seen to be wrong.                                                       *)
(***************************************************************************)
Images     == AppImages \cup BootImages
AppType    == 1
BootType   == 2
OtherType  == 0          \* any other value of the fw_type byte
Blank          == <<"blank", 0, 0>>
Corrupt        == <<"corrupt", 0, 0>>
Header(t)      == <<"header", t, 0>>
PageOf(img, k) == <<"page", img, k>>
Content        == {Blank, Corrupt} \cup {Header(t) : t \in {AppType, BootType, OtherType}}
                    \cup ({"page"} \X Images \X Nat)
ImagesOf(t) == IF t = AppType THEN AppImages ELSE BootImages

VARIABLES
  flash,   \* the flash, page by page: all that survives a power cut
  pc,      \* what the processor executes
  upd,     \* the firmware type the running update installs
  i,       \* the page copy_flash_region is at
  cuts     \* how often the power failed

vars == <<flash, pc, upd, i, cuts>>

TypeOK ==
  /\ flash \in [Pages -> Content]
  /\ pc \in {"off", "main", "erase", "copy", "magic", "app", "hung", "dead"}
  /\ upd \in {AppType, BootType}
  /\ i \in Nat
  /\ cuts \in 0 .. MaxCuts

Armed(t)            == flash[HeaderPage] = Header(t)
Installing          == \E t \in {AppType, BootType} : Armed(t)
At(f, img, base)    == \A k \in 0 .. Length[img] - 1 : f[base + k] = PageOf(img, k)
Staged(img)         == At(flash, img, UpdStart)
StagedComplete(t)   == \E img \in ImagesOf(t) : Staged(img)
AppIn(f)            == \E img \in AppImages : At(f, img, AppStart)
AppIntact           == AppIn(flash)
BootIntact          == \E img \in BootImages : At(flash, img, 0)

(***************************************************************************)
(* The in-application programming calls of the chip's ROM.  A call on a    *)
(* sector that has not been prepared is refused and changes nothing, and   *)
(* the code ignores the result of every call.  A page is programmed whole; *)
(* one that was not blank is garbage afterwards.                           *)
(***************************************************************************)
lpc17_iap_erase_sectors(prepared, first, last) ==
  IF first .. last \subseteq prepared
  THEN [p \in Pages |-> IF p \in SectorPages(first .. last) THEN Blank ELSE flash[p]]
  ELSE flash

lpc17_iap_copy_ram_flash(prepared, page, buffer) ==
  IF get_sector_number(page) \in prepared
  THEN [flash EXCEPT ![page] = IF @ = Blank THEN buffer ELSE Corrupt]
  ELSE flash

(***************************************************************************)
(* The reset vector: without an intact bootloader nothing runs.            *)
(***************************************************************************)
PowerOn ==
  /\ pc = "off"
  /\ pc' = IF BootIntact THEN "main" ELSE "dead"
  /\ UNCHANGED <<flash, upd, i, cuts>>

\* Jump through the application's vector table, whatever the flash f holds.
start_app(f) == pc' = IF AppIn(f) THEN "app" ELSE "hung"

\* Variants with a plausible mistake, for the checks of the properties.
main_IgnoresHeader ==
  /\ pc = "main"
  /\ start_app(flash)
  /\ UNCHANGED <<flash, upd, i, cuts>>

main ==
  /\ pc = "main"
  /\ \/ \E t \in {AppType, BootType} : /\ Armed(t)
                                       /\ upd' = t
                                       /\ pc' = "erase"
     \/ /\ ~Installing
        /\ start_app(flash)
        /\ UNCHANGED upd
  /\ UNCHANGED <<flash, i, cuts>>

FirstSec_OffByOne == IF upd = AppType THEN app_start_sec - 1 ELSE boot_start_sec

\* The first and last sector, and the first page, of the region being updated.
FirstSec  == IF upd = AppType THEN app_start_sec ELSE boot_start_sec
LastSec   == IF upd = AppType THEN update_start_sec - 1 ELSE boot_end_sec
Dest      == IF upd = AppType THEN AppStart ELSE 0
len       == IF upd = AppType THEN app_size ELSE boot_size

EraseRegion_MagicFirst ==
  /\ pc = "erase"
  /\ flash' = [lpc17_iap_erase_sectors(FirstSec .. LastSec, FirstSec, LastSec)
                 EXCEPT ![HeaderPage] = Blank]
  /\ pc' = "copy"
  /\ i' = 0
  /\ UNCHANGED <<upd, cuts>>

\* update_app and update_bootloader: prepare and erase the region ...
EraseRegion ==
  /\ pc = "erase"
  /\ flash' = lpc17_iap_erase_sectors(FirstSec .. LastSec, FirstSec, LastSec)
  /\ pc' = "copy"
  /\ i' = 0
  /\ UNCHANGED <<upd, cuts>>

copy_flash_region_NoPrepare ==
  /\ pc = "copy"
  /\ IF i < len
     THEN /\ flash' = lpc17_iap_copy_ram_flash({}, Dest + i, flash[UpdStart + i])
          /\ i' = i + 1
          /\ UNCHANGED pc
     ELSE pc' = "magic" /\ UNCHANGED <<flash, i>>
  /\ UNCHANGED <<upd, cuts>>

copy_flash_region_WordsForBytes ==
  /\ pc = "copy"
  /\ IF i < len \div 4
     THEN /\ flash' = lpc17_iap_copy_ram_flash({get_sector_number(Dest + i)},
                                              Dest + i, flash[UpdStart + i])
          /\ i' = i + 1
          /\ UNCHANGED pc
     ELSE pc' = "magic" /\ UNCHANGED <<flash, i>>
  /\ UNCHANGED <<upd, cuts>>

\* ... copy it page by page, preparing the one sector before every page ...
copy_flash_region ==
  /\ pc = "copy"
  /\ IF i < len
     THEN /\ flash' = lpc17_iap_copy_ram_flash({get_sector_number(Dest + i)},
                                              Dest + i, flash[UpdStart + i])
          /\ i' = i + 1
          /\ UNCHANGED pc
     ELSE /\ pc' = "magic"
          /\ UNCHANGED <<flash, i>>
  /\ UNCHANGED <<upd, cuts>>

EraseMagic_NotPrepared ==
  /\ pc = "magic"
  /\ flash' = lpc17_iap_erase_sectors({}, magic_word_sec, magic_word_sec)
  /\ start_app(flash')
  /\ UNCHANGED <<upd, i, cuts>>

\* ... then erase the sector of the header, and start the application.
EraseMagic ==
  /\ pc = "magic"
  /\ flash' = lpc17_iap_erase_sectors({magic_word_sec}, magic_word_sec, magic_word_sec)
  /\ start_app(flash')
  /\ UNCHANGED <<upd, i, cuts>>

(***************************************************************************)
(* The running application stages an update.  These are the steps it may   *)
(* take; module FwUpdate shows which of them the firmware update server    *)
(* takes, and when.  A staged header is only ever disturbed by erasing its *)
(* own sector.                                                             *)
(***************************************************************************)
StagingSectors == update_start_sec .. magic_word_sec
MayErase(sec)  == Installing => sec = magic_word_sec

Erased(sec) == [p \in Pages |-> IF p \in SectorPages({sec}) THEN Blank ELSE flash[p]]

StageErase(sec) ==
  /\ pc = "app"
  /\ MayErase(sec)
  /\ flash' = Erased(sec)
  /\ UNCHANGED <<pc, upd, i, cuts>>

Programmed(page, data) ==
  [flash EXCEPT ![page] = IF @ = Blank THEN data ELSE Corrupt]

StageWrite(page, data) ==
  /\ pc = "app"
  /\ page # HeaderPage
  /\ ~Installing
  /\ flash' = Programmed(page, data)
  /\ UNCHANGED <<pc, upd, i, cuts>>

Arm(t) ==
  /\ pc = "app"
  /\ t \in {AppType, BootType} => StagedComplete(t)
  /\ flash' = Programmed(HeaderPage, Header(t))
  /\ UNCHANGED <<pc, upd, i, cuts>>

AppReset ==
  /\ pc = "app"
  /\ pc' = "off"
  /\ UNCHANGED <<flash, upd, i, cuts>>

(***************************************************************************)
(* A power cut.  Busy lists what may be in the middle of being erased or   *)
(* programmed: a cut leaves any part of such a set of pages unreadable.    *)
(* The header goes through two more forms while its bits change: it may    *)
(* lose its type and keep its magic word.                                  *)
(***************************************************************************)
Busy ==
  CASE pc = "erase" -> {SectorPages(FirstSec .. LastSec)}
    [] pc = "copy"  -> {{}} \cup {{Dest + i} : j \in {n \in {i} : n < len}}
    [] pc = "magic" -> {SectorPages({magic_word_sec})}
    [] pc = "app"   -> {SectorPages({sec}) : sec \in {s \in StagingSectors : MayErase(s)}}
                         \cup {{p} : p \in {q \in Staging : ~Installing}}
    [] OTHER        -> {{}}

Torn(S) ==
  \E T \in SUBSET S, remains \in {Corrupt, Header(OtherType)} :
    flash' = [p \in Pages |-> IF p \notin T THEN flash[p]
                              ELSE IF p = HeaderPage THEN remains ELSE Corrupt]

PowerCut ==
  /\ pc # "off" /\ cuts < MaxCuts
  /\ \E S \in Busy : Torn(S)
  /\ pc' = "off"
  /\ cuts' = cuts + 1
  /\ UNCHANGED <<upd, i>>

Bootstep == PowerOn \/ main \/ EraseRegion \/ copy_flash_region \/ EraseMagic

\* What may be written at a staging page: the page of an image, or junk.
StageData(page) ==
  {Corrupt} \cup {PageOf(img, page - UpdStart) :
                   img \in {u \in Uploads : page - UpdStart < Length[u]}}

Stage ==
  \/ \E sec \in StagingSectors : StageErase(sec)
  \/ \E page \in Staging : \E data \in StageData(page) : StageWrite(page, data)
  \/ \E t \in {AppType, BootType, OtherType} : Arm(t)

Next == Bootstep \/ Stage \/ AppReset \/ PowerCut

(***************************************************************************)
(* A device as it is delivered: a bootloader and an application, nothing   *)
(* staged.                                                                 *)
(***************************************************************************)
Holds(img, base, p) == p \in base .. base + Length[img] - 1

Init ==
  /\ \E boot \in BootImages, app \in AppImages :
       flash = [p \in Pages |->
                  IF Holds(boot, 0, p) THEN PageOf(boot, p)
                  ELSE IF Holds(app, AppStart, p) THEN PageOf(app, p - AppStart)
                  ELSE Blank]
  /\ pc = "off"
  /\ upd = AppType
  /\ i = 0
  /\ cuts = 0

Spec == Init /\ [][Next]_vars
FairSpec == Spec /\ WF_vars(Bootstep)

(***************************************************************************)
(* Properties.                                                             *)
(***************************************************************************)
\* Whatever was interrupted, and however often, the device has a complete
\* application: in its place, or staged with the header that makes the
\* bootloader install it (main reads the header again after every reset, and
\* update_app erases it only after the last page is copied).
Recoverable == AppIntact \/ (Armed(AppType) /\ StagedComplete(AppType))

\* start_app never jumps into an application region that holds no complete
\* application, although it checks nothing.
NeverHung == pc # "hung"

\* The bootloader's own region is at risk only from the erase to the last page
\* of update_bootloader: an application update interrupted at any point, or
\* staged in any order, leaves it intact.
BootAtRiskOnlyInSelfUpdate ==
  BootIntact \/ (Armed(BootType) /\ StagedComplete(BootType))

\* The inductive invariant behind the two above.  A header is only set over a
\* complete image; the bootloader works on the region its header names; the
\* pages copied so far are the staged ones and the rest of the region is
\* blank; and each region is intact unless a header says it is replaced.
CopiedSoFar ==
  \A k \in 0 .. len - 1 :
    flash[Dest + k] = IF k < i THEN flash[UpdStart + k] ELSE Blank

BootInv ==
  /\ \A t \in {AppType, BootType} : Armed(t) => StagedComplete(t)
  /\ pc \in {"erase", "copy", "magic"} => Armed(upd)
  /\ pc \in {"copy", "magic"} => i <= len /\ CopiedSoFar
  /\ pc = "magic" => i = len
  /\ AppIntact \/ Armed(AppType)
  /\ pc = "app" => AppIntact
  /\ BootIntact \/ (Armed(BootType) /\ pc \in {"off", "dead", "erase", "copy"})
  /\ NeverHung

\* What an update installs is what was staged: when update_app hands over, the
\* application region holds the very image the staging area held.
InstallsWhatWasStaged ==
  [][\A img \in AppImages :
       (pc = "magic" /\ upd = AppType /\ Staged(img) /\ pc' # "off") => At(flash', img, AppStart)]_vars

\* README: the header is erased "to prevent unnecessary rewrites to flash after
\* reset".  No reset installs an update that has been installed: the
\* application is only ever started with no installable header left.
NoInstallLeftBehind == [][(pc # "app" /\ pc' = "app") => ~Installing']_vars

\* A staged update is installed in the end, when the power stays on at last.
UpdateIsInstalled ==
  \A img \in AppImages :
    (pc = "off" /\ Armed(AppType) /\ Staged(img))
      ~> (pc = "app" /\ At(flash, img, AppStart))

(***************************************************************************)
(* The abstract specification: the image the device is going to run is the *)
(* staged one while an application header is set, the one in place         *)
(* otherwise.                                                              *)
(***************************************************************************)
ImageIn(f, base) ==
  IF \E img \in AppImages : At(f, img, base)
  THEN CHOOSE img \in AppImages : At(f, img, base)
  ELSE None

selected == IF Armed(AppType) THEN ImageIn(flash, UpdStart) ELSE ImageIn(flash, AppStart)
running  == IF pc = "app" THEN ImageIn(flash, AppStart) ELSE None

Abstract == INSTANCE SafeInstall WITH Apps <- AppImages

\* Bootloader implements SafeInstall: an update takes effect in one step, the
\* programming of its header; nothing update_app does, and no power cut, ever
\* changes which application the device will run.
NeverChoosesByAccident == Abstract!Init /\ [][Abstract!Next]_(Abstract!vars)

\* It also gets to run it, unless a self-update is cut short and leaves the
\* device without a bootloader.
ImplementsSafeInstall ==
  /\ NeverChoosesByAccident
  /\ (running = None) ~> (running # None \/ pc = "dead")
=============================================================================
