-------------------------- MODULE BootloaderProofs --------------------------
(***************************************************************************)
(* Theorems about Bootloader for every flash geometry and every set of     *)
(* images, as long as no image reaches the sector of the header.           *)
(***************************************************************************)
EXTENDS Bootloader, TLAPS

HeaderSectorFree == Reserved >= LargePages

\* Division by a sector size respects multiples of it.
LEMMA DivLemma ==
  ASSUME NEW a \in Nat, NEW b \in Nat \ {0}, NEW k \in Nat
  PROVE  (a < k * b) <=> (a \div b < k)
<1> DEFINE q == a \div b
           r == a % b
<1>1. q \in Nat /\ r \in 0 .. b - 1 /\ a = b * q + r
  BY Z3
<1>2. CASE q < k
  <2>1. q + 1 <= k
    BY <1>1, <1>2
  <2>2. b * (q + 1) <= b * k
    BY <1>1, <2>1, Z3
  <2> QED
    BY <1>1, <1>2, <2>2, Z3
<1>3. CASE q >= k
  <2>1. b * k <= b * q
    BY <1>1, <1>3, Z3
  <2> QED
    BY <1>1, <1>3, <2>1, Z3
<1> QED
  BY <1>1, <1>2, <1>3

(***************************************************************************)
(* The geometry: which sectors the regions are made of.                    *)
(***************************************************************************)
LEMMA Sizes ==
  /\ boot_size \in Nat \ {0} /\ app_size \in Nat \ {0}
  /\ boot_size <= app_size
  /\ LargePages <= app_size
  /\ AppStart = boot_size /\ UpdStart = boot_size + app_size
  /\ FlashPages = boot_size + 2 * app_size
<1>1. BootSectors * SmallPages \in Nat \ {0} /\ AppSectors * LargePages \in Nat \ {0}
  BY GeometryAssumption, Z3
<1>2. LargePages <= AppSectors * LargePages
  BY GeometryAssumption, Z3
<1> QED
  BY <1>1, <1>2, GeometryAssumption
     DEF boot_size, app_size, AppStart, UpdStart, FlashPages

\* The sector of a page of the bootloader region, and of any later page.
LEMMA SectorOfBootPage ==
  ASSUME NEW p \in 0 .. AppStart - 1
  PROVE  get_sector_number(p) \in boot_start_sec .. boot_end_sec
<1>1. p \in Nat /\ p < BootSectors * SmallPages
  BY Sizes DEF AppStart, boot_size
<1>2. p \div SmallPages < BootSectors
  BY <1>1, DivLemma, GeometryAssumption
<1>3. p \div SmallPages \in Nat
  BY <1>1, GeometryAssumption, Z3
<1> QED
  BY <1>1, <1>2, <1>3, GeometryAssumption
     DEF get_sector_number, boot_start_sec, boot_end_sec, boot_size

LEMMA SectorOfLargePage ==
  ASSUME NEW k \in 0 .. 2 * AppSectors, NEW p \in Pages, p >= AppStart
  PROVE  /\ get_sector_number(p) \in Int
         /\ get_sector_number(p) >= BootSectors
         /\ (p < AppStart + k * LargePages) <=> (get_sector_number(p) < BootSectors + k)
<1> DEFINE a == p - boot_size
<1>1. a \in Nat
  BY Sizes DEF Pages
<1>2. a \div LargePages \in Nat
  BY <1>1, GeometryAssumption, Z3
<1>3. (a < k * LargePages) <=> (a \div LargePages < k)
  BY <1>1, DivLemma, GeometryAssumption
<1>4. k * LargePages \in Nat
  BY GeometryAssumption, Z3
<1>5. get_sector_number(p) = a \div LargePages + BootSectors
  BY Sizes DEF get_sector_number, Pages
<1> HIDE DEF a
<1>6. p = a + boot_size
  BY <1>1, Sizes DEF a, Pages
<1> QED
  BY <1>1, <1>2, <1>3, <1>4, <1>5, <1>6, Sizes, GeometryAssumption

\* What the sector ranges of update_app and update_bootloader contain.
LEMMA RegionPages ==
  /\ SectorPages(boot_start_sec .. boot_end_sec) = 0 .. AppStart - 1
  /\ SectorPages(app_start_sec .. update_start_sec - 1) = AppStart .. UpdStart - 1
  /\ SectorPages({magic_word_sec}) = FlashPages - LargePages .. FlashPages - 1
  /\ \A sec \in StagingSectors : SectorPages({sec}) \subseteq Staging
<1> USE Sizes, GeometryAssumption
<1>1. AppSectors * LargePages = app_size
  BY DEF app_size
<1>2. (2 * AppSectors - 1) * LargePages = 2 * app_size - LargePages
  BY <1>1, Z3
<1>3. \A p \in Pages : p >= AppStart =>
        /\ get_sector_number(p) \in Int
        /\ get_sector_number(p) >= BootSectors
        /\ (p < UpdStart) <=> (get_sector_number(p) < BootSectors + AppSectors)
  BY <1>1, SectorOfLargePage
<1>4. \A p \in Pages : p >= AppStart =>
        (p < FlashPages - LargePages) <=> (get_sector_number(p) < magic_word_sec)
  <2> SUFFICES ASSUME NEW p \in Pages, p >= AppStart
               PROVE  (p < FlashPages - LargePages) <=> (get_sector_number(p) < magic_word_sec)
    OBVIOUS
  <2>1. 2 * AppSectors - 1 \in 0 .. 2 * AppSectors
    OBVIOUS
  <2>2. (p < AppStart + (2 * AppSectors - 1) * LargePages)
          <=> (get_sector_number(p) < BootSectors + (2 * AppSectors - 1))
    BY <2>1, SectorOfLargePage
  <2> QED
    BY <2>2, <1>2, <1>3 DEF magic_word_sec
<1>5. \A p \in Pages : p >= AppStart => get_sector_number(p) <= magic_word_sec
  <2> SUFFICES ASSUME NEW p \in Pages, p >= AppStart
               PROVE  get_sector_number(p) <= magic_word_sec
    OBVIOUS
  <2>1. (2 * AppSectors) * LargePages = 2 * app_size
    BY <1>1, Z3
  <2>2. (p < AppStart + (2 * AppSectors) * LargePages)
          <=> (get_sector_number(p) < BootSectors + (2 * AppSectors))
    BY SectorOfLargePage
  <2> QED
    BY <2>1, <2>2, <1>3 DEF magic_word_sec, Pages
<1>6. \A p \in Pages : p < AppStart =>
        get_sector_number(p) \in boot_start_sec .. boot_end_sec
  BY SectorOfBootPage DEF Pages
<1> HIDE DEF get_sector_number
<1>7. Pages = 0 .. FlashPages - 1
  BY DEF Pages
<1>8. SectorPages(boot_start_sec .. boot_end_sec) = 0 .. AppStart - 1
  BY <1>3, <1>6, <1>7 DEF SectorPages, boot_start_sec, boot_end_sec
<1>9. SectorPages(app_start_sec .. update_start_sec - 1) = AppStart .. UpdStart - 1
  BY <1>3, <1>6, <1>7
     DEF SectorPages, boot_start_sec, boot_end_sec, app_start_sec, update_start_sec
<1>10. SectorPages({magic_word_sec}) = FlashPages - LargePages .. FlashPages - 1
  BY <1>3, <1>4, <1>5, <1>6, <1>7
     DEF SectorPages, boot_start_sec, boot_end_sec, magic_word_sec
<1>11. \A sec \in StagingSectors : SectorPages({sec}) \subseteq Staging
  BY <1>3, <1>6, <1>7
     DEF SectorPages, boot_start_sec, boot_end_sec, StagingSectors, update_start_sec,
         magic_word_sec, Staging
<1> QED
  BY <1>8, <1>9, <1>10, <1>11

(***************************************************************************)
(* Type correctness.                                                       *)
(***************************************************************************)
\* The region the running update erases and writes lies below the staging area.
LEMMA UpdatedRegion ==
  ASSUME upd \in {AppType, BootType}
  PROVE  /\ Dest \in Nat /\ len \in Nat /\ len <= app_size /\ Dest + len <= UpdStart
         /\ SectorPages(FirstSec .. LastSec) = Dest .. Dest + len - 1
         /\ Dest = IF upd = AppType THEN AppStart ELSE 0
         /\ Dest + len = IF upd = AppType THEN UpdStart ELSE AppStart
BY Sizes, RegionPages DEF Dest, len, FirstSec, LastSec, AppType, BootType

LEMMA PageFacts ==
  /\ HeaderPage \in Staging /\ Staging \subseteq Pages
  /\ HeaderPage = FlashPages - 1
  /\ Blank \in Content /\ Corrupt \in Content
  /\ \A t \in {AppType, BootType, OtherType} : Header(t) \in Content
  /\ \A img \in Images, k \in Nat : PageOf(img, k) \in Content
BY Sizes DEF HeaderPage, Staging, Pages, Content, PageOf

\* A power cut leaves a well-formed flash that differs from the old one only
\* in pages that were being erased or programmed.
LEMMA TornType ==
  ASSUME TypeOK, NEW S, Torn(S)
  PROVE  flash' \in [Pages -> Content]
BY PageFacts DEF Torn, TypeOK

LEMMA TypeInit == Init => TypeOK
<1> SUFFICES ASSUME Init PROVE TypeOK
  OBVIOUS
<1>1. PICK boot \in BootImages, app \in AppImages :
        flash = [p \in Pages |->
                   IF Holds(boot, 0, p) THEN PageOf(boot, p)
                   ELSE IF Holds(app, AppStart, p) THEN PageOf(app, p - AppStart)
                   ELSE Blank]
  BY DEF Init
<1>2. ASSUME NEW p \in Pages PROVE flash[p] \in Content
  <2>1. CASE Holds(boot, 0, p)
    <3>1. p \in Nat
      BY Sizes DEF Pages
    <3>2. flash[p] = PageOf(boot, p)
      BY <2>1, <1>1
    <3> QED
      BY <3>1, <3>2, PageFacts DEF Images
  <2>2. CASE ~Holds(boot, 0, p) /\ Holds(app, AppStart, p)
    <3>1. p - AppStart \in Nat
      BY <2>2, Sizes DEF Holds, Pages
    <3> QED
      BY <2>2, <3>1, <1>1, PageFacts DEF Images
  <2>3. CASE ~Holds(boot, 0, p) /\ ~Holds(app, AppStart, p)
    BY <2>3, <1>1, PageFacts
  <2> QED
    BY <2>1, <2>2, <2>3
<1> QED
  BY <1>1, <1>2, MaxCutsAssumption DEF Init, TypeOK

LEMMA TypeStep == TypeOK /\ [Next]_vars => TypeOK'
<1> SUFFICES ASSUME TypeOK, [Next]_vars PROVE TypeOK'
  OBVIOUS
<1> USE PageFacts DEF TypeOK
<1>1. CASE PowerOn
  BY <1>1 DEF PowerOn
<1>2. CASE main
  BY <1>2 DEF main, start_app
<1>3. CASE EraseRegion
  BY <1>3 DEF EraseRegion, lpc17_iap_erase_sectors
<1>4. CASE copy_flash_region
  <2>1. CASE i < len
    <3>1. UpdStart + i \in Pages
      BY <2>1, UpdatedRegion, Sizes DEF Pages
    <3> DEFINE data == flash[UpdStart + i]
    <3>2. data \in Content
      BY <3>1
    <3>3. \/ flash' = [flash EXCEPT ![Dest + i] = IF @ = Blank THEN data ELSE Corrupt]
          \/ flash' = flash
      BY <1>4, <2>1 DEF copy_flash_region, lpc17_iap_copy_ram_flash
    <3> HIDE DEF data
    <3>4. flash' \in [Pages -> Content]
      BY <3>2, <3>3
    <3> QED
      BY <1>4, <2>1, <3>4 DEF copy_flash_region
  <2>2. CASE ~(i < len)
    BY <1>4, <2>2 DEF copy_flash_region
  <2> QED
    BY <2>1, <2>2
<1>5. CASE EraseMagic
  BY <1>5 DEF EraseMagic, start_app, lpc17_iap_erase_sectors
<1>6. ASSUME NEW sec \in StagingSectors, StageErase(sec) PROVE TypeOK'
  BY <1>6 DEF StageErase, Erased
<1>7. ASSUME NEW page \in Staging, NEW data \in StageData(page), StageWrite(page, data)
      PROVE  TypeOK'
  <2>1. data \in Content
    <3>1. page - UpdStart \in Nat
      BY Sizes DEF Staging
    <3> QED
      BY <3>1, ImagesAssumption DEF StageData, Images
  <2> QED
    BY <1>7, <2>1 DEF StageWrite, Programmed
<1>8. ASSUME NEW t \in {AppType, BootType, OtherType}, Arm(t) PROVE TypeOK'
  BY <1>8 DEF Arm, Programmed
<1>9. CASE AppReset
  BY <1>9 DEF AppReset
<1>10. CASE PowerCut
  BY <1>10, TornType, MaxCutsAssumption DEF PowerCut
<1>11. CASE UNCHANGED vars
  BY <1>11 DEF vars
<1> QED
  BY <1>1, <1>2, <1>3, <1>4, <1>5, <1>6, <1>7, <1>8, <1>9, <1>10, <1>11
     DEF Next, Bootstep, Stage

\* The types of the flash, the program counter and the update's own variables
\* (bootloader/src/main.c), for every geometry and every set of images.
THEOREM TypeCorrect == Spec => []TypeOK
BY TypeInit, TypeStep, PTL DEF Spec

(***************************************************************************)
(* The inductive invariant.  Each step leaves alone the pages outside the  *)
(* region it works on; the three lemmas say what that preserves.           *)
(***************************************************************************)
LEMMA KeepsStaged ==
  ASSUME HeaderSectorFree, NEW t \in {AppType, BootType}, StagedComplete(t),
         \A p \in UpdStart .. FlashPages - LargePages - 1 : flash'[p] = flash[p]
  PROVE  StagedComplete(t)'
<1>1. PICK img \in ImagesOf(t) : Staged(img)
  BY DEF StagedComplete
<1>2. /\ Length[img] \in Nat /\ LargePages \in Nat
      /\ Length[img] <= app_size - LargePages
  BY ImagesAssumption, GeometryAssumption, Sizes
     DEF HeaderSectorFree, ImagesOf, Images, app_size
<1>3. \A k \in 0 .. Length[img] - 1 : UpdStart + k \in UpdStart .. FlashPages - LargePages - 1
  BY <1>2, Sizes
<1> QED
  BY <1>1, <1>3 DEF StagedComplete, Staged, At

LEMMA KeepsApp ==
  ASSUME AppIntact, \A p \in AppStart .. UpdStart - 1 : flash'[p] = flash[p]
  PROVE  AppIntact'
<1>1. PICK img \in AppImages : At(flash, img, AppStart)
  BY DEF AppIntact, AppIn
<1>2. Length[img] \in Nat /\ Length[img] <= app_size
  BY ImagesAssumption, Sizes DEF app_size
<1>3. \A k \in 0 .. Length[img] - 1 : AppStart + k \in AppStart .. UpdStart - 1
  BY <1>2, Sizes
<1> QED
  BY <1>1, <1>3 DEF AppIntact, AppIn, At

LEMMA KeepsBoot ==
  ASSUME BootIntact, \A p \in 0 .. AppStart - 1 : flash'[p] = flash[p]
  PROVE  BootIntact'
<1>1. PICK img \in BootImages : At(flash, img, 0)
  BY DEF BootIntact
<1>2. Length[img] \in Nat /\ Length[img] <= boot_size
  BY ImagesAssumption, Sizes DEF boot_size
<1>3. \A k \in 0 .. Length[img] - 1 : 0 + k \in 0 .. AppStart - 1
  BY <1>2, Sizes
<1> QED
  BY <1>1, <1>3 DEF BootIntact, At

\* The last page copied, an update has put a whole image in its place.
LEMMA CopyDone ==
  ASSUME HeaderSectorFree, upd \in {AppType, BootType}, BootInv, pc = "magic"
  PROVE  /\ \A p \in Dest .. Dest + len - 1 : flash[p] = flash[UpdStart + (p - Dest)]
         /\ AppIntact /\ BootIntact
<1>1. PICK img \in ImagesOf(upd) : Staged(img)
  BY DEF BootInv, StagedComplete
<1>2. /\ Length[img] \in Nat
      /\ Length[img] <= len
  BY ImagesAssumption, Sizes, UpdatedRegion
     DEF ImagesOf, len, boot_size, app_size, AppType, BootType
<1>3. \A k \in 0 .. len - 1 : flash[Dest + k] = flash[UpdStart + k]
  BY UpdatedRegion DEF BootInv, CopiedSoFar
<1>4. \A p \in Dest .. Dest + len - 1 : flash[p] = flash[UpdStart + (p - Dest)]
  <2> SUFFICES ASSUME NEW p \in Dest .. Dest + len - 1
               PROVE  flash[p] = flash[UpdStart + (p - Dest)]
    OBVIOUS
  <2>1. p - Dest \in 0 .. len - 1 /\ Dest + (p - Dest) = p
    BY UpdatedRegion
  <2> QED
    BY <1>3, <2>1
<1>5. At(flash, img, Dest)
  BY <1>1, <1>2, <1>3, UpdatedRegion DEF At, Staged
<1>6. CASE upd = AppType
  <2>1. AppIntact
    BY <1>5, <1>6 DEF Dest, AppIntact, AppIn, ImagesOf
  <2> QED
    BY <1>4, <1>6, <2>1 DEF BootInv
<1>7. CASE upd = BootType
  <2>1. BootIntact
    BY <1>5, <1>7 DEF Dest, BootIntact, ImagesOf, AppType, BootType
  <2>2. ~Armed(AppType)
    BY <1>7 DEF BootInv, Armed, Header, AppType, BootType
  <2> QED
    BY <1>4, <2>1, <2>2 DEF BootInv
<1> QED
  BY <1>6, <1>7

LEMMA Headers ==
  /\ \A t \in {AppType, BootType, OtherType} : Header(t) # Blank /\ Header(t) # Corrupt
  /\ Header(AppType) # Header(BootType)
  /\ Header(AppType) # Header(OtherType) /\ Header(BootType) # Header(OtherType)
BY DEF Header, Blank, Corrupt, AppType, BootType, OtherType

\* A device as it is delivered.
LEMMA Delivered == Init => AppIntact /\ BootIntact /\ ~Installing
<1> SUFFICES ASSUME Init PROVE AppIntact /\ BootIntact /\ ~Installing
  OBVIOUS
<1>1. PICK boot \in BootImages, app \in AppImages :
        flash = [p \in Pages |->
                   IF Holds(boot, 0, p) THEN PageOf(boot, p)
                   ELSE IF Holds(app, AppStart, p) THEN PageOf(app, p - AppStart)
                   ELSE Blank]
  BY DEF Init
<1>2. /\ Length[boot] \in Nat /\ Length[boot] <= boot_size
      /\ Length[app] \in Nat /\ Length[app] <= app_size
  BY ImagesAssumption, Sizes DEF boot_size, app_size
<1>3. At(flash, boot, 0)
  <2> SUFFICES ASSUME NEW k \in 0 .. Length[boot] - 1
               PROVE  flash[0 + k] = PageOf(boot, k)
    BY DEF At
  <2> QED
    BY <1>1, <1>2, Sizes DEF Holds, Pages
<1>4. At(flash, app, AppStart)
  <2> SUFFICES ASSUME NEW k \in 0 .. Length[app] - 1
               PROVE  flash[AppStart + k] = PageOf(app, k)
    BY DEF At
  <2>1. /\ AppStart + k \in Pages /\ ~Holds(boot, 0, AppStart + k)
        /\ Holds(app, AppStart, AppStart + k) /\ (AppStart + k) - AppStart = k
    BY <1>2, Sizes DEF Holds, Pages
  <2> QED
    BY <1>1, <2>1
<1>5. flash[HeaderPage] = Blank
  <2>1. HeaderPage \in Pages /\ ~Holds(boot, 0, HeaderPage) /\ ~Holds(app, AppStart, HeaderPage)
    BY <1>2, Sizes DEF Holds, Pages, HeaderPage
  <2> QED
    BY <1>1, <2>1
<1>6. AppIntact /\ BootIntact
  BY <1>3, <1>4 DEF AppIntact, AppIn, BootIntact
<1>7. \A t \in {AppType, BootType} : ~Armed(t)
  BY <1>5, Headers DEF Armed
<1> QED
  BY <1>6, <1>7 DEF Installing

LEMMA BootInvInit == Init => BootInv
BY Delivered DEF Init, BootInv, NeverHung, Installing

\* Steps that leave the flash alone.
LEMMA PowerOnStep ==
  ASSUME BootInv, PowerOn
  PROVE  BootInv'
BY DEF BootInv, PowerOn, NeverHung, Armed, StagedComplete, Staged, AppIntact, BootIntact

LEMMA MainStep ==
  ASSUME TypeOK, BootInv, main
  PROVE  BootInv'
<1>1. CASE Installing
  <2>1. PICK t \in {AppType, BootType} : Armed(t) /\ upd' = t /\ pc' = "erase"
    BY <1>1 DEF main
  <2> QED
    BY <2>1 DEF BootInv, main, NeverHung, Armed, StagedComplete, Staged, AppIntact, BootIntact
<1>2. CASE ~Installing
  <2>1. AppIntact /\ BootIntact
    BY <1>2 DEF Installing, BootInv
  <2>2. pc' = "app" /\ UNCHANGED <<flash, upd, i>>
    BY <1>2, <2>1 DEF Installing, main, start_app, AppIntact
  <2> QED
    BY <2>1, <2>2
       DEF BootInv, NeverHung, Armed, StagedComplete, Staged, AppIntact, BootIntact
<1> QED
  BY <1>1, <1>2

LEMMA AppResetStep ==
  ASSUME BootInv, AppReset
  PROVE  BootInv'
BY DEF BootInv, AppReset, NeverHung, Armed, StagedComplete, Staged, AppIntact, BootIntact

\* While a region is being replaced, what matters is outside it: an
\* application update does not touch the bootloader, a self-update does not
\* touch the application, and neither touches what is staged.
LEMMA OutsideRegion ==
  ASSUME HeaderSectorFree, TypeOK, BootInv, pc \in {"erase", "copy"},
         \A p \in Pages : p \notin Dest .. Dest + len - 1 => flash'[p] = flash[p]
  PROVE  /\ \A t \in {AppType, BootType} : Armed(t)' <=> Armed(t)
         /\ \A t \in {AppType, BootType} : Armed(t)' => StagedComplete(t)'
         /\ flash'[HeaderPage] = flash[HeaderPage] /\ flash[HeaderPage] = Header(upd)
         /\ AppIntact' \/ Armed(AppType)'
         /\ BootIntact' \/ Armed(BootType)'
<1> USE DEF TypeOK
<1>1. \A p \in Staging : flash'[p] = flash[p]
  BY UpdatedRegion, Sizes DEF Staging, Pages
<1>2. \A t \in {AppType, BootType} : Armed(t)' <=> Armed(t)
  BY <1>1, PageFacts DEF Armed
<1>3. \A t \in {AppType, BootType} : Armed(t)' => StagedComplete(t)'
  <2> SUFFICES ASSUME NEW t \in {AppType, BootType}, Armed(t)
               PROVE  StagedComplete(t)'
    BY <1>2
  <2>1. StagedComplete(t)
    BY DEF BootInv
  <2>2. \A p \in UpdStart .. FlashPages - LargePages - 1 : flash'[p] = flash[p]
    BY <1>1, Sizes, GeometryAssumption DEF Staging
  <2> QED
    BY <2>1, <2>2, KeepsStaged
<1>4. flash'[HeaderPage] = flash[HeaderPage] /\ flash[HeaderPage] = Header(upd)
  BY <1>1, PageFacts DEF BootInv, Armed
<1>5. CASE upd = AppType
  <2>1. Armed(AppType) /\ ~Armed(BootType)
    BY <1>5, Headers DEF BootInv, Armed
  <2>2. BootIntact
    BY <2>1 DEF BootInv
  <2>3. \A p \in 0 .. AppStart - 1 : flash'[p] = flash[p]
    BY <1>5, UpdatedRegion, Sizes DEF Pages
  <2> QED
    BY <1>2, <1>3, <1>4, <2>1, <2>2, <2>3, KeepsBoot
<1>6. CASE upd = BootType
  <2>1. Armed(BootType) /\ ~Armed(AppType)
    BY <1>6, Headers DEF BootInv, Armed
  <2>2. AppIntact
    BY <2>1 DEF BootInv
  <2>3. \A p \in AppStart .. UpdStart - 1 : flash'[p] = flash[p]
    BY <1>6, UpdatedRegion, Sizes DEF Pages, AppType, BootType
  <2> QED
    BY <1>2, <1>3, <1>4, <2>1, <2>2, <2>3, KeepsApp
<1> QED
  BY <1>5, <1>6

LEMMA EraseRegionStep ==
  ASSUME HeaderSectorFree, TypeOK, BootInv, EraseRegion
  PROVE  BootInv'
<1> USE DEF TypeOK
<1>1. /\ flash' = [p \in Pages |-> IF p \in Dest .. Dest + len - 1 THEN Blank ELSE flash[p]]
      /\ pc = "erase" /\ pc' = "copy" /\ i' = 0 /\ upd' = upd
  BY UpdatedRegion DEF EraseRegion, lpc17_iap_erase_sectors
<1>2. (Dest = Dest' /\ len = len')
  BY <1>1 DEF Dest, len
<1>3. \A p \in Pages : p \notin Dest .. Dest + len - 1 => flash'[p] = flash[p]
  BY <1>1
<1>4. \A k \in 0 .. len - 1 : flash'[Dest + k] = Blank
  BY <1>1, UpdatedRegion, Sizes DEF Pages
<1>5. (i <= len /\ CopiedSoFar)'
  BY <1>1, <1>2, <1>4, UpdatedRegion DEF CopiedSoFar
<1>6. Armed(upd)'
  BY <1>1, <1>3, OutsideRegion DEF Armed
<1> QED
  BY <1>1, <1>3, <1>5, <1>6, OutsideRegion DEF BootInv, NeverHung

LEMMA CopyStep ==
  ASSUME HeaderSectorFree, TypeOK, BootInv, copy_flash_region
  PROVE  BootInv'
<1> USE DEF TypeOK
<1>1. CASE i < len
  <2> DEFINE d == Dest + i
             data == flash[UpdStart + i]
  <2>1. d \in Pages /\ d \in Dest .. Dest + len - 1
    BY <1>1, UpdatedRegion, Sizes DEF Pages
  <2>2. flash[d] = Blank
    BY <1>1, UpdatedRegion DEF BootInv, CopiedSoFar, copy_flash_region
  <2>3. /\ flash' = [flash EXCEPT ![d] = data]
        /\ pc = "copy" /\ pc' = "copy" /\ i' = i + 1 /\ upd' = upd
    BY <1>1, <2>1, <2>2 DEF copy_flash_region, lpc17_iap_copy_ram_flash
  <2>4. Dest' = Dest /\ len' = len
    BY <2>3 DEF Dest, len
  <2>5. \A p \in Pages : p \notin Dest .. Dest + len - 1 => flash'[p] = flash[p]
    BY <2>1, <2>3
  <2>6. CopiedSoFar'
    <3> SUFFICES ASSUME NEW k \in 0 .. len - 1
                 PROVE  flash'[Dest + k] = IF k < i + 1 THEN flash'[UpdStart + k] ELSE Blank
      BY <2>3, <2>4 DEF CopiedSoFar
    <3>1. /\ Dest + k \in Pages /\ UpdStart + k \in Pages /\ UpdStart + k # d
          /\ (k = i <=> Dest + k = d)
      <4>1. /\ Dest \in Nat /\ len \in Nat /\ i \in Nat /\ k \in Nat /\ k < len
            /\ Dest + len <= UpdStart /\ len <= app_size
        BY UpdatedRegion
      <4>2. FlashPages = UpdStart + app_size /\ UpdStart \in Nat /\ app_size \in Nat
        BY Sizes
      <4> QED
        BY <1>1, <4>1, <4>2 DEF Pages
    <3>2. flash'[UpdStart + k] = flash[UpdStart + k]
      BY <3>1, <2>3
    <3>3. flash[Dest + k] = IF k < i THEN flash[UpdStart + k] ELSE Blank
      BY <2>3, UpdatedRegion DEF BootInv, CopiedSoFar
    <3> QED
      BY <2>1, <2>3, <3>1, <3>2, <3>3, UpdatedRegion
  <2>7. i' <= len'
    BY <1>1, <2>3, <2>4, UpdatedRegion
  <2>8. Armed(upd)'
    BY <2>3, <2>5, OutsideRegion DEF Armed
  <2> HIDE DEF d, data
  <2> QED
    BY <2>3, <2>5, <2>6, <2>7, <2>8, OutsideRegion DEF BootInv, NeverHung
<1>2. CASE ~(i < len)
  <2>1. pc = "copy" /\ pc' = "magic" /\ UNCHANGED <<flash, i, upd>>
    BY <1>2 DEF copy_flash_region
  <2>2. i = len
    BY <1>2, <2>1, UpdatedRegion DEF BootInv
  <2>3. BootIntact
    <3>1. CASE upd = AppType
      BY <2>1, <3>1, Headers DEF BootInv, Armed
    <3>2. CASE upd = BootType
      <4>1. PICK img \in BootImages : Staged(img)
        BY <2>1, <3>2 DEF BootInv, StagedComplete, ImagesOf, AppType, BootType
      <4>2. Length[img] \in Nat /\ Length[img] <= len /\ Dest = 0
        BY <3>2, ImagesAssumption DEF len, Dest, boot_size, AppType, BootType
      <4>3. \A k \in 0 .. len - 1 : flash[Dest + k] = flash[UpdStart + k]
        BY <2>1, <2>2, UpdatedRegion DEF BootInv, CopiedSoFar
      <4> QED
        BY <4>1, <4>2, <4>3, UpdatedRegion DEF At, Staged, BootIntact
    <3> QED
      BY <3>1, <3>2
  <2> QED
    BY <2>1, <2>2, <2>3, UpdatedRegion
       DEF BootInv, NeverHung, Armed, StagedComplete, Staged, AppIntact, BootIntact,
           CopiedSoFar, Dest, len
<1> QED
  BY <1>1, <1>2

\* Steps that only touch the staging area leave both regions below it intact.
LEMMA BelowStaging ==
  ASSUME BootInv, AppIntact, pc \in {"magic", "app"},
         \A p \in Pages : p \notin Staging => flash'[p] = flash[p],
         \A t \in {AppType, BootType} : Armed(t)' => StagedComplete(t)',
         pc' \in {"app", "off"}
  PROVE  BootInv'
<1>1. BootIntact
  BY DEF BootInv
<1>2. /\ \A p \in 0 .. AppStart - 1 : flash'[p] = flash[p]
      /\ \A p \in AppStart .. UpdStart - 1 : flash'[p] = flash[p]
  BY Sizes DEF Staging, Pages
<1>3. AppIntact' /\ BootIntact'
  BY <1>1, <1>2, KeepsApp, KeepsBoot
<1> QED
  BY <1>3 DEF BootInv, NeverHung

LEMMA EraseMagicStep ==
  ASSUME HeaderSectorFree, TypeOK, BootInv, EraseMagic
  PROVE  BootInv'
<1> USE DEF TypeOK
<1>1. AppIntact
  BY CopyDone DEF EraseMagic
<1>2. flash' = [p \in Pages |->
                  IF p \in FlashPages - LargePages .. FlashPages - 1 THEN Blank ELSE flash[p]]
  BY RegionPages DEF EraseMagic, lpc17_iap_erase_sectors
<1>3. /\ \A p \in Pages : p \notin Staging => flash'[p] = flash[p]
      /\ flash'[HeaderPage] = Blank
      /\ \A p \in AppStart .. UpdStart - 1 : flash'[p] = flash[p]
  BY <1>2, Sizes, GeometryAssumption, PageFacts DEF Staging, Pages
<1>4. \A t \in {AppType, BootType} : ~Armed(t)'
  BY <1>3, Headers DEF Armed
<1>5. AppIntact'
  BY <1>1, <1>3, KeepsApp
<1>6. pc' = "app"
  BY <1>5 DEF EraseMagic, start_app, AppIntact
<1> QED
  BY <1>1, <1>3, <1>4, <1>6, BelowStaging DEF EraseMagic

LEMMA StageEraseStep ==
  ASSUME HeaderSectorFree, TypeOK, BootInv, NEW sec \in StagingSectors, StageErase(sec)
  PROVE  BootInv'
<1> USE DEF TypeOK
<1>1. AppIntact /\ pc = "app" /\ pc' = "app"
  BY DEF BootInv, StageErase
<1>2. \A p \in Pages : flash'[p] = IF p \in SectorPages({sec}) THEN Blank ELSE flash[p]
  BY DEF StageErase, Erased
<1>3. \A p \in Pages : p \notin Staging => flash'[p] = flash[p]
  BY <1>2, RegionPages
<1>4. ASSUME NEW t \in {AppType, BootType}, Armed(t)' PROVE StagedComplete(t)'
  <2>1. Armed(t) /\ HeaderPage \notin SectorPages({sec})
    BY <1>2, <1>4, Headers, PageFacts DEF Armed
  <2>2. sec = magic_word_sec
    BY <2>1 DEF StageErase, MayErase, Installing
  <2>3. HeaderPage \in SectorPages({sec})
    BY <2>2, RegionPages, PageFacts, Sizes, GeometryAssumption
  <2> QED
    BY <2>1, <2>3
<1> QED
  BY <1>1, <1>3, <1>4, BelowStaging

LEMMA StageWriteStep ==
  ASSUME TypeOK, BootInv, NEW page \in Staging, NEW data, StageWrite(page, data)
  PROVE  BootInv'
<1> USE DEF TypeOK
<1>1. AppIntact /\ pc = "app" /\ pc' = "app"
  BY DEF BootInv, StageWrite
<1>2. \A p \in Pages : p # page => flash'[p] = flash[p]
  BY DEF StageWrite, Programmed
<1>3. \A t \in {AppType, BootType} : ~Armed(t)'
  BY <1>2, PageFacts DEF StageWrite, Installing, Armed
<1> QED
  BY <1>1, <1>2, <1>3, BelowStaging

LEMMA ArmStep ==
  ASSUME HeaderSectorFree, TypeOK, BootInv, NEW t \in {AppType, BootType, OtherType}, Arm(t)
  PROVE  BootInv'
<1> USE DEF TypeOK
<1>1. AppIntact /\ pc = "app" /\ pc' = "app"
  BY DEF BootInv, Arm
<1>2. /\ \A p \in Pages : p # HeaderPage => flash'[p] = flash[p]
      /\ flash'[HeaderPage] \in {Header(t), Corrupt}
  BY PageFacts DEF Arm, Programmed
<1>3. ASSUME NEW u \in {AppType, BootType}, Armed(u)' PROVE StagedComplete(u)'
  <2>1. Header(u) = Header(t)
    BY <1>2, <1>3, Headers DEF Armed
  <2>2. u = t
    BY <2>1 DEF Header
  <2>3. StagedComplete(u)
    BY <2>2 DEF Arm
  <2>4. \A p \in UpdStart .. FlashPages - LargePages - 1 : flash'[p] = flash[p]
    BY <1>2, PageFacts, Sizes, GeometryAssumption DEF Pages
  <2> QED
    BY <2>3, <2>4, KeepsStaged
<1> QED
  BY <1>1, <1>2, <1>3, PageFacts, BelowStaging

\* A power cut: torn pages are among the busy ones, and a torn header page is
\* no header the bootloader would act on.
LEMMA TornPages ==
  ASSUME TypeOK, NEW S, Torn(S)
  PROVE  /\ \A p \in Pages : p \notin S => flash'[p] = flash[p]
         /\ \/ flash'[HeaderPage] = flash[HeaderPage]
            \/ \A t \in {AppType, BootType} : ~Armed(t)'
<1>1. PICK T \in SUBSET S, remains \in {Corrupt, Header(OtherType)} :
        flash' = [p \in Pages |-> IF p \notin T THEN flash[p]
                                 ELSE IF p = HeaderPage THEN remains ELSE Corrupt]
  BY DEF Torn
<1>2. flash'[HeaderPage] = IF HeaderPage \notin T THEN flash[HeaderPage] ELSE remains
  BY <1>1, PageFacts
<1> QED
  BY <1>1, <1>2, Headers DEF Armed

LEMMA PowerCutStep ==
  ASSUME HeaderSectorFree, TypeOK, BootInv, PowerCut
  PROVE  BootInv'
<1> USE DEF TypeOK
<1>1. PICK S \in Busy : Torn(S)
  BY DEF PowerCut
<1>2. /\ pc' = "off" /\ upd' = upd /\ i' = i
      /\ \A p \in Pages : p \notin S => flash'[p] = flash[p]
      /\ \/ flash'[HeaderPage] = flash[HeaderPage]
         \/ \A t \in {AppType, BootType} : ~Armed(t)'
  BY <1>1, TornPages DEF PowerCut
<1>3. CASE pc \in {"erase", "copy"}
  <2>1. \A p \in S : p \in Dest .. Dest + len - 1
    BY <1>1, <1>3, UpdatedRegion DEF Busy
  <2>2. \A p \in Pages : p \notin Dest .. Dest + len - 1 => flash'[p] = flash[p]
    BY <1>2, <2>1
  <2> QED
    BY <1>2, <1>3, <2>2, OutsideRegion DEF BootInv, NeverHung
<1>4. CASE pc = "magic"
  <2>1. S = FlashPages - LargePages .. FlashPages - 1
    BY <1>1, <1>4, RegionPages DEF Busy
  <2>2. \A p \in FlashPages - LargePages .. FlashPages - 1 : p \in Staging
    BY Sizes, GeometryAssumption DEF Staging
  <2>3. \A p \in Pages : p \notin Staging => flash'[p] = flash[p]
    BY <1>2, <2>1, <2>2
  <2>4. ASSUME NEW t \in {AppType, BootType}, Armed(t)' PROVE StagedComplete(t)'
    <3>1. StagedComplete(t)
      BY <1>2, <2>4 DEF Armed, BootInv
    <3>2. \A p \in UpdStart .. FlashPages - LargePages - 1 : flash'[p] = flash[p]
      BY <1>2, <2>1, Sizes, GeometryAssumption DEF Pages
    <3> QED
      BY <3>1, <3>2, KeepsStaged
  <2> QED
    BY <1>2, <1>4, <2>3, <2>4, CopyDone, BelowStaging
<1>5. CASE pc = "app"
  <2>1. AppIntact
    BY <1>5 DEF BootInv
  <2>2. \/ \E sec \in StagingSectors : MayErase(sec) /\ S = SectorPages({sec})
        \/ ~Installing /\ \E p \in Staging : S = {p}
    BY <1>1, <1>5 DEF Busy
  <2>3. S \subseteq Staging
    BY <2>2, RegionPages
  <2>4. \A p \in Pages : p \notin Staging => flash'[p] = flash[p]
    BY <1>2, <2>3
  <2>5. ASSUME NEW t \in {AppType, BootType}, Armed(t)' PROVE StagedComplete(t)'
    <3>1. Armed(t) /\ StagedComplete(t) /\ Installing
      BY <1>2, <2>5 DEF Armed, BootInv, Installing
    <3>2. S = FlashPages - LargePages .. FlashPages - 1
      BY <2>2, <3>1, RegionPages DEF MayErase
    <3>3. \A p \in UpdStart .. FlashPages - LargePages - 1 : flash'[p] = flash[p]
      BY <1>2, <3>2, Sizes, GeometryAssumption DEF Pages
    <3> QED
      BY <3>1, <3>3, KeepsStaged
  <2> QED
    BY <1>2, <1>5, <2>1, <2>4, <2>5, BelowStaging
<1>6. CASE pc \in {"main", "hung", "dead"}
  <2>1. S = {}
    BY <1>1, <1>6 DEF Busy
  <2>2. flash' = flash
    BY <1>1, <2>1 DEF Torn
  <2> QED
    BY <1>2, <1>6, <2>2
       DEF BootInv, NeverHung, Armed, StagedComplete, Staged, AppIntact, BootIntact
<1> QED
  BY <1>3, <1>4, <1>5, <1>6 DEF PowerCut

LEMMA BootInvStep ==
  ASSUME HeaderSectorFree, TypeOK, BootInv, [Next]_vars
  PROVE  BootInv'
<1>1. CASE UNCHANGED vars
  BY <1>1 DEF vars, BootInv, NeverHung, Armed, StagedComplete, Staged, AppIntact,
              BootIntact, CopiedSoFar, Dest, len
<1> QED
  BY <1>1, PowerOnStep, MainStep, EraseRegionStep, CopyStep, EraseMagicStep, StageEraseStep,
     StageWriteStep, ArmStep, AppResetStep, PowerCutStep
     DEF Next, Bootstep, Stage

\* The invariant of update_app and update_bootloader, for every geometry and
\* every set of images none of which reaches the header's sector.
THEOREM Invariance ==
  ASSUME HeaderSectorFree
  PROVE  Spec => []BootInv
<1>1. Init => TypeOK /\ BootInv
  BY TypeInit, BootInvInit
<1>2. TypeOK /\ BootInv /\ [Next]_vars => TypeOK' /\ BootInv'
  BY TypeStep, BootInvStep
<1> QED
  BY <1>1, <1>2, PTL DEF Spec

\* The device always holds a complete application, installed or staged, however
\* often main, update_app and the staging of an update are cut short.
THEOREM AlwaysRecoverable ==
  ASSUME HeaderSectorFree
  PROVE  Spec => [](Recoverable /\ NeverHung /\ BootAtRiskOnlyInSelfUpdate)
<1>1. BootInv => Recoverable /\ NeverHung /\ BootAtRiskOnlyInSelfUpdate
  BY DEF BootInv, Recoverable, BootAtRiskOnlyInSelfUpdate
<1> QED
  BY <1>1, Invariance, PTL

\* Staging an update and installing an application, cut short anywhere, leave
\* the bootloader intact; only update_bootloader puts it at risk.
THEOREM OnlySelfUpdateRisksBoot ==
  ASSUME HeaderSectorFree
  PROVE  Spec => []BootAtRiskOnlyInSelfUpdate
BY AlwaysRecoverable, PTL

(***************************************************************************)
(* What an installation installs, and the abstract specification.          *)
(***************************************************************************)
LEMMA ImageInIs ==
  ASSUME NEW f, NEW base \in Nat, NEW img \in AppImages, At(f, img, base)
  PROVE  ImageIn(f, base) = img
<1>1. ASSUME NEW other \in AppImages, At(f, other, base) PROVE other = img
  <2>1. 0 \in 0 .. Length[img] - 1 /\ 0 \in 0 .. Length[other] - 1
    BY ImagesAssumption
  <2>2. f[base + 0] = PageOf(img, 0) /\ f[base + 0] = PageOf(other, 0)
    BY <1>1, <2>1 DEF At
  <2> QED
    BY <2>2 DEF PageOf
<1> QED
  BY <1>1 DEF ImageIn

\* Installed: the application region holds the image that was staged.
LEMMA InstalledImage ==
  ASSUME HeaderSectorFree, TypeOK, BootInv, pc = "magic", upd = AppType,
         NEW img \in AppImages, Staged(img)
  PROVE  At(flash, img, AppStart)
<1>1. \A k \in 0 .. app_size - 1 : flash[AppStart + k] = flash[UpdStart + k]
  BY UpdatedRegion DEF BootInv, CopiedSoFar, Dest, len
<1>2. Length[img] \in Nat /\ Length[img] <= app_size
  BY ImagesAssumption, Sizes DEF app_size
<1> QED
  BY <1>1, <1>2, Sizes DEF At, Staged

LEMMA MagicErased ==
  ASSUME HeaderSectorFree, TypeOK, BootInv, EraseMagic
  PROVE  /\ \A p \in AppStart .. UpdStart - 1 : flash'[p] = flash[p]
         /\ ~Installing'
<1>1. flash' = [p \in Pages |->
                  IF p \in FlashPages - LargePages .. FlashPages - 1 THEN Blank ELSE flash[p]]
  BY RegionPages DEF EraseMagic, lpc17_iap_erase_sectors
<1>2. flash'[HeaderPage] = Blank
  BY <1>1, Sizes, GeometryAssumption, PageFacts DEF Pages
<1>3. \A p \in AppStart .. UpdStart - 1 : flash'[p] = flash[p]
  BY <1>1, Sizes, GeometryAssumption DEF Pages
<1> QED
  BY <1>2, <1>3, Headers DEF Installing, Armed

LEMMA SameAt ==
  ASSUME NEW img \in AppImages,
         \A p \in AppStart .. UpdStart - 1 : flash'[p] = flash[p]
  PROVE  At(flash, img, AppStart) <=> At(flash', img, AppStart)
<1>1. Length[img] \in Nat /\ Length[img] <= app_size
  BY ImagesAssumption, Sizes DEF app_size
<1>2. \A k \in 0 .. Length[img] - 1 : AppStart + k \in AppStart .. UpdStart - 1
  BY <1>1, Sizes
<1> QED
  BY <1>2 DEF At

\* update_app hands over to exactly the image that was staged.
THEOREM InstallsTheStagedImage ==
  ASSUME HeaderSectorFree
  PROVE  Spec => InstallsWhatWasStaged
<1>1. ASSUME TypeOK, BootInv, [Next]_vars,
             NEW img \in AppImages, pc = "magic", upd = AppType, Staged(img), pc' # "off",
             ~UNCHANGED vars
      PROVE  At(flash', img, AppStart)
  <2>1. EraseMagic
    BY <1>1 DEF Next, Bootstep, Stage, PowerOn, main, EraseRegion, copy_flash_region,
                StageErase, StageWrite, Arm, AppReset, PowerCut
  <2> QED
    BY <1>1, <2>1, InstalledImage, MagicErased, SameAt
<1>2. TypeOK /\ BootInv /\ [Next]_vars =>
        [\A img \in AppImages :
           (pc = "magic" /\ upd = AppType /\ Staged(img) /\ pc' # "off")
             => At(flash', img, AppStart)]_vars
  BY <1>1
<1> QED
  BY <1>2, TypeCorrect, Invariance, PTL DEF Spec, InstallsWhatWasStaged

\* An application is started with no header left that would install again what
\* has been installed.
THEOREM InstalledOnce ==
  ASSUME HeaderSectorFree
  PROVE  Spec => NoInstallLeftBehind
<1>1. ASSUME TypeOK, BootInv, [Next]_vars, pc # "app", pc' = "app"
      PROVE  ~Installing'
  <2>1. main \/ EraseMagic
    BY <1>1 DEF Next, Bootstep, Stage, PowerOn, EraseRegion, copy_flash_region,
                StageErase, StageWrite, Arm, AppReset, PowerCut, vars
  <2>2. CASE main
    BY <1>1, <2>2 DEF main, Installing, Armed
  <2> QED
    BY <1>1, <2>1, <2>2, MagicErased
<1>2. TypeOK /\ BootInv /\ [Next]_vars => [(pc # "app" /\ pc' = "app") => ~Installing']_vars
  BY <1>1
<1> QED
  BY <1>2, TypeCorrect, Invariance, PTL DEF Spec, NoInstallLeftBehind

(***************************************************************************)
(* Refinement.  Chosen(img) says what makes img the selected one.          *)
(***************************************************************************)
Chosen(img) == IF Armed(AppType) THEN Staged(img) ELSE At(flash, img, AppStart)

LEMMA ChosenIsSelected ==
  ASSUME NEW img \in AppImages, Chosen(img)
  PROVE  selected = img
BY ImageInIs, Sizes DEF Chosen, Staged, selected

LEMMA ChosenIsSelectedNext ==
  ASSUME NEW img \in AppImages, Chosen(img)'
  PROVE  selected' = img
BY ImageInIs, Sizes DEF Chosen, Staged, selected

LEMMA SomeChosen ==
  ASSUME BootInv
  PROVE  \E img \in AppImages : Chosen(img)
BY DEF BootInv, Chosen, StagedComplete, ImagesOf, AppIntact, AppIn, AppType, BootType

LEMMA SomeChosenNext ==
  ASSUME BootInv'
  PROVE  \E img \in AppImages : Chosen(img)'
BY DEF BootInv, Chosen, StagedComplete, ImagesOf, AppIntact, AppIn, AppType, BootType

\* The pages of the staged image and the header untouched, or the application
\* region and the header untouched with no application header: same choice.
LEMMA SameChoice ==
  ASSUME HeaderSectorFree, TypeOK, BootInv,
         Armed(AppType)' <=> Armed(AppType),
         Armed(AppType) => \A p \in UpdStart .. FlashPages - LargePages - 1 : flash'[p] = flash[p],
         ~Armed(AppType) => \A p \in AppStart .. UpdStart - 1 : flash'[p] = flash[p]
  PROVE  selected' = selected
<1>1. PICK img \in AppImages : Chosen(img)
  BY SomeChosen
<1>2. CASE Armed(AppType)
  <2>1. /\ Length[img] \in Nat /\ LargePages \in Nat
        /\ Length[img] <= app_size - LargePages
    BY ImagesAssumption, GeometryAssumption, Sizes DEF HeaderSectorFree, app_size
  <2>2. \A k \in 0 .. Length[img] - 1 :
          UpdStart + k \in UpdStart .. FlashPages - LargePages - 1
    BY <2>1, Sizes
  <2>3. Chosen(img)'
    BY <1>1, <1>2, <2>2 DEF Chosen, Staged, At
  <2> QED
    BY <1>1, <2>3, ChosenIsSelected, ChosenIsSelectedNext
<1>3. CASE ~Armed(AppType)
  <2>1. Chosen(img)'
    BY <1>1, <1>3, SameAt DEF Chosen
  <2> QED
    BY <1>1, <2>1, ChosenIsSelected, ChosenIsSelectedNext
<1> QED
  BY <1>2, <1>3

\* The application's region untouched: the running application stays the same.
LEMMA SameRunning ==
  ASSUME BootInv, pc = "app",
         \A p \in AppStart .. UpdStart - 1 : flash'[p] = flash[p]
  PROVE  /\ running # None
         /\ pc' = "app" => running' = running
<1>1. PICK img \in AppImages : At(flash, img, AppStart)
  BY DEF BootInv, AppIntact, AppIn
<1>2. ImageIn(flash, AppStart) = img /\ ImageIn(flash', AppStart) = img
  BY <1>1, ImageInIs, SameAt, Sizes
<1> QED
  BY <1>2, ImagesAssumption DEF running

LEMMA RefineInit == Init => Abstract!Init
<1> SUFFICES ASSUME Init PROVE Abstract!Init
  OBVIOUS
<1>1. PICK img \in AppImages : Chosen(img)
  BY BootInvInit, SomeChosen
<1>2. selected = img
  BY <1>1, ChosenIsSelected
<1> QED
  BY <1>2 DEF Abstract!Init, Init, running

\* A step of the running application chooses an image, and may stop.
LEMMA RefineAppStep ==
  ASSUME HeaderSectorFree, TypeOK, BootInv, BootInv', pc = "app", pc' \in {"app", "off"},
         \A p \in AppStart .. UpdStart - 1 : flash'[p] = flash[p]
  PROVE  Abstract!Next
<1>1. PICK img \in AppImages : Chosen(img)'
  BY SomeChosenNext
<1>2. selected' = img
  BY <1>1, ChosenIsSelectedNext
<1>3. running # None
  BY SameRunning
<1>4. CASE pc' = "app"
  BY <1>2, <1>3, <1>4, SameRunning DEF Abstract!Next, Abstract!Choose
<1>5. CASE pc' = "off"
  BY <1>2, <1>3, <1>5 DEF Abstract!Next, Abstract!Stop, running
<1> QED
  BY <1>4, <1>5

LEMMA RefineMagic ==
  ASSUME HeaderSectorFree, TypeOK, BootInv, BootInv', pc = "magic",
         pc' \in {"app", "off"}, upd' = upd,
         \A p \in Pages : p \notin FlashPages - LargePages .. FlashPages - 1 => flash'[p] = flash[p],
         Armed(AppType)' => Armed(AppType)
  PROVE  selected' = selected
<1>1. /\ \A p \in AppStart .. UpdStart - 1 : flash'[p] = flash[p]
      /\ \A p \in UpdStart .. FlashPages - LargePages - 1 : flash'[p] = flash[p]
  BY Sizes, GeometryAssumption DEF Pages
<1>2. CASE Armed(AppType)' <=> Armed(AppType)
  BY <1>1, <1>2, SameChoice
<1>3. CASE Armed(AppType) /\ ~Armed(AppType)'
  <2>1. upd = AppType
    BY <1>3, Headers DEF BootInv, Armed, TypeOK
  <2>2. PICK img \in AppImages : Chosen(img)
    BY SomeChosen
  <2>3. At(flash, img, AppStart)
    BY <1>3, <2>1, <2>2, InstalledImage DEF Chosen
  <2>4. Chosen(img)'
    BY <1>1, <1>3, <2>3, SameAt DEF Chosen
  <2> QED
    BY <2>2, <2>4, ChosenIsSelected, ChosenIsSelectedNext
<1> QED
  BY <1>2, <1>3

LEMMA RefineStep ==
  ASSUME HeaderSectorFree, TypeOK, BootInv, BootInv', [Next]_vars
  PROVE  [Abstract!Next]_(Abstract!vars)
<1> USE DEF TypeOK
<1>1. CASE PowerOn
  <2>1. flash' = flash /\ pc # "app" /\ pc' # "app"
    BY <1>1 DEF PowerOn
  <2> QED
    BY <2>1 DEF selected, Armed, running, Abstract!vars
<1>2. CASE main
  <2>1. flash' = flash /\ pc = "main"
    BY <1>2 DEF main
  <2>2. selected' = selected /\ running = None
    BY <2>1 DEF selected, Armed, running
  <2>3. CASE pc' = "app"
    <3>1. ~Armed(AppType)
      BY <1>2, <2>3 DEF main, Installing
    <3>2. running' = selected
      BY <2>1, <2>3, <3>1 DEF selected, running
    <3> QED
      BY <2>2, <3>2 DEF Abstract!Next, Abstract!Boot
  <2>4. CASE pc' # "app"
    BY <2>2, <2>4 DEF running, Abstract!vars
  <2> QED
    BY <2>3, <2>4
<1>3. ASSUME pc \in {"erase", "copy"}, pc' # "app",
             \A p \in Pages : p \notin Dest .. Dest + len - 1 => flash'[p] = flash[p]
      PROVE  [Abstract!Next]_(Abstract!vars)
  <2>1. Armed(AppType)' <=> Armed(AppType)
    BY <1>3, OutsideRegion
  <2>2. Armed(AppType) => \A p \in UpdStart .. FlashPages - LargePages - 1 : flash'[p] = flash[p]
    BY <1>3, UpdatedRegion, Sizes, GeometryAssumption DEF Pages
  <2>3. ~Armed(AppType) => \A p \in AppStart .. UpdStart - 1 : flash'[p] = flash[p]
    <3> SUFFICES ASSUME ~Armed(AppType)
                 PROVE  \A p \in AppStart .. UpdStart - 1 : flash'[p] = flash[p]
      OBVIOUS
    <3>1. upd = BootType
      BY <1>3 DEF BootInv, Armed
    <3> QED
      BY <1>3, <3>1, UpdatedRegion, Sizes DEF Pages, AppType, BootType
  <2>4. selected' = selected
    BY <2>1, <2>2, <2>3, SameChoice
  <2> QED
    BY <1>3, <2>4 DEF running, Abstract!vars
<1>4. CASE EraseRegion
  <2>1. \A p \in Pages : p \notin Dest .. Dest + len - 1 => flash'[p] = flash[p]
    BY <1>4, UpdatedRegion DEF EraseRegion, lpc17_iap_erase_sectors
  <2> QED
    BY <1>3, <1>4, <2>1 DEF EraseRegion
<1>5. CASE copy_flash_region
  <2>1. pc = "copy" /\ pc' # "app"
    BY <1>5 DEF copy_flash_region
  <2>2. \A p \in Pages : p \notin Dest .. Dest + len - 1 => flash'[p] = flash[p]
    <3>1. CASE i < len
      <4>1. Dest + i \in Dest .. Dest + len - 1
        BY <3>1, UpdatedRegion
      <4> QED
        BY <1>5, <3>1, <4>1 DEF copy_flash_region, lpc17_iap_copy_ram_flash
    <3>2. CASE ~(i < len)
      BY <1>5, <3>2 DEF copy_flash_region
    <3> QED
      BY <3>1, <3>2
  <2> QED
    BY <1>3, <2>1, <2>2
<1>6. CASE EraseMagic
  <2>1. pc = "magic" /\ upd' = upd /\ pc' \in {"app", "hung"}
    BY <1>6 DEF EraseMagic, start_app
  <2>2. pc' = "app"
    BY <2>1 DEF BootInv, NeverHung
  <2>3. \A p \in Pages : p \notin FlashPages - LargePages .. FlashPages - 1 => flash'[p] = flash[p]
    BY <1>6, RegionPages DEF EraseMagic, lpc17_iap_erase_sectors
  <2>4. ~Armed(AppType)'
    BY <1>6, MagicErased DEF Installing, Armed
  <2>5. selected' = selected
    BY <2>1, <2>2, <2>3, <2>4, RefineMagic
  <2>6. running = None /\ running' = selected'
    BY <2>1, <2>2, <2>4 DEF running, selected
  <2> QED
    BY <2>5, <2>6 DEF Abstract!Next, Abstract!Boot
<1>7. CASE Stage \/ AppReset
  <2>1. pc = "app" /\ pc' \in {"app", "off"}
    BY <1>7 DEF Stage, StageErase, StageWrite, Arm, AppReset
  <2>2. \A p \in Pages : p \notin Staging => flash'[p] = flash[p]
    BY <1>7, RegionPages, PageFacts DEF Stage, StageErase, Erased, StageWrite, Arm, Programmed,
                                            AppReset
  <2>3. \A p \in AppStart .. UpdStart - 1 : flash'[p] = flash[p]
    BY <2>2, Sizes DEF Pages, Staging
  <2> QED
    BY <2>1, <2>3, RefineAppStep
<1>8. CASE PowerCut
  <2>1. PICK S \in Busy : Torn(S)
    BY <1>8 DEF PowerCut
  <2>2. pc' = "off" /\ upd' = upd /\ \A p \in Pages : p \notin S => flash'[p] = flash[p]
    BY <1>8, <2>1, TornPages DEF PowerCut
  <2>3. CASE pc \in {"erase", "copy"}
    <3>1. \A p \in S : p \in Dest .. Dest + len - 1
      BY <2>1, <2>3, UpdatedRegion DEF Busy
    <3> QED
      BY <1>3, <2>2, <2>3, <3>1
  <2>4. CASE pc = "magic"
    <3>1. S = FlashPages - LargePages .. FlashPages - 1
      BY <2>1, <2>4, RegionPages DEF Busy
    <3>2. Armed(AppType)' => Armed(AppType)
      BY <2>1, TornPages DEF Armed
    <3>3. selected' = selected
      BY <2>2, <2>4, <3>1, <3>2, RefineMagic
    <3> QED
      BY <2>2, <2>4, <3>3 DEF running, Abstract!vars
  <2>5. CASE pc = "app"
    <3>1. S \subseteq Staging
      BY <2>1, <2>5, RegionPages DEF Busy
    <3>2. \A p \in AppStart .. UpdStart - 1 : flash'[p] = flash[p]
      BY <2>2, <3>1, Sizes DEF Pages, Staging
    <3> QED
      BY <2>2, <2>5, <3>2, RefineAppStep
  <2>6. CASE pc \in {"main", "hung", "dead"}
    <3>1. flash' = flash
      BY <2>1, <2>6 DEF Busy, Torn
    <3> QED
      BY <2>2, <2>6, <3>1 DEF selected, Armed, running, Abstract!vars
  <2> QED
    BY <2>3, <2>4, <2>5, <2>6, <1>8 DEF PowerCut
<1>9. CASE UNCHANGED vars
  BY <1>9 DEF vars, selected, Armed, running, Abstract!vars
<1> QED
  BY <1>1, <1>2, <1>4, <1>5, <1>6, <1>7, <1>8, <1>9 DEF Next, Bootstep

\* The bootloader and a well-behaved staging of updates implement SafeInstall:
\* only the running application chooses what runs next, in one step.
THEOREM Refinement ==
  ASSUME HeaderSectorFree
  PROVE  Spec => NeverChoosesByAccident
<1>1. TypeOK /\ BootInv /\ TypeOK' /\ BootInv' /\ [Next]_vars => [Abstract!Next]_(Abstract!vars)
  BY RefineStep
<1> QED
  BY <1>1, RefineInit, TypeCorrect, Invariance, PTL DEF Spec, NeverChoosesByAccident

(***************************************************************************)
(* The literals of the LPC1769, in bytes, and the pages of this model.     *)
(***************************************************************************)
Chip == INSTANCE FlashGeometry

\* Both updates copy a whole number of pages (copy_flash_region refuses
\* anything else), and what they read stays inside the staging area.
THEOREM CopiesWholePages ==
  /\ Chip!app_size % 256 = 0 /\ Chip!boot_size % 256 = 0
  /\ \A k \in Chip!Rounds(Chip!app_size) \cup Chip!Rounds(Chip!boot_size) :
       /\ Chip!DestOfRound(Chip!update_start_addr, k) >= Chip!update_start_addr
       /\ Chip!DestOfRound(Chip!update_start_addr, k) + 255 < Chip!flash_end_addr
<1>1. Chip!app_size = 896 * 256 /\ Chip!boot_size = 256 * 256
  BY SMT DEF Chip!KiB, Chip!app_size, Chip!boot_size, Chip!app_start_addr, Chip!update_start_addr
<1>2. \A k \in Chip!Rounds(Chip!app_size) \cup Chip!Rounds(Chip!boot_size) : k \in Nat /\ k < 896
  BY <1>1, Z3 DEF Chip!Rounds
<1>3. Chip!app_size % 256 = 0 /\ Chip!boot_size % 256 = 0
  BY Z3 DEF Chip!KiB, Chip!app_size, Chip!boot_size, Chip!app_start_addr, Chip!update_start_addr
<1> QED
  BY <1>2, <1>3, SMT DEF Chip!KiB, Chip!update_start_addr, Chip!flash_end_addr, Chip!DestOfRound

\* update_app prepares, for every page it programs, one of the sectors it
\* erased; the page lies below the staging area it is copied from.
THEOREM AppPagesInErasedSectors ==
  \A k \in Chip!Rounds(Chip!app_size) :
    LET dest == Chip!DestOfRound(Chip!app_start_addr, k)
    IN  /\ Chip!get_sector_number(dest) \in Chip!app_start_sec .. Chip!update_start_sec - 1
        /\ dest + 255 < Chip!update_start_addr
BY Z3 DEF Chip!KiB, Chip!app_size, Chip!app_start_addr, Chip!update_start_addr, Chip!Rounds, Chip!DestOfRound,
       Chip!get_sector_number, Chip!app_start_sec, Chip!update_start_sec

\* The same of update_bootloader; it stays below the application.
THEOREM BootPagesInErasedSectors ==
  \A k \in Chip!Rounds(Chip!boot_size) :
    LET dest == Chip!DestOfRound(Chip!boot_start_addr, k)
    IN  /\ Chip!get_sector_number(dest) \in Chip!boot_start_sec .. Chip!boot_end_sec
        /\ dest + 255 < Chip!app_start_addr
BY Z3 DEF Chip!KiB, Chip!boot_size, Chip!boot_start_addr, Chip!app_start_addr, Chip!Rounds, Chip!DestOfRound,
       Chip!get_sector_number, Chip!boot_start_sec, Chip!boot_end_sec

\* A page never crosses a sector border: preparing the sector of its first byte
\* is enough, and erasing sectors erases whole pages.
THEOREM PagesDoNotStraddle ==
  \A p \in 0 .. 2047 : Chip!get_sector_number(256 * p) = Chip!get_sector_number(256 * p + 255)
BY Z3 DEF Chip!KiB, Chip!get_sector_number

\* The header the bootloader looks for is the end of the page the upload tool
\* writes, that page may be written, and it lies in the sector erased last.
THEOREM HeaderInMagicSector ==
  /\ Chip!fw_header = Chip!HeaderAddr + 248
  /\ Chip!Writable(Chip!HeaderAddr)
  /\ Chip!get_sector_number(Chip!fw_header) = Chip!magic_word_sec
  /\ \A a \in Nat : Chip!get_sector_number(a) = Chip!magic_word_sec => a >= Chip!flash_end_addr - 32 * Chip!KiB
<1>1. Chip!fw_header = Chip!HeaderAddr + 248 /\ Chip!Writable(Chip!HeaderAddr)
  BY Z3 DEF Chip!KiB, Chip!fw_header, Chip!HeaderAddr, Chip!Writable, Chip!flash_end_addr
<1>2. Chip!get_sector_number(Chip!fw_header) = Chip!magic_word_sec
  BY Z3 DEF Chip!KiB, Chip!fw_header, Chip!flash_end_addr, Chip!get_sector_number, Chip!magic_word_sec
<1>3. ASSUME NEW a \in Nat, Chip!get_sector_number(a) = Chip!magic_word_sec
      PROVE  a >= Chip!flash_end_addr - 32 * Chip!KiB
  BY <1>3, Z3 DEF Chip!KiB, Chip!flash_end_addr, Chip!get_sector_number, Chip!magic_word_sec
<1> QED
  BY <1>1, <1>2, <1>3

\* A write command that passes the address check touches sectors 23 to 29 only,
\* whatever its four address bytes are.
THEOREM WritesStayInStaging ==
  \A start_addr \in Nat :
    Chip!Writable(start_addr) =>
      /\ Chip!get_sector_number(start_addr) \in Chip!update_start_sec .. Chip!magic_word_sec
      /\ start_addr + 255 < Chip!flash_end_addr
BY Z3 DEF Chip!KiB, Chip!Writable, Chip!get_sector_number, Chip!update_start_sec, Chip!magic_word_sec, Chip!flash_end_addr

\* With the LPC1769's 16 small sectors of 16 pages and 2 x 7 large ones of 128,
\* the pages, regions and sectors of Bootloader are those of the code's literals.
THEOREM ModelIsTheChip ==
  ASSUME BootSectors = 16, SmallPages = 16, AppSectors = 7, LargePages = 128
  PROVE  /\ 256 * AppStart = Chip!app_start_addr /\ 256 * UpdStart = Chip!update_start_addr
         /\ 256 * FlashPages = Chip!flash_end_addr
         /\ 256 * boot_size = Chip!boot_size /\ 256 * app_size = Chip!app_size
         /\ 256 * HeaderPage = Chip!HeaderAddr
         /\ <<boot_end_sec, app_start_sec, update_start_sec, magic_word_sec>>
              = <<Chip!boot_end_sec, Chip!app_start_sec, Chip!update_start_sec, Chip!magic_word_sec>>
         /\ \A p \in Pages : get_sector_number(p) = Chip!get_sector_number(256 * p)
<1>1. boot_size = 256 /\ app_size = 896
  BY Z3 DEF boot_size, app_size
<1>2. AppStart = 256 /\ UpdStart = 1152 /\ FlashPages = 2048 /\ HeaderPage = 2047
  BY <1>1, Z3 DEF AppStart, UpdStart, FlashPages, HeaderPage
<1>3. /\ 256 * AppStart = Chip!app_start_addr /\ 256 * UpdStart = Chip!update_start_addr
      /\ 256 * FlashPages = Chip!flash_end_addr
      /\ 256 * boot_size = Chip!boot_size /\ 256 * app_size = Chip!app_size
      /\ 256 * HeaderPage = Chip!HeaderAddr
  BY <1>1, <1>2, Z3 DEF Chip!KiB, Chip!app_start_addr, Chip!update_start_addr, Chip!flash_end_addr,
       Chip!boot_size, Chip!app_size, Chip!HeaderAddr
<1>4. /\ boot_end_sec = 15 /\ app_start_sec = 16 /\ update_start_sec = 23 /\ magic_word_sec = 29
  BY Z3 DEF boot_end_sec, app_start_sec, update_start_sec, magic_word_sec
<1>5. ASSUME NEW p \in Pages
      PROVE  get_sector_number(p) = Chip!get_sector_number(256 * p)
  BY <1>1, <1>2, Z3 DEF Pages, get_sector_number, Chip!get_sector_number, Chip!KiB
<1> QED
  BY <1>3, <1>4, <1>5 DEF Chip!boot_end_sec, Chip!app_start_sec, Chip!update_start_sec, Chip!magic_word_sec
=============================================================================
