--------------------------- MODULE FlashGeometry ----------------------------
(***************************************************************************)
(* The flash of the LPC1769 as bootloader/src/main.c and                   *)
(* rffe-app/fw_update.c number it, in bytes.  Module BootloaderProofs has   *)
(* the theorems about these literals, which link them to Bootloader.       *)
(***************************************************************************)
EXTENDS Integers

KiB == 1024
flash_end_addr    == 512 * KiB     \* 0x80000
app_start_addr    == 64 * KiB      \* 0x10000
boot_start_addr   == 0
update_start_addr == 288 * KiB     \* 0x48000
app_size          == update_start_addr - app_start_addr
boot_size         == app_start_addr
boot_start_sec    == 0
boot_end_sec      == 15
app_start_sec     == 16
update_start_sec  == 23
magic_word_sec    == 29
fw_header         == flash_end_addr - 8    \* sizeof(fw_info)

get_sector_number(flash) ==
  IF flash < 64 * KiB THEN flash \div (4 * KiB) ELSE ((flash - 64 * KiB) \div (32 * KiB)) + 16

\* dest in round k of copy_flash_region: 64 words a round.
DestOfRound(dest, k) == dest + 256 * k
Rounds(len)          == 0 .. (len \div 256) - 1

\* fw_update.c: the addresses a write command may name, and the tool's header.
Writable(start_addr) == start_addr >= 288 * KiB /\ start_addr <= 512 * KiB - 256
HeaderAddr           == 512 * KiB - 256    \* 0x7FF00
=============================================================================
