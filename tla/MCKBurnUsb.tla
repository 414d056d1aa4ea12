----------------------------- MODULE MCKBurnUsb -----------------------------
(***************************************************************************)
(* Model-checking instances of KBurnUsb. Sizes are scaled: EpBuf = 4 units *)
(* stands for KBURN_USB_EP_BUFFER_SZIE (128 KiB); the block, page, erase   *)
(* and packet sizes keep their divisibility relations to it, which is what *)
(* the alignment checks of the drivers and of rx_bytes_expected see.      *)
(***************************************************************************)
EXTENDS KBurnUsb

(* uclass order of the block devices: eMMC (mmc0) first, SD card second.  *)
MCMmcOrder == <<"mmc0", "mmc1">>

(* A board with the eMMC only. *)
MCEmmcOnly == <<"mmc0">>

(* A board without block devices. *)
MCNoMmc == <<>>

=============================================================================
