\* Built without CONFIG_K230_PUFS: OTP holding the key hashes but allowing
\* unsigned images, both cards initialise, an RT-Smart uImage left in low
\* RAM by an earlier step; no hardware faults.
CONSTANTS
  StrapMedia = {"NORFLASH", "SDIO0", "SDIO1"}
  CmdMedia = {"NANDFLASH", "SDIO0", "SDIO1"}
  Boards <- MCBoardsPukOnly
  LowRam <- MCLowRamStale
  PufsEnabled = FALSE
  HwFaults = FALSE
  MemTotal = 48
  Blk = 2
  HdrLen = 3
  TagLen = 1
  LenMod = 64
  MaxCmds = 3
  NoImage = NoImage
  NoDesc = NoDesc
  InPlace = InPlace
SPECIFICATION Spec
INVARIANT HandOffVerified
