\* PUFS built in; a product whose OTP refuses unsigned images and holds the
\* key hashes, still carrying the development cards (a GCM_ONLY U-Boot on
\* sdio1); both cards initialise; no hardware faults.
CONSTANTS
  StrapMedia = {"NORFLASH", "SDIO0", "SDIO1"}
  CmdMedia = {"NANDFLASH", "SDIO0", "SDIO1"}
  Boards <- MCBoardsDevCards
  LowRam <- MCLowRam
  PufsEnabled = TRUE
  HwFaults = FALSE
  MemTotal = 48
  Blk = 2
  HdrLen = 3
  TagLen = 1
  LenMod = 64
  MaxCmds = 3
  NoImage = NoImage
  NoDesc = NoDesc
  InPlace = InPlace
SPECIFICATION Spec
INVARIANT HandOffVerified
