\* A development board: PUFS built in, OTP neither refusing unsigned images
\* nor holding a key hash; hardware calls may fail; the SD card on sdio1
\* does not initialise.
CONSTANTS
  StrapMedia = {"NORFLASH", "SDIO0", "SDIO1"}
  CmdMedia = {"NANDFLASH", "SDIO0", "SDIO1"}
  Boards <- MCBoardsShortGcm
  LowRam <- MCLowRam
  PufsEnabled = TRUE
  HwFaults = FALSE
  MemTotal = 48
  Blk = 2
  HdrLen = 3
  TagLen = 1
  LenMod = 64
  MaxCmds = 3
  NoImage = NoImage
  NoDesc = NoDesc
  InPlace = InPlace
SPECIFICATION Spec
INVARIANT WritesInsideRam
