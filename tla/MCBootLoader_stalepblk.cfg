\* PUFS built in; a development board (OTP blank) whose two cards both
\* initialise and hold different images; no hardware faults; up to three
\* k230_boot commands.
CONSTANTS
  StrapMedia = {"NORFLASH", "SDIO0", "SDIO1"}
  CmdMedia = {"NANDFLASH", "SDIO0", "SDIO1"}
  Boards <- MCBoardsDev
  LowRam <- MCLowRam
  PufsEnabled = TRUE
  HwFaults = FALSE
  MemTotal = 48
  Blk = 2
  HdrLen = 3
  TagLen = 1
  LenMod = 64
  MaxCmds = 3
  NoImage = NoImage
  NoDesc = NoDesc
  InPlace = InPlace
SPECIFICATION Spec
INVARIANT ReadsRequestedMedium
