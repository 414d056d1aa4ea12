\* PUFS built in; the board is a development board (OTP blank, the sdio1
\* card does not initialise, unsigned and broken containers about) or a
\* product (OTP refuses unsigned images and holds the key hashes, every
\* card image signed); block reads, OTP reads and PUFS calls may fail.
CONSTANTS
  StrapMedia = {"NORFLASH", "SDIO0", "SDIO1"}
  CmdMedia = {"NANDFLASH", "SDIO0", "SDIO1"}
  Boards <- MCBoards
  LowRam <- MCLowRam
  PufsEnabled = TRUE
  HwFaults = TRUE
  MemTotal = 48
  Blk = 2
  HdrLen = 3
  TagLen = 1
  LenMod = 64
  MaxCmds = 3
  NoImage = NoImage
  NoDesc = NoDesc
  InPlace = InPlace
SPECIFICATION Spec
INVARIANT TypeOK
INVARIANT HandOffVerified
PROPERTY ImplementsSecureBoot
