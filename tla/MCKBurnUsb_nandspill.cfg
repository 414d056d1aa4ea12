\* SPI NAND whose first erase block is bad; aligned, unbroken transfers.
CONSTANTS
  Devices = {"mtd"}
  MmcOrder <- MCNoMmc
  MmcInitOk = {}
  Cap = 8
  MmcBlk = 2
  SfPage = 2
  SfErase = 4
  MtdPage = 2
  MtdErase = 4
  BadBlocks = {0}
  EpBuf = 4
  MaxPacket = 2
  MediaCodes = {"SPI_NAND"}
  Offsets = {0}
  Sizes = {4}
  ShortTransfers = FALSE
  UsbErrors = FALSE
  NullValid = {FALSE}
  MaxMediumOps = 3
  UintMod = 64
  NoDevice = NoDevice
  NoBurner = NoBurner
  NoPkt = NoPkt
  Old = Old
  Blank = Blank
  Garbage = Garbage
  Hang = Hang
SPECIFICATION Spec
PROPERTY DownloadConfinement
