\* SPI NOR and SPI NAND whose last block is bad: a NAND write reaching it
\* skips past the end of the device and spins. Offsets and sizes include
\* ones that are not erase-aligned; the host may cut transfers short, and
\* transfers may fail on the bus.
CONSTANTS
  Devices = {"sf", "mtd"}
  MmcOrder <- MCNoMmc
  MmcInitOk = {}
  Cap = 8
  MmcBlk = 2
  SfPage = 2
  SfErase = 4
  MtdPage = 2
  MtdErase = 4
  BadBlocks = {1}
  EpBuf = 4
  MaxPacket = 2
  MediaCodes = {"SPI_NOR", "SPI_NAND", "OTP"}
  Offsets = {0, 2, 4}
  Sizes = {0, 4, 6}
  ShortTransfers = TRUE
  UsbErrors = TRUE
  NullValid = {FALSE}
  MaxMediumOps = 3
  UintMod = 64
  NoDevice = NoDevice
  NoBurner = NoBurner
  NoPkt = NoPkt
  Old = Old
  Blank = Blank
  Garbage = Garbage
  Hang = Hang
SPECIFICATION Spec
PROPERTY ImplementsKBurnContract
