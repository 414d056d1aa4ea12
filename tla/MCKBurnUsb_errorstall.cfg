\* SPI NOR, an image whose size is not a whole number of erase units;
\* no bus errors.
CONSTANTS
  Devices = {"sf"}
  MmcOrder <- MCNoMmc
  MmcInitOk = {}
  Cap = 8
  MmcBlk = 2
  SfPage = 2
  SfErase = 4
  MtdPage = 2
  MtdErase = 4
  BadBlocks = {1}
  EpBuf = 4
  MaxPacket = 2
  MediaCodes = {"SPI_NOR"}
  Offsets = {0}
  Sizes = {6}
  ShortTransfers = FALSE
  UsbErrors = FALSE
  NullValid = {FALSE}
  MaxMediumOps = 3
  UintMod = 64
  NoDevice = NoDevice
  NoBurner = NoBurner
  NoPkt = NoPkt
  Old = Old
  Blank = Blank
  Garbage = Garbage
  Hang = Hang
SPECIFICATION Spec
INVARIANT ErrorsReturnToCommandLoop
