\* WRITE_LBA at an offset that is not on a block of the device.
CONSTANTS
  Devices = {"mmc0", "mmc1"}
  MmcOrder <- MCMmcOrder
  MmcInitOk = {"mmc0", "mmc1"}
  Cap = 8
  MmcBlk = 2
  SfPage = 2
  SfErase = 4
  MtdPage = 2
  MtdErase = 4
  BadBlocks = {}
  EpBuf = 4
  MaxPacket = 2
  MediaCodes = {"eMMC"}
  Offsets = {1}
  Sizes = {2}
  ShortTransfers = FALSE
  UsbErrors = FALSE
  NullValid = {FALSE}
  MaxMediumOps = 3
  UintMod = 64
  NoDevice = NoDevice
  NoBurner = NoBurner
  NoPkt = NoPkt
  Old = Old
  Blank = Blank
  Garbage = Garbage
  Hang = Hang
SPECIFICATION Spec
PROPERTY ImplementsKBurnContract
