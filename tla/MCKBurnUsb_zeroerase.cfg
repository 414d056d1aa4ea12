\* ERASE_LBA of size 0 on a bound block device.
CONSTANTS
  Devices = {"mmc0"}
  MmcOrder <- MCEmmcOnly
  MmcInitOk = {"mmc0"}
  Cap = 8
  MmcBlk = 2
  SfPage = 2
  SfErase = 4
  MtdPage = 2
  MtdErase = 4
  BadBlocks = {}
  EpBuf = 4
  MaxPacket = 2
  MediaCodes = {"eMMC"}
  Offsets = {0, 4}
  Sizes = {0, 2, 6}
  ShortTransfers = FALSE
  UsbErrors = FALSE
  NullValid = {FALSE}
  MaxMediumOps = 3
  UintMod = 64
  NoDevice = NoDevice
  NoBurner = NoBurner
  NoPkt = NoPkt
  Old = Old
  Blank = Blank
  Garbage = Garbage
  Hang = Hang
SPECIFICATION Spec
INVARIANT ZeroEraseIsOk
