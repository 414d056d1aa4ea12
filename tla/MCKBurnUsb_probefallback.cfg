\* mmc_init fails on the eMMC (mmc0); the SD card (mmc1) is present.
CONSTANTS
  Devices = {"mmc0", "mmc1"}
  MmcOrder <- MCMmcOrder
  MmcInitOk = {"mmc1"}
  Cap = 8
  MmcBlk = 2
  SfPage = 2
  SfErase = 4
  MtdPage = 2
  MtdErase = 4
  BadBlocks = {}
  EpBuf = 4
  MaxPacket = 2
  MediaCodes = {"eMMC", "SDCARD"}
  Offsets = {0, 4}
  Sizes = {0, 2, 6}
  ShortTransfers = FALSE
  UsbErrors = FALSE
  NullValid = {FALSE}
  MaxMediumOps = 3
  UintMod = 64
  NoDevice = NoDevice
  NoBurner = NoBurner
  NoPkt = NoPkt
  Old = Old
  Blank = Blank
  Garbage = Garbage
  Hang = Hang
SPECIFICATION Spec
INVARIANT ProbeBindsLiveRequested
