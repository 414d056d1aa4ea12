\* WRITE_LBA with no medium bound: the read through the NULL burner may
\* find a set valid bit in the DDR at address 0.
CONSTANTS
  Devices = {"mmc0", "mmc1"}
  MmcOrder <- MCMmcOrder
  MmcInitOk = {"mmc0", "mmc1"}
  Cap = 8
  MmcBlk = 2
  SfPage = 2
  SfErase = 4
  MtdPage = 2
  MtdErase = 4
  BadBlocks = {}
  EpBuf = 4
  MaxPacket = 2
  MediaCodes = {"eMMC", "OTP"}
  Offsets = {0, 4}
  Sizes = {0, 2, 6}
  ShortTransfers = FALSE
  UsbErrors = FALSE
  NullValid = {FALSE, TRUE}
  MaxMediumOps = 3
  UintMod = 64
  NoDevice = NoDevice
  NoBurner = NoBurner
  NoPkt = NoPkt
  Old = Old
  Blank = Blank
  Garbage = Garbage
  Hang = Hang
SPECIFICATION Spec
INVARIANT NoDownloadWithoutMedium
