\* One kburn session that ends (Ctrl-C) before the host configures the
\* function: kburn_unbind clears buf_head without a kburn_disable before it.
CONSTANTS
  Devices = {"mmc0"}
  MmcOrder <- MCEmmcOnly
  MmcInitOk = {"mmc0"}
  Cap = 8
  MmcBlk = 2
  SfPage = 2
  SfErase = 4
  MtdPage = 2
  MtdErase = 4
  BadBlocks = {}
  EpBuf = 4
  MaxPacket = 2
  MediaCodes = {"eMMC"}
  Offsets = {0}
  Sizes = {2}
  ShortTransfers = FALSE
  UsbErrors = FALSE
  NullValid = {FALSE}
  MaxMediumOps = 1
  UintMod = 64
  NoDevice = NoDevice
  NoBurner = NoBurner
  NoPkt = NoPkt
  Old = Old
  Blank = Blank
  Garbage = Garbage
  Hang = Hang
SPECIFICATION Spec
PROPERTY TransferBufferFreed
