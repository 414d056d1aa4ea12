\* An eMMC download whose remainder exceeds what the unsigned int
\* transfer_size of rx_write_lba_handler holds: UintMod = 8 stands for 2^32
\* and Sizes = {10} for an image of 4 GiB plus 2 chunks' worth of bytes.
CONSTANTS
  Devices = {"mmc0"}
  MmcOrder <- MCEmmcOnly
  MmcInitOk = {"mmc0"}
  Cap = 16
  MmcBlk = 2
  SfPage = 2
  SfErase = 4
  MtdPage = 2
  MtdErase = 4
  BadBlocks = {}
  EpBuf = 4
  MaxPacket = 2
  MediaCodes = {"eMMC"}
  Offsets = {0}
  Sizes = {10}
  ShortTransfers = FALSE
  UsbErrors = FALSE
  NullValid = {FALSE}
  MaxMediumOps = 3
  UintMod = 8
  NoDevice = NoDevice
  NoBurner = NoBurner
  NoPkt = NoPkt
  Old = Old
  Blank = Blank
  Garbage = Garbage
  Hang = Hang
SPECIFICATION Spec
PROPERTY DownloadTerminates
