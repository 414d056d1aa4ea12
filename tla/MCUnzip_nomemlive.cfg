\* malloc of a descriptor list may fail: the driver still returns.
CONSTANTS
  Deadline = 2
  StreamGood = {TRUE, FALSE}
  MallocFails = TRUE
  Line = 4
  LenMod = 64
  SrcLens = {1, 4, 5}
  DstLens = {8}
SPECIFICATION Spec
PROPERTY UnzipReturns
