\* One decompression; the engine may stall until the deadline, after which
\* the channels may still be running when the lists are freed.
CONSTANTS
  Deadline = 2
  StreamGood = {TRUE, FALSE}
  MallocFails = FALSE
  Line = 4
  LenMod = 64
  SrcLens = {1, 4, 5}
  DstLens = {8}
SPECIFICATION Spec
PROPERTY DescriptorsFreedIdle
