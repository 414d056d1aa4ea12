\* An intact stream; malloc of a descriptor list may fail.
CONSTANTS
  Deadline = 2
  StreamGood = {TRUE}
  MallocFails = TRUE
  Line = 4
  LenMod = 64
  SrcLens = {1, 4, 5}
  DstLens = {8}
SPECIFICATION Spec
INVARIANT ResultMatchesEngine
