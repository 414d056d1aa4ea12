\* A compressed stream of length 0: ugzip_llt_cal computes (0 - 1) in
\* uint32_t, and the list it builds has far more lines than cover 0 bytes.
CONSTANTS
  Deadline = 2
  StreamGood = {TRUE, FALSE}
  MallocFails = FALSE
  Line = 4
  LenMod = 64
  SrcLens = {0}
  DstLens = {8}
SPECIFICATION Spec
INVARIANT ListNumMatches
