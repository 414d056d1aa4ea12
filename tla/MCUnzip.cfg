\* One decompression of an intact or a corrupt stream; malloc succeeds.
\* A deadline of 2 ticks; lines of 4 units, lengths mod 64.
CONSTANTS
  Deadline = 2
  StreamGood = {TRUE, FALSE}
  MallocFails = FALSE
  Line = 4
  LenMod = 64
  SrcLens = {1, 4, 5}
  DstLens = {8}
SPECIFICATION Spec
INVARIANT TypeOK
INVARIANT ResultMatchesEngine
PROPERTY UnzipReturns
PROPERTY ImplementsInflate
