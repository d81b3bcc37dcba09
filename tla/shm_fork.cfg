\* One segment of one page, two processes.
SPECIFICATION Spec
CONSTANTS
  Procs = {p1, p2}
  InitProc = p1
  NVPages = 2
  NImage = 1
  Pages = {g1, g2, g3, g4}
  NoPage = NoPage
  Values = {1}
  ShmIds = {1}
  NoShm = NoShm
  MaxSeg = 1
  NVMA = 1
  WritableBuffers = TRUE
SYMMETRY Symmetry
INVARIANTS
  SegmentShared
