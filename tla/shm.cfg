\* One segment of up to two pages, whose identifier is used again; contents do
\* not matter here.
SPECIFICATION Spec
CONSTANTS
  Procs = {p1, p2}
  InitProc = p1
  NVPages = 3
  NImage = 1
  Pages = {g1, g2, g3}
  NoPage = NoPage
  Values = {}
  ShmIds = {1}
  NoShm = NoShm
  MaxSeg = 2
  NVMA = 1
  WritableBuffers = TRUE
SYMMETRY Symmetry
INVARIANTS
  RefsExact
  AttachCounted
