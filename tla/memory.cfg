\* Private memory only: two processes on two CPUs, a program of one page and one
\* page for heap or mmap, frames for every page to be copied.
SPECIFICATION Spec
CONSTANTS
  Procs = {p1, p2}
  InitProc = p1
  NVPages = 2
  NImage = 1
  Pages = {g1, g2, g3, g4}
  NoPage = NoPage
  Values = {1}
  ShmIds = {}
  NoShm = NoShm
  MaxSeg = 1
  NVMA = 1
  WritableBuffers = TRUE
SYMMETRY Symmetry
INVARIANTS
  MemoryTypeOK
  RefsExact
PROPERTIES
  PrivateSpaces
