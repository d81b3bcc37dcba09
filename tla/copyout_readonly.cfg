\* As memory, with buffers the program itself may not write.
SPECIFICATION Spec
CONSTANTS
  Procs = {p1, p2}
  InitProc = p1
  NVPages = 2
  NImage = 1
  Pages = {g1, g2, g3, g4}
  NoPage = NoPage
  Values = {1}
  ShmIds = {}
  NoShm = NoShm
  MaxSeg = 1
  NVMA = 1
  WritableBuffers = FALSE
SYMMETRY Symmetry
PROPERTIES
  ReadOnlyKept
