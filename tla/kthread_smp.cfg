\* Two CPUs, with kernel threads that create others, one slot and one stack
\* page to spare.
SPECIFICATION Spec
CONSTANTS
  NPROC = 4
  CPUs = {c1, c2}
  NPages = 3
  KthreadClients = TRUE
  c1 = c1
  c2 = c2
SYMMETRY Symmetry
INVARIANTS
  CreatorServed
