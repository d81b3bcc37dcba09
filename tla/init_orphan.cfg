\* One CPU and room for three generations: init, a child, a grandchild.
SPECIFICATION Spec
CONSTANTS
  NPROC = 6
  CPUs = {c1}
  NPages = 5
  KthreadClients = FALSE
  c1 = c1
INVARIANTS
  InitSeesOrphans
