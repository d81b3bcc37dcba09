\* Two CPUs, the kernel as it is built.
SPECIFICATION Spec
CONSTANTS
  NPROC = 5
  CPUs = {c1, c2}
  NPages = 4
  KthreadClients = FALSE
  c1 = c1
  c2 = c2
INVARIANTS
  StackHeld
