\* One CPU, with kernel threads that create others; two slots and two stack
\* pages besides those of init and kthreadd.
SPECIFICATION FairSpec
CONSTANTS
  NPROC = 5
  CPUs = {c1}
  NPages = 4
  KthreadClients = TRUE
  c1 = c1
INVARIANTS
  KernelSurvives
  StacksAccounted
  StackHeld
  WaiterSeesExit
  KthreaddSeesRequest
PROPERTIES
  RunnableRuns
  WaitReturns
  RequestServed
