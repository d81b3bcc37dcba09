SPECIFICATION SubsystemsSpec
CONSTANTS
  p1 = p1
  p2 = p2
  q1 = q1
  q2 = q2

  PipeProcs = {q1, q2}
  PipeFiles = {f1, f2}
  PIPESIZE = 3
  CHUNK = 2
  MaxLen = 3
  MaxCount = 4

  SemProcs = 3
  SEM_VALUE_MAX = 2
  SemInitial = 1
  MaxPosts = 2

  Shell = sh
  Job = job
  CONS_BUF = 2
  MaxTyped = 2
  MaxRead = 2

  SerialProcs = {"p1", "p2"}
  UART_BUF = 3
  MaxPuts = 3
  MaxPrintk = 2

  FdProcs = {p1, p2}
  FirstProc = p1
  FileSlots = {f1, f2}
  NOFILE = 2
  NamedInodes = {i1}
  PipeInodes = {j1}
  MarkedFds = {1}

  VfsProcs = {p1}
  NRAM = 3
  NEXT2 = 2
  VfsNames = {"a", "b"}
  Disk <- FlatDisk
  VfsPaths <- Paths
  VfsTargets <- Targets
  MAXSYMLINKS = 2
  MaxDents = 3
  KStackDepth = 2
  RenameMounts = FALSE

  OpenFiles = {f1, f2}
  BUF = 2
  MaxFileSize = 2
  MaxWrites = 2
  EXT2_NDIR_BLOCKS = 1
  BlockSize = 2
  PerBlock = 1
  Ext2Blocks <- Holes

  PROCFS_NNODES = 3
  ProcSlots = {s1, s2}
  MaxPid = 2

  BlkProcs = {q1, q2}
  SlotChan <- OneChannel
  NSECT = 1
  BLOCK_SECTOR_SIZE = 2
  MaxBytes = 2
  MaxRws = 1

  NRPAGES = 5
  MAX_ORDER = 3
  PAGE = 8
  BSIZES <- CacheSizes
  HeapSizes = {4, 12}
  MaxPageRef = 2
  MaxObjects = 3

  PGSIZE = 4
  USERLOAD = 4
  USERHEAP_TOP = 16
  USERSTACK_BOTTOM = 16
  USERSTACK = 28
  STACK_ALIGN = 4
  MAXARG = 3
  NNAME = 4
  NameLen = 3
  NFRAMES = 17
  ExecFiles <- BinFiles
  UserBins <- BuiltIn
  ExecCalls <- Calls

  SigProcs = {p1, p2}
  SigFirst = p1
  SIGKILL = 9
  SIGCHLD = 17
  OtherSigs = {2}
  MaxNest = 1

  FpuProcs = {p1, p2}
  FpuFirst = p1
  FpuCpus = {c1, c2}
  FpuValues = {"u"}

  SpinThreads = {q1, q2}
  SpinCpus = {c1, c2}
  TicksLock = lk

  NPROC = 3
  NCPU = 3

  NPAGES = 15
  MemProcs = {p1, p2}
  FirstMem = p1
  FANOUT = 2
  MaxUser = 4
  ExecImages <- TwoSegments

  RvPipeProcs = {p1, p2}
  RvPipeFirst = p1
  NFILE = 2
  RvNOFILE = 2
  NRPIPES = 2
  RVPIPESIZE = 1
  MaxRw = 1

  ConProcs = {q1, q2}
  INPUT_BUF = 2
  UART_TX_BUF_SIZE = 2
  MaxKeys = 3
  MaxConsole = 2

  LogProcs = {q1, q2}
  HomeBlocks = {1, 2}
  NBUF = 3
  LOGSIZE = 4
  MAXOPBLOCKS = 2
  NLOG = 4
  MaxOps = 2
  MaxReads = 1
  MaxCrashes = 1

  DiskProcs = {p1, p2, p3}
  NUM = 8

  FSSIZE = 8
  NMETA = 1
  BSIZE = 2
  NDIRECT = 1
  DiskInodes = {1, 2, 3}
  MkFiles <- OneFile
  BlockProcs = {q1, q2}
  MaxUnits = 3

  FsProcs <- FsUsers
  FsCalls <- Works
  FsNames = {"a"}
  NINODES = 3
  MaxLinks = 2

  HeapStart = 2
  HeapEnd = 14
  MinUnits = 4
  MallocUnits = {2, 3, 5}

SYMMETRY Symmetry

INVARIANTS
  
  
  
  ReferencesExact
  StorageDivided
  
  LocksSound
  BiosServed
  ExecWhole
  
  
  RvWaiterNotified
  RvNoSpinCycle
  
  RvTreeSound
CHECK_DEADLOCK FALSE
