SPECIFICATION VfsSpec
CONSTANTS
  VfsProcs = {p1}
  NRAM = 3
  NEXT2 = 3
  VfsNames = {"a", "b"}
  Disk <- NestedDisk
  VfsPaths <- Paths
  VfsTargets <- Targets
  MAXSYMLINKS = 2
  MaxDents = 3
  KStackDepth = 2
  RenameMounts = FALSE
INVARIANT HeldAlive
CHECK_DEADLOCK FALSE
