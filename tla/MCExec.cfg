\* The shell, a child and a grandchild, for which no directory is left.
CONSTANTS
  KTHREAD_MAX = 4
  KPROCESS_MAX = 3
  MAX_THREADS_PER_PROCESS = 2
  SCHED_INTERVAL = 1
  TICK_MOD = 1
  MaxSleep = 0
  Stacks = {s1, s2, s3}
  Dirs = {d1, d2}
  Args = {a1, a2}
  BootDir = BootDir
  BootStack = BootStack
  NULL = NULL
SPECIFICATION ExecFairSpec
INVARIANTS HandoverSound
PROPERTIES StagingReleased ExecReturns
