\* Sleeps whose deadline keeps one scheduling interval away from the overflow.
CONSTANTS
  KTHREAD_MAX = 3
  KPROCESS_MAX = 2
  MAX_THREADS_PER_PROCESS = 2
  SCHED_INTERVAL = 2
  TICK_MOD = 6
  MaxSleep = 3
  LastDeadline = 4
  Stacks = {s1}
  Dirs = {}
  BootDir = BootDir
  BootStack = BootStack
  NULL = NULL
SPECIFICATION SleepSpec
INVARIANTS
  PromptWake
PROPERTIES
  NoEarlyWake
  ZombieReclaimed
