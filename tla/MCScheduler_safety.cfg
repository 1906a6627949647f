\* Every call of the scheduler's interface; a sleep lasts to the next decision.
CONSTANTS
  KTHREAD_MAX = 3
  KPROCESS_MAX = 2
  MAX_THREADS_PER_PROCESS = 2
  SCHED_INTERVAL = 2
  TICK_MOD = 1
  MaxSleep = 1
  Stacks = {s1, s2}
  Dirs = {d1}
  BootDir = BootDir
  BootStack = BootStack
  NULL = NULL
SPECIFICATION Spec
SYMMETRY StackSymmetry
INVARIANTS IInv
PROPERTIES FreedOffCpu RoundRobin ImplementsLifecycle
