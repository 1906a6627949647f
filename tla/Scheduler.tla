------------------------------ MODULE Scheduler ------------------------------
(***************************************************************************)
(* The preemptive round-robin scheduler of ParinOS                         *)
(* (src/kernel/multitasking.c): thread and process tables, the cleanup     *)
(* pool that defers the release of a dead thread's stack, and the timer    *)
(* interrupt that switches contexts.                                       *)
(*                                                                         *)
(* The machine has one CPU.  The code between cli and sti runs with        *)
(* interrupts off, so every operation below is one atomic step of the      *)
(* current thread, and scheduler_tick, which runs inside IRQ0, is one step *)
(* that may come between any two of them.                                  *)
(*                                                                         *)
(* A stack is the heap block kmalloc returned for it, and a saved or       *)
(* current ESP is abstracted to the block it points into: that is all the  *)
(* properties tell apart.  Names, ids and sizes of threads are left out;   *)
(* TSS.esp0 and the SYSENTER_ESP register, always written together by the  *)
(* scheduler, are the one variable tss_esp0.                               *)
(*                                                                         *)
(* An operator X_Y placed before X is a faulty variant of X, a bug the     *)
(* properties must be able to detect; no specification uses it.            *)
(***************************************************************************)
EXTENDS Naturals, Sequences, FiniteSets

CONSTANTS
  KTHREAD_MAX,              \* slots of threads[]
  KPROCESS_MAX,             \* slots of processes[]
  MAX_THREADS_PER_PROCESS,  \* slots of kprocess_t.thread_ids[]
  SCHED_INTERVAL,           \* timer ticks between two scheduling decisions
  TICK_MOD,                 \* tick is an unsigned integer modulo TICK_MOD (2^32)
  MaxSleep,                 \* bound: longest sleep requested, in ticks
  Stacks,                   \* the stack blocks the kernel heap can hand out
  Dirs,                     \* page directories of user processes
  BootDir,                  \* the boot page directory
  BootStack,                \* the boot stack thread 0 runs on
  NULL                      \* null pointer, also a cr3 or esp of 0

ASSUME SchedulerAssumption ==
  /\ KTHREAD_MAX \in Nat \ {0}
  /\ KPROCESS_MAX \in Nat /\ KPROCESS_MAX > 1
  /\ MAX_THREADS_PER_PROCESS \in Nat \ {0}
  /\ SCHED_INTERVAL \in Nat \ {0}
  /\ TICK_MOD \in Nat \ {0}
  /\ MaxSleep \in Nat
  /\ NULL \notin Stacks /\ BootStack \notin Stacks /\ NULL # BootStack
  /\ NULL \notin Dirs /\ BootDir \notin Dirs /\ NULL # BootDir

Tids == 0 .. KTHREAD_MAX - 1
Pids == 0 .. KPROCESS_MAX - 1

ThreadStates == {"UNUSED", "READY", "RUNNING", "SLEEPING", "ZOMBIE"}

\* The cleanup pool has one entry per thread slot.
CLEANUP_POOL_MAX == KTHREAD_MAX

VARIABLES
  tstate,         \* threads[t].state
  tpid,           \* threads[t].pid
  tesp,           \* threads[t].esp: the stack the saved context lies on
  tstack,         \* threads[t].stack
  tsleep,         \* threads[t].sleep_until_tick
  tcr3,           \* threads[t].cr3
  pstate,         \* processes[p].state
  procid,         \* processes[p].id
  pthreads,       \* processes[p].thread_ids[0 .. thread_count - 1]
  current_tid,
  current_pid,
  sched_counter,
  tick,
  cleanup_pool,   \* entries of cleanup_pool[0 .. cleanup_count - 1], as a set
  heap,           \* stack blocks kmalloc has handed out and kfree not taken back
  cpu_esp,        \* the stack the CPU is executing on
  cpu_cr3,        \* CR3
  cur_dir,        \* vmm.c's current_page_directory, the software copy of CR3
  tss_esp0,       \* TSS.esp0: the stack an interrupt from ring 3 switches to
  halted          \* threads inside the final "while (1) hlt" of an exit call

tables  == <<tstate, tpid, tesp, tstack, tsleep, tcr3>>
procs   == <<pstate, procid, pthreads>>
current == <<current_tid, current_pid>>
clock   == <<sched_counter, tick>>
cpu     == <<cpu_esp, cpu_cr3, cur_dir, tss_esp0>>
vars    == <<tables, procs, current, clock, cleanup_pool, heap, cpu, halted>>

Entries == [stack : Stacks, tid : Tids]

\* Every variable stays within the ranges the C declarations give it.
TypeOK ==
  /\ tstate \in [Tids -> ThreadStates]
  /\ tpid \in [Tids -> Pids]
  /\ tesp \in [Tids -> Stacks \cup {BootStack, NULL}]
  /\ tstack \in [Tids -> Stacks \cup {NULL}]
  /\ tsleep \in [Tids -> 0 .. TICK_MOD - 1]
  /\ tcr3 \in [Tids -> Dirs \cup {NULL}]
  /\ pstate \in [Pids -> {"UNUSED", "RUNNING"}]
  /\ procid \in [Pids -> Pids]
  /\ pthreads \in [Pids -> Seq(Tids)]
  /\ current_tid \in Tids
  /\ current_pid \in Pids
  /\ sched_counter \in 0 .. SCHED_INTERVAL - 1
  /\ tick \in 0 .. TICK_MOD - 1
  /\ cleanup_pool \in SUBSET Entries
  /\ heap \in SUBSET Stacks
  /\ cpu_esp \in Stacks \cup {BootStack}
  /\ cpu_cr3 \in Dirs \cup {BootDir}
  /\ cur_dir \in Dirs \cup {BootDir}
  /\ tss_esp0 \in Stacks \cup {BootStack}
  /\ halted \in SUBSET Tids

-----------------------------------------------------------------------------
(***************************************************************************)
(* init_multitasking.  The kernel's main thread is thread 0, on the boot   *)
(* stack; its pid field says 1 while its PCB is processes[0].  The timer   *)
(* has been counting since before the call.                                *)
(***************************************************************************)
Init ==
  /\ tstate = [t \in Tids |-> IF t = 0 THEN "RUNNING" ELSE "UNUSED"]
  /\ tpid = [t \in Tids |-> IF t = 0 THEN 1 ELSE 0]
  /\ tesp = [t \in Tids |-> NULL]
  /\ tstack = [t \in Tids |-> NULL]
  /\ tsleep = [t \in Tids |-> 0]
  /\ tcr3 = [t \in Tids |-> NULL]
  /\ pstate = [p \in Pids |-> IF p = 0 THEN "RUNNING" ELSE "UNUSED"]
  /\ procid = [p \in Pids |-> IF p = 0 THEN 1 ELSE 0]
  /\ pthreads = [p \in Pids |-> IF p = 0 THEN <<0>> ELSE <<>>]
  /\ current_tid = 0 /\ current_pid = 0
  /\ sched_counter = 0
  /\ tick \in 0 .. TICK_MOD - 1
  /\ cleanup_pool = {}
  /\ heap = {}
  /\ cpu_esp = BootStack /\ tss_esp0 = BootStack
  /\ cpu_cr3 = BootDir /\ cur_dir = BootDir
  /\ halted = {}

-----------------------------------------------------------------------------
(***************************************************************************)
(* Operations of the current thread.                                       *)
(***************************************************************************)

\* The current thread is executing its own code: not asleep, not in the hlt
\* loop that ends kthread_exit and kprocess_exit.
CanCall == tstate[current_tid] = "RUNNING" /\ current_tid \notin halted

\* The first slot of a table that is UNUSED.
alloc_thread_slot(t) ==
  tstate[t] = "UNUSED" /\ \A u \in Tids : u < t => tstate[u] # "UNUSED"

alloc_process_slot(p) ==
  pstate[p] = "UNUSED" /\ \A q \in Pids : q < p => pstate[q] # "UNUSED"

\* kmalloc of a stack and the TCB of a new thread t of process p, whose
\* initial context lies on that stack.
StartThread(t, p, s) ==
  /\ s \in Stacks \ heap
  /\ heap' = heap \cup {s}
  /\ tstate' = [tstate EXCEPT ![t] = "READY"]
  /\ tpid' = [tpid EXCEPT ![t] = p]
  /\ tesp' = [tesp EXCEPT ![t] = s]
  /\ tstack' = [tstack EXCEPT ![t] = s]
  /\ tsleep' = [tsleep EXCEPT ![t] = 0]
  /\ tcr3' = [tcr3 EXCEPT ![t] = NULL]
  /\ halted' = halted \ {t}
  /\ UNCHANGED <<current, clock, cleanup_pool, cpu>>

\* A new thread of the current process; the process lists it only while its
\* thread_ids[] has room.  A failing call changes nothing.
kcreate_thread(t, s) ==
  /\ CanCall
  /\ alloc_thread_slot(t)
  /\ StartThread(t, current_pid, s)
  /\ pthreads' = IF Len(pthreads[current_pid]) < MAX_THREADS_PER_PROCESS
                 THEN [pthreads EXCEPT ![current_pid] = Append(@, t)]
                 ELSE pthreads
  /\ UNCHANGED <<pstate, procid>>

kcreate_process(p, t, s) ==
  /\ CanCall
  /\ alloc_process_slot(p)
  /\ alloc_thread_slot(t)
  /\ StartThread(t, p, s)
  /\ pstate' = [pstate EXCEPT ![p] = "RUNNING"]
  /\ procid' = [procid EXCEPT ![p] = p]
  /\ pthreads' = [pthreads EXCEPT ![p] = <<t>>]

\* No thread slot is left, or kmalloc fails: the PCB goes back to UNUSED, its
\* other fields already overwritten.
kcreate_process_fail(p) ==
  /\ CanCall
  /\ alloc_process_slot(p)
  /\ procid' = [procid EXCEPT ![p] = p]
  /\ pthreads' = [pthreads EXCEPT ![p] = <<>>]
  /\ UNCHANGED <<tables, pstate, current, clock, cleanup_pool, heap, cpu,
                 halted>>

\* Threads of the list ids that have a stack to hand over and find room in
\* the cleanup pool when the loop over ids reaches them.
Queued(ids, victims) ==
  LET stacked == {t \in victims : tstack[t] # NULL}
      Earlier(u, t) == \E i \in DOMAIN ids :
                          ids[i] = u /\ \A j \in DOMAIN ids : ids[j] = t => i < j
  IN  {t \in stacked :
         Cardinality(cleanup_pool)
           + Cardinality({u \in stacked : Earlier(u, t)}) < CLEANUP_POOL_MAX}

\* Mark the victims ZOMBIE and move their stacks to the cleanup pool.
Terminate_KeepStack(ids, victims) ==
  LET queued == Queued(ids, victims) IN
  /\ tstate' = [t \in Tids |-> IF t \in victims THEN "ZOMBIE" ELSE tstate[t]]
  /\ cleanup_pool' = cleanup_pool
                       \cup {[stack |-> tstack[t], tid |-> t] : t \in queued}
  /\ UNCHANGED tstack

Terminate(ids, victims) ==
  LET queued == Queued(ids, victims) IN
  /\ tstate' = [t \in Tids |-> IF t \in victims THEN "ZOMBIE" ELSE tstate[t]]
  /\ cleanup_pool' = cleanup_pool
                       \cup {[stack |-> tstack[t], tid |-> t] : t \in queued}
  /\ tstack' = [t \in Tids |-> IF t \in queued THEN NULL ELSE tstack[t]]

kthread_exit ==
  /\ CanCall
  /\ Terminate(<<current_tid>>, {current_tid})
  /\ halted' = halted \cup {current_tid}
  /\ UNCHANGED <<tpid, tesp, tsleep, tcr3, procs, current, clock, heap, cpu>>

\* Threads the PCB lists, except the ones whose slot is UNUSED by now.
Listed(p) ==
  {t \in Tids : tstate[t] # "UNUSED" /\ \E i \in DOMAIN pthreads[p] : pthreads[p][i] = t}

kprocess_exit ==
  /\ CanCall
  /\ Terminate(pthreads[current_pid], Listed(current_pid))
  /\ pstate' = [pstate EXCEPT ![current_pid] = "UNUSED"]
  /\ halted' = halted \cup {current_tid}
  /\ UNCHANGED <<tpid, tesp, tsleep, tcr3, procid, pthreads, current, clock,
                 heap, cpu>>

\* kthread_sleep(ms), ms > 0; with ms = 0 the call returns at once.
kthread_sleep(ms) ==
  /\ CanCall
  /\ tstate' = [tstate EXCEPT ![current_tid] = "SLEEPING"]
  /\ tsleep' = [tsleep EXCEPT ![current_tid] = (tick + ms) % TICK_MOD]
  /\ UNCHANGED <<tpid, tesp, tstack, tcr3, procs, current, clock, cleanup_pool,
                 heap, cpu, halted>>

\* kthread_set_cr3(kthread_id(), d).
kthread_set_cr3(d) ==
  /\ CanCall
  /\ tcr3' = [tcr3 EXCEPT ![current_tid] = d]
  /\ UNCHANGED <<tstate, tpid, tesp, tstack, tsleep, procs, current, clock,
                 cleanup_pool, heap, cpu, halted>>

\* vmm_switch_page_dir(d) of a thread: two writes, with interrupts on.
vmm_switch_page_dir_ptr(d) ==
  /\ CanCall
  /\ cur_dir' = d
  /\ UNCHANGED <<tables, procs, current, clock, cleanup_pool, heap, cpu_esp,
                 cpu_cr3, tss_esp0, halted>>

vmm_switch_page_dir_cr3(d) ==
  /\ CanCall
  /\ cpu_cr3' = d
  /\ UNCHANGED <<tables, procs, current, clock, cleanup_pool, heap, cpu_esp,
                 cur_dir, tss_esp0, halted>>

-----------------------------------------------------------------------------
(***************************************************************************)
(* scheduler_tick, called by irq0_handler on every timer interrupt.        *)
(***************************************************************************)
Now == (tick + 1) % TICK_MOD

\* Thread states after sleepers whose tick has come are made READY.
Woken_Late == [t \in Tids |-> IF tstate[t] = "SLEEPING" /\ Now > tsleep[t]
                              THEN "READY" ELSE tstate[t]]

Woken_Early == [t \in Tids |-> IF tstate[t] = "SLEEPING" /\ Now + 1 >= tsleep[t]
                               THEN "READY" ELSE tstate[t]]

Woken == [t \in Tids |-> IF tstate[t] = "SLEEPING" /\ Now >= tsleep[t]
                         THEN "READY" ELSE tstate[t]]

Runnable == {t \in Tids : Woken[t] \in {"READY", "RUNNING"}}

\* How many slots the round-robin search probes before it reaches t.
Probes_FromZero(t) == t
Probes(t) == (t + KTHREAD_MAX - current_tid - 1) % KTHREAD_MAX

IsNext(n) == n \in Runnable /\ \A u \in Runnable : Probes(n) <= Probes(u)

\* cleanup_dead_threads(current_tid): free the queued stacks and reset their
\* slots, except those of the thread whose stack still holds the IRQ frame.
\* st and saved are threads[].state and threads[].esp when it is called.
cleanup_dead_threads_All(st, saved) ==
  LET tids == {e.tid : e \in cleanup_pool} IN
  /\ cleanup_pool' = {}
  /\ heap' = heap \ {e.stack : e \in cleanup_pool}
  /\ tstate' = [t \in Tids |-> IF t \in tids THEN "UNUSED" ELSE st[t]]
  /\ tstack' = [t \in Tids |-> IF t \in tids THEN NULL ELSE tstack[t]]
  /\ tesp' = [t \in Tids |-> IF t \in tids THEN NULL ELSE saved[t]]

cleanup_dead_threads_NoReset(st, saved) ==
  LET dead == {e \in cleanup_pool : e.tid # current_tid}
      tids == {e.tid : e \in dead}
  IN
  /\ cleanup_pool' = cleanup_pool \ dead
  /\ heap' = heap \ {e.stack : e \in dead}
  /\ tstate' = st
  /\ tstack' = [t \in Tids |-> IF t \in tids THEN NULL ELSE tstack[t]]
  /\ tesp' = [t \in Tids |-> IF t \in tids THEN NULL ELSE saved[t]]

cleanup_dead_threads(st, saved) ==
  LET dead == {e \in cleanup_pool : e.tid # current_tid}
      tids == {e.tid : e \in dead}
  IN
  /\ cleanup_pool' = cleanup_pool \ dead
  /\ heap' = heap \ {e.stack : e \in dead}
  /\ tstate' = [t \in Tids |-> IF t \in tids THEN "UNUSED" ELSE st[t]]
  /\ tstack' = [t \in Tids |-> IF t \in tids THEN NULL ELSE tstack[t]]
  /\ tesp' = [t \in Tids |-> IF t \in tids THEN NULL ELSE saved[t]]

SavedEsp == [tesp EXCEPT ![current_tid] = cpu_esp]

\* The tick falls inside the scheduling interval.
TickOnly ==
  /\ sched_counter + 1 < SCHED_INTERVAL
  /\ sched_counter' = sched_counter + 1
  /\ tick' = Now
  /\ UNCHANGED <<tables, procs, current, cleanup_pool, heap, cpu, halted>>

\* What every scheduling decision does, whatever it decides.
Reschedule ==
  /\ sched_counter + 1 = SCHED_INTERVAL
  /\ sched_counter' = 0
  /\ tick' = Now
  /\ UNCHANGED <<tpid, tsleep, tcr3, procs, halted>>

\* No thread can run: the current one, asleep or dead, stays in its hlt loop.
TickIdle ==
  /\ Reschedule
  /\ Runnable = {}
  /\ cleanup_dead_threads(Woken, SavedEsp)
  /\ UNCHANGED <<current, cpu>>

\* The search comes back to the current thread.
TickSame ==
  /\ Reschedule
  /\ IsNext(current_tid)
  /\ cleanup_dead_threads([Woken EXCEPT ![current_tid] = "RUNNING"], SavedEsp)
  /\ UNCHANGED <<current, cpu>>

\* The page directory a thread runs in: cr3 = 0 stands for the boot directory.
DirOf(t) == IF tcr3[t] = NULL THEN BootDir ELSE tcr3[t]

\* What becomes of the thread that loses the CPU.
Preempted == IF Woken[current_tid] = "RUNNING" THEN "READY" ELSE Woken[current_tid]

\* The stack interrupts from ring 3 will use; thread 0 has none of its own.
KernelStackOf(n) == IF tstack[n] # NULL THEN tstack[n] ELSE tss_esp0

\* Context switch to thread n.
TickSwitch(n) ==
  /\ Reschedule
  /\ n # current_tid
  /\ IsNext(n)
  /\ cleanup_dead_threads([Woken EXCEPT ![current_tid] = Preempted, ![n] = "RUNNING"],
                          SavedEsp)
  /\ current_tid' = n
  /\ current_pid' = tpid[n]
  /\ cpu_cr3' = DirOf(n)
  /\ cur_dir' = IF cpu_cr3 # DirOf(n) THEN DirOf(n) ELSE cur_dir
  /\ tss_esp0' = KernelStackOf(n)
  /\ cpu_esp' = tesp'[n]

scheduler_tick == TickOnly \/ TickIdle \/ TickSame \/ \E n \in Tids : TickSwitch(n)

-----------------------------------------------------------------------------
Calls ==
  \/ \E t \in Tids, s \in Stacks : kcreate_thread(t, s)
  \/ \E p \in Pids, t \in Tids, s \in Stacks : kcreate_process(p, t, s)
  \/ \E p \in Pids : kcreate_process_fail(p)
  \/ kthread_exit
  \/ kprocess_exit
  \/ \E ms \in 1 .. MaxSleep : kthread_sleep(ms)
  \/ \E d \in Dirs : kthread_set_cr3(d)
  \/ \E d \in Dirs \cup {BootDir} :
       vmm_switch_page_dir_ptr(d) \/ vmm_switch_page_dir_cr3(d)

Next == Calls \/ scheduler_tick

Spec == Init /\ [][Next]_vars

-----------------------------------------------------------------------------
(***************************************************************************)
(* Properties.                                                             *)
(***************************************************************************)

\* Ownership of stacks: every block the heap has handed out belongs to
\* exactly one thread or one cleanup-pool entry, and nothing else is owned.
\* Hence a stack is never freed twice, never freed while a thread still has
\* it, and never leaked by the deferred release of kthread_exit and
\* kprocess_exit.
StackOwnership ==
  /\ \A t \in Tids : tstack[t] # NULL => tstack[t] \in heap
  /\ \A t, u \in Tids : tstack[t] = tstack[u] /\ tstack[t] # NULL => t = u
  /\ \A e \in cleanup_pool : e.stack \in heap /\ \A t \in Tids : tstack[t] # e.stack
  /\ \A e, f \in cleanup_pool : e.stack = f.stack \/ e.tid = f.tid => e = f
  /\ \A s \in heap : \/ \E t \in Tids : tstack[t] = s
                     \/ \E e \in cleanup_pool : e.stack = s

\* The CPU always executes on an allocated stack (or the boot stack), and so
\* does every thread the scheduler may switch to: its saved ESP lies on the
\* stack its own TCB holds.
ExecutionOnLiveStack ==
  /\ cpu_esp \in heap \cup {BootStack}
  /\ \A t \in Tids :
       t # current_tid /\ tstate[t] \in {"READY", "SLEEPING"}
         => tesp[t] = IF t = 0 THEN BootStack ELSE tstack[t]

\* A dead thread other than thread 0 is always in the cleanup pool, so its
\* slot can be recovered: the pool never overflows.
ZombiesQueued ==
  \A t \in Tids \ {0} :
    tstate[t] = "ZOMBIE" => \E e \in cleanup_pool : e.tid = t

\* Only the current thread is RUNNING; it never waits for the CPU it has, and
\* its slot is never handed to a new thread.
CurrentThread ==
  /\ tstate[current_tid] \notin {"UNUSED", "READY"}
  /\ \A t \in Tids : tstate[t] = "RUNNING" => t = current_tid

\* An interrupt or system call from ring 3 lands on the stack of the thread
\* that is running.
KernelStackInstalled ==
  tstack[current_tid] # NULL => tss_esp0 = tstack[current_tid]

\* The tick frees no stack the CPU is on, neither the one that holds the IRQ
\* frame nor the one it switches to.
FreedOffCpu ==
  [][\A s \in heap \ heap' : s # cpu_esp /\ s # cpu_esp']_vars

\* Death is final: a zombie is never made runnable again, its slot only
\* becomes free.
ZombieIsFinal ==
  [][\A t \in Tids : tstate[t] = "ZOMBIE" => tstate'[t] \in {"ZOMBIE", "UNUSED"}]_vars

\* Slots from the current thread's on to t's, in the order of the search.
Distance(t) == (t + KTHREAD_MAX - current_tid) % KTHREAD_MAX

\* Round robin starves no one: every scheduling decision that leaves a READY
\* thread waiting moves the CPU strictly nearer to it, so after fewer than
\* KTHREAD_MAX decisions it runs.
RoundRobin ==
  [][TickIdle \/ TickSame \/ (\E n \in Tids : TickSwitch(n)) =>
       \A t \in Tids : tstate[t] = "READY" /\ tstate'[t] = "READY"
                         => Distance(t)' < Distance(t)]_vars

\* A dead thread gives its slot and its stack back, unless it is the current
\* thread of a system in which no thread can run any more.
ZombieReclaimed ==
  \A t \in Tids \ {0} :
    tstate[t] = "ZOMBIE" ~> tstate[t] = "UNUSED" \/ Runnable = {}

\* The parts that make the invariants above inductive: what is in the cleanup
\* pool, which threads have a stack (every one but thread 0 from creation to
\* death), where a thread's saved context lies, and that the CPU is on the
\* current thread's stack, be it condemned or not.
PoolEntries ==
  \A e \in cleanup_pool : e.tid # 0 /\ tstate[e.tid] = "ZOMBIE" /\ tstack[e.tid] = NULL

Live == {"READY", "RUNNING", "SLEEPING"}

StackHolders ==
  /\ tstack[0] = NULL /\ tstate[0] # "UNUSED"
  /\ \A t \in Tids \ {0} : tstack[t] # NULL <=> tstate[t] \in Live

SavedContexts ==
  /\ \A t \in Tids : tstack[t] # NULL => tesp[t] = tstack[t]
  /\ current_tid # 0 => tesp[0] = BootStack

CpuOnCurrentStack ==
  \/ current_tid = 0 /\ cpu_esp = BootStack
  \/ tstack[current_tid] # NULL /\ cpu_esp = tstack[current_tid]
  \/ \E e \in cleanup_pool : e.tid = current_tid /\ e.stack = cpu_esp

\* The inductive invariant of the scheduler.
IInv ==
  /\ TypeOK
  /\ StackOwnership
  /\ ZombiesQueued
  /\ CurrentThread
  /\ PoolEntries
  /\ StackHolders
  /\ SavedContexts
  /\ CpuOnCurrentStack

\* The abstract view of a stack block.
Status == [s \in Stacks |->
             IF s \notin heap THEN "free"
             ELSE IF \E e \in cleanup_pool : e.stack = s THEN "condemned" ELSE "live"]

Lifecycle == INSTANCE StackLifecycle WITH status <- Status, on <- cpu_esp

\* The cleanup pool keeps the promise of StackLifecycle: a stack is freed only
\* by a scheduling decision, only after its thread has ended, and only when
\* the CPU was on another stack; and every such stack is freed by it.
ImplementsLifecycle == Lifecycle!Spec

(***************************************************************************)
(* What multitasking.h promises and the code does not keep.                *)
(***************************************************************************)

\* "Ends the current process and all the threads that belong to it"
\* (multitasking.h, kprocess_exit): the call ends the threads of the process,
\* and no others.
ExitEndsOwnThreads ==
  [][\A p \in Pids : pstate[p] = "RUNNING" /\ pstate'[p] = "UNUSED" =>
       \A t \in Tids \ {0} : tstate[t] \notin {"UNUSED", "ZOMBIE"}
                               => (tstate'[t] = "ZOMBIE" <=> tpid[t] = p)]_vars

=============================================================================
