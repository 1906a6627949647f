--------------------------- MODULE SchedulerProofs ---------------------------
(***************************************************************************)
(* Proofs about Scheduler: type correctness, the inductive invariant and   *)
(* its consequences, for every number of threads, processes and stacks;    *)
(* about SleepTimer, whose steps are the scheduler's; and about Exec: what *)
(* sys_exec hands to a program stays whole and reaches that program, for   *)
(* every number of argument copies and page directories too.               *)
(***************************************************************************)
EXTENDS SleepTimer, Exec, Numbers

(***************************************************************************)
(* Types of the tables a scheduling decision computes.                     *)
(***************************************************************************)

\* Waking sleepers (step 5 of scheduler_tick) keeps the thread states typed.
LEMMA WokenType ==
  ASSUME TypeOK
  PROVE  /\ Woken \in [Tids -> ThreadStates]
         /\ SavedEsp \in [Tids -> Stacks \cup {BootStack, NULL}]
         /\ Preempted \in ThreadStates
         /\ Now \in 0 .. TICK_MOD - 1
  BY SchedulerAssumption DEF TypeOK, Woken, SavedEsp, Preempted, Now, ThreadStates

\* cleanup_dead_threads keeps pool, heap and thread table typed.
LEMMA CleanupType ==
  ASSUME TypeOK,
         NEW st \in [Tids -> ThreadStates],
         NEW saved \in [Tids -> Stacks \cup {BootStack, NULL}],
         cleanup_dead_threads(st, saved)
  PROVE  /\ tstate' \in [Tids -> ThreadStates]
         /\ tstack' \in [Tids -> Stacks \cup {NULL}]
         /\ tesp' \in [Tids -> Stacks \cup {BootStack, NULL}]
         /\ cleanup_pool' \in SUBSET Entries
         /\ heap' \in SUBSET Stacks
  BY DEF TypeOK, cleanup_dead_threads, ThreadStates

\* Moving dead threads' stacks to the pool keeps it typed.
LEMMA TerminateType ==
  ASSUME TypeOK, NEW ids, NEW victims \in SUBSET Tids, Terminate(ids, victims)
  PROVE  /\ tstate' \in [Tids -> ThreadStates]
         /\ tstack' \in [Tids -> Stacks \cup {NULL}]
         /\ cleanup_pool' \in SUBSET Entries
<1>1. /\ Queued(ids, victims) \in SUBSET victims
      /\ \A t \in Queued(ids, victims) : tstack[t] # NULL
  BY DEF Queued
<1>2. \A t \in Queued(ids, victims) : [stack |-> tstack[t], tid |-> t] \in Entries
  BY <1>1 DEF TypeOK, Entries
<1> QED
  BY <1>1, <1>2 DEF TypeOK, Terminate, ThreadStates

\* The thread a context switch selects is not in the cleanup pool, and its
\* saved ESP, which the CPU loads, lies on its own stack.
LEMMA SwitchTarget ==
  ASSUME IInv, NEW n \in Tids, TickSwitch(n)
  PROVE  /\ \A e \in cleanup_pool : e.tid # n
         /\ tstate[n] \in Live
         /\ cpu_esp' = IF n = 0 THEN BootStack ELSE tstack[n]
         /\ n # 0 => tstack[n] # NULL
         /\ cpu_esp' \in Stacks \cup {BootStack}
<1>1. n # current_tid /\ Woken[n] \in {"READY", "RUNNING"}
  BY DEF TickSwitch, IsNext, Runnable
<1>2. tstate[n] \in Live
  BY <1>1 DEF Woken, Live
<1>3. \A e \in cleanup_pool : e.tid # n
  BY <1>2 DEF IInv, PoolEntries, Live
<1>4. tesp'[n] = tesp[n]
  <2>1. SavedEsp[n] = tesp[n]
    BY <1>1 DEF SavedEsp, IInv, TypeOK
  <2> QED
    BY <1>3, <2>1 DEF TickSwitch, cleanup_dead_threads
<1>5. cpu_esp' = tesp[n]
  BY <1>4 DEF TickSwitch
<1>6. n # 0 => tstack[n] # NULL /\ tesp[n] = tstack[n]
  BY <1>2 DEF IInv, StackHolders, SavedContexts
<1>7. n = 0 => tesp[n] = BootStack
  BY <1>1 DEF IInv, SavedContexts
<1> QED
  BY <1>2, <1>3, <1>5, <1>6, <1>7 DEF IInv, TypeOK

\* init_multitasking leaves well-typed tables.
LEMMA InitType == Init => TypeOK
<1> SUFFICES ASSUME Init PROVE TypeOK
  OBVIOUS
<1>1. 0 \in Tids /\ 0 \in Pids /\ 1 \in Pids /\ 0 \in 0 .. TICK_MOD - 1
      /\ 0 \in 0 .. SCHED_INTERVAL - 1
  BY SchedulerAssumption DEF Tids, Pids
<1>2. pthreads \in [Pids -> Seq(Tids)]
  <2>1. <<0>> \in Seq(Tids) /\ << >> \in Seq(Tids)
    BY <1>1
  <2> QED
    BY <2>1 DEF Init
<1> QED
  BY <1>1, <1>2 DEF Init, TypeOK, ThreadStates

\* No operation and no timer interrupt stores a value outside the ranges of
\* the C declarations.
LEMMA NextType == IInv /\ [Next]_vars => TypeOK'
<1> SUFFICES ASSUME IInv, [Next]_vars PROVE TypeOK'
  OBVIOUS
<1> TypeOK
  BY DEF IInv
<1> USE DEF tables, procs, current, clock, cpu
<1>0. 0 \in 0 .. TICK_MOD - 1
  BY SchedulerAssumption
<1>1. ASSUME NEW t \in Tids, NEW s \in Stacks, kcreate_thread(t, s) PROVE TypeOK'
  <2>1. pthreads' \in [Pids -> Seq(Tids)]
    BY <1>1 DEF kcreate_thread, TypeOK
  <2> QED
    BY <1>0, <1>1, <2>1 DEF kcreate_thread, StartThread, TypeOK, ThreadStates
<1>2. ASSUME NEW p \in Pids, NEW t \in Tids, NEW s \in Stacks, kcreate_process(p, t, s)
      PROVE  TypeOK'
  <2>1. pthreads' \in [Pids -> Seq(Tids)]
    BY <1>2 DEF kcreate_process, TypeOK
  <2> QED
    BY <1>0, <1>2, <2>1 DEF kcreate_process, StartThread, TypeOK, ThreadStates
<1>3. ASSUME NEW p \in Pids, kcreate_process_fail(p) PROVE TypeOK'
  <2>1. pthreads' \in [Pids -> Seq(Tids)]
    BY <1>3 DEF kcreate_process_fail, TypeOK
  <2> QED
    BY <1>3, <2>1 DEF kcreate_process_fail, TypeOK
<1>4. CASE kthread_exit
  <2>1. {current_tid} \in SUBSET Tids /\ Terminate(<<current_tid>>, {current_tid})
    BY <1>4 DEF kthread_exit, TypeOK
  <2> QED
    BY <1>4, <2>1, TerminateType DEF kthread_exit, TypeOK
<1>5. CASE kprocess_exit
  <2>1. /\ Listed(current_pid) \in SUBSET Tids
        /\ Terminate(pthreads[current_pid], Listed(current_pid))
    BY <1>5 DEF kprocess_exit, Listed
  <2> QED
    BY <1>5, <2>1, TerminateType DEF kprocess_exit, TypeOK
<1>6. ASSUME NEW ms \in 1 .. MaxSleep, kthread_sleep(ms) PROVE TypeOK'
  <2>1. (tick + ms) % TICK_MOD \in 0 .. TICK_MOD - 1
    BY SchedulerAssumption DEF TypeOK
  <2> QED
    BY <1>6, <2>1 DEF kthread_sleep, TypeOK, ThreadStates
<1>7. ASSUME NEW d \in Dirs, kthread_set_cr3(d) PROVE TypeOK'
  BY <1>7 DEF kthread_set_cr3, TypeOK
<1>8. ASSUME NEW d \in Dirs \cup {BootDir},
             vmm_switch_page_dir_ptr(d) \/ vmm_switch_page_dir_cr3(d)
      PROVE  TypeOK'
  BY <1>8 DEF vmm_switch_page_dir_ptr, vmm_switch_page_dir_cr3, TypeOK
<1>9. CASE TickOnly
  BY <1>9, WokenType, SchedulerAssumption DEF TickOnly, TypeOK
<1>10. ASSUME Reschedule PROVE /\ sched_counter' \in 0 .. SCHED_INTERVAL - 1
                               /\ tick' \in 0 .. TICK_MOD - 1
  BY <1>10, WokenType, SchedulerAssumption DEF Reschedule
<1>11. CASE TickIdle
  BY <1>10, <1>11, WokenType, CleanupType DEF TickIdle, Reschedule, TypeOK
<1>12. CASE TickSame
  <2>1. [Woken EXCEPT ![current_tid] = "RUNNING"] \in [Tids -> ThreadStates]
    BY WokenType DEF ThreadStates
  <2> QED
    BY <1>10, <1>12, <2>1, WokenType, CleanupType DEF TickSame, Reschedule, TypeOK
<1>13. ASSUME NEW n \in Tids, TickSwitch(n) PROVE TypeOK'
  <2>1. [Woken EXCEPT ![current_tid] = Preempted, ![n] = "RUNNING"]
           \in [Tids -> ThreadStates]
    BY WokenType DEF ThreadStates
  <2> QED
    BY <1>10, <1>13, <2>1, WokenType, CleanupType, SwitchTarget
    DEF TickSwitch, Reschedule, TypeOK, DirOf, KernelStackOf
<1>14. CASE UNCHANGED vars
  BY <1>14 DEF vars, TypeOK
<1> QED
  BY <1>1, <1>2, <1>3, <1>4, <1>5, <1>6, <1>7, <1>8, <1>9, <1>11, <1>12, <1>13,
     <1>14 DEF Next, Calls, scheduler_tick

-----------------------------------------------------------------------------
(***************************************************************************)
(* The cleanup pool has room for every stack an exit call hands over: its  *)
(* entries have distinct thread ids, none of them the id of a thread that  *)
(* still has a stack.                                                      *)
(***************************************************************************)
LEMMA PoolHasRoom ==
  ASSUME IInv, NEW t \in Tids, tstack[t] # NULL,
         NEW B \in SUBSET Tids, t \notin B, \A u \in B : tstack[u] # NULL
  PROVE  Cardinality(cleanup_pool) + Cardinality(B) < CLEANUP_POOL_MAX
<1> DEFINE T == Tids \ (B \cup {t})
           f == [e \in cleanup_pool |-> e.tid]
<1>1. IsFiniteSet(Tids) /\ Cardinality(Tids) = KTHREAD_MAX
  BY FS_Interval, SchedulerAssumption DEF Tids
<1>2. IsFiniteSet(B) /\ Cardinality(B) \in Nat
  BY <1>1, FS_Subset, FS_CardinalityType
<1>3. IsFiniteSet(B \cup {t}) /\ Cardinality(B \cup {t}) = Cardinality(B) + 1
  BY <1>2, FS_AddElement
<1>4. IsFiniteSet(T) /\ Cardinality(T) = KTHREAD_MAX - (Cardinality(B) + 1)
  <2>1. Tids \cap (B \cup {t}) = B \cup {t}
    OBVIOUS
  <2>2. /\ IsFiniteSet(T)
        /\ Cardinality(T) = Cardinality(Tids) - Cardinality(Tids \cap (B \cup {t}))
    BY <1>1, FS_Difference
  <2> QED
    BY <1>1, <1>3, <2>1, <2>2
<1>5. f \in Injection(cleanup_pool, T)
  <2>1. \A e \in cleanup_pool : e.tid \in T
    BY DEF IInv, TypeOK, Entries, PoolEntries
  <2>2. \A e, g \in cleanup_pool : e.tid = g.tid => e = g
    BY DEF IInv, StackOwnership
  <2> QED
    BY <2>1, <2>2 DEF Injection, IsInjective
<1>6. IsFiniteSet(cleanup_pool) /\ Cardinality(cleanup_pool) <= Cardinality(T)
  BY <1>4, <1>5, FS_Injection
<1>7. Cardinality(cleanup_pool) \in Nat
  BY <1>6, FS_CardinalityType
<1> QED
  BY <1>2, <1>4, <1>6, <1>7, SchedulerAssumption DEF CLEANUP_POOL_MAX

\* Hence the loops of kthread_exit and kprocess_exit queue every stack.
LEMMA AllQueued ==
  ASSUME IInv, NEW ids \in Seq(Tids), NEW victims \in SUBSET Tids
  PROVE  Queued(ids, victims) = {t \in victims : tstack[t] # NULL}
<1> DEFINE stacked == {t \in victims : tstack[t] # NULL}
           Earlier(u, t) == \E i \in DOMAIN ids :
                              ids[i] = u /\ \A j \in DOMAIN ids : ids[j] = t => i < j
           Before(t) == {u \in stacked : Earlier(u, t)}
<1>1. ASSUME NEW t \in stacked
      PROVE  Cardinality(cleanup_pool) + Cardinality(Before(t)) < CLEANUP_POOL_MAX
  <2>1. t \notin Before(t)
    <3>1. DOMAIN ids \in SUBSET Nat
      OBVIOUS
    <3> QED
      BY <3>1
  <2>2. Before(t) \in SUBSET Tids /\ \A u \in Before(t) : tstack[u] # NULL
    OBVIOUS
  <2> HIDE DEF Before
  <2> QED
    BY <1>1, <2>1, <2>2, PoolHasRoom
<1> QED
  BY <1>1 DEF Queued

-----------------------------------------------------------------------------
(***************************************************************************)
(* The inductive invariant, one lemma per way the tables change.           *)
(***************************************************************************)

\* init_multitasking: only thread 0 exists, on the boot stack.
LEMMA InitInv == Init => IInv
<1> SUFFICES ASSUME Init PROVE IInv
  OBVIOUS
<1>1. TypeOK
  BY InitType
<1>2. 0 \in Tids
  BY SchedulerAssumption DEF Tids
<1> QED
  BY <1>1, <1>2 DEF Init, IInv, StackOwnership, ZombiesQueued, CurrentThread,
     PoolEntries, StackHolders, SavedContexts, CpuOnCurrentStack, Live

\* A new thread takes an UNUSED slot and a block nobody owns.
LEMMA StartInv ==
  ASSUME IInv, TypeOK', NEW t \in Tids, NEW p \in Pids, NEW s \in Stacks,
         tstate[t] = "UNUSED", StartThread(t, p, s)
  PROVE  IInv'
<1> USE DEF current, cpu
<1>1. t # 0 /\ t # current_tid /\ s \notin heap /\ s # NULL
  BY SchedulerAssumption
  DEF IInv, StackHolders, CurrentThread, StartThread
<1>2. tstack[t] = NULL
  BY <1>1 DEF IInv, StackHolders, Live
<1>3. /\ tstate' = [tstate EXCEPT ![t] = "READY"]
      /\ tstack' = [tstack EXCEPT ![t] = s]
      /\ tesp' = [tesp EXCEPT ![t] = s]
      /\ heap' = heap \cup {s}
      /\ UNCHANGED <<cleanup_pool, current_tid, cpu_esp>>
  BY DEF StartThread
<1>4. \A e \in cleanup_pool : e.tid # t /\ e.stack # s
  BY <1>1 DEF IInv, PoolEntries, StackOwnership
<1>a. \A u \in Tids : /\ tstate'[u] = IF u = t THEN "READY" ELSE tstate[u]
                      /\ tstack'[u] = IF u = t THEN s ELSE tstack[u]
                      /\ tesp'[u] = IF u = t THEN s ELSE tesp[u]
  BY <1>3 DEF IInv, TypeOK
<1> USE <1>1, <1>2, <1>3, <1>4
<1>5. StackOwnership'
  <2>1. \A u \in Tids : tstack'[u] # NULL => tstack'[u] \in heap'
    BY <1>a DEF IInv, StackOwnership
  <2>2. \A u, v \in Tids : tstack'[u] = tstack'[v] /\ tstack'[u] # NULL => u = v
    BY <1>a DEF IInv, StackOwnership
  <2>3. \A e \in cleanup_pool' : e.stack \in heap' /\ \A u \in Tids : tstack'[u] # e.stack
    BY <1>a DEF IInv, StackOwnership
  <2>4. \A e, f \in cleanup_pool' : e.stack = f.stack \/ e.tid = f.tid => e = f
    BY DEF IInv, StackOwnership
  <2>5. \A b \in heap' : \/ \E u \in Tids : tstack'[u] = b
                         \/ \E e \in cleanup_pool' : e.stack = b
    <3> SUFFICES ASSUME NEW b \in heap, ~\E e \in cleanup_pool : e.stack = b
                 PROVE  \E u \in Tids : tstack'[u] = b
      BY <1>a
    <3>1. PICK u \in Tids : tstack[u] = b
      BY DEF IInv, StackOwnership
    <3>2. b # NULL
      BY SchedulerAssumption DEF IInv, TypeOK
    <3> QED
      BY <1>a, <3>1, <3>2
  <2> QED
    BY <2>1, <2>2, <2>3, <2>4, <2>5 DEF StackOwnership
<1>6. ZombiesQueued'
  BY DEF IInv, TypeOK, ZombiesQueued
<1>7. CurrentThread'
  BY DEF IInv, TypeOK, CurrentThread
<1>8. PoolEntries'
  BY DEF IInv, TypeOK, PoolEntries, Entries
<1>9. StackHolders'
  BY SchedulerAssumption DEF IInv, TypeOK, StackHolders, Live, Tids
<1>10. SavedContexts'
  <2>1. 0 \in Tids
    BY SchedulerAssumption DEF Tids
  <2> QED
    BY <1>a, <2>1 DEF IInv, SavedContexts
<1>11. CpuOnCurrentStack'
  BY DEF IInv, TypeOK, CpuOnCurrentStack
<1> QED
  BY <1>5, <1>6, <1>7, <1>8, <1>9, <1>10, <1>11 DEF IInv

\* kthread_exit and kprocess_exit: a stack changes owner, from a thread to a
\* pool entry.
LEMMA TerminateInv ==
  ASSUME IInv, TypeOK', NEW ids \in Seq(Tids), NEW victims \in SUBSET Tids,
         \A t \in victims : tstate[t] # "UNUSED",
         Terminate(ids, victims), UNCHANGED <<tesp, heap, current_tid, cpu_esp>>
  PROVE  IInv'
<1> DEFINE queued == {t \in victims : tstack[t] # NULL}
<1>1. /\ tstate' = [t \in Tids |-> IF t \in victims THEN "ZOMBIE" ELSE tstate[t]]
      /\ cleanup_pool' = cleanup_pool
                           \cup {[stack |-> tstack[t], tid |-> t] : t \in queued}
      /\ tstack' = [t \in Tids |-> IF t \in queued THEN NULL ELSE tstack[t]]
  BY AllQueued DEF Terminate
<1>2. \A t \in Tids : tstack[t] \in Stacks \cup {NULL}
  BY DEF IInv, TypeOK
<1>3. 0 \notin queued /\ 0 \in Tids
  BY SchedulerAssumption DEF IInv, StackHolders, Tids
<1>4. \A e \in cleanup_pool : e.tid \in Tids /\ e.stack \in Stacks
  BY DEF IInv, TypeOK, Entries
<1>5. \A e \in cleanup_pool' :
        \/ e \in cleanup_pool
        \/ e.tid \in queued /\ e.stack = tstack[e.tid]
           /\ e = [stack |-> tstack[e.tid], tid |-> e.tid]
  BY <1>1
<1>6. \A t \in queued : \E e \in cleanup_pool' : e.tid = t /\ e.stack = tstack[t]
  <2>1. \A t \in queued : [stack |-> tstack[t], tid |-> t] \in cleanup_pool'
    BY <1>1
  <2> HIDE DEF queued
  <2> QED
    BY <2>1
<1>7. \A e \in cleanup_pool : e.tid \notin queued /\ \A t \in Tids : tstack[t] # e.stack
  BY DEF IInv, PoolEntries, StackOwnership
<1>8. StackOwnership'
  <2>1. \A t \in Tids : tstack'[t] # NULL => tstack'[t] \in heap' /\ tstack'[t] = tstack[t]
                                             /\ t \notin queued
    BY <1>1 DEF IInv, StackOwnership
  <2>2. \A t, u \in Tids : tstack'[t] = tstack'[u] /\ tstack'[t] # NULL => t = u
    BY <2>1 DEF IInv, StackOwnership
  <2>3. ASSUME NEW e \in cleanup_pool'
        PROVE  e.stack \in heap' /\ \A t \in Tids : tstack'[t] # e.stack
    <3>1. CASE e \in cleanup_pool
      BY <1>1, <1>4, <1>7, <3>1, SchedulerAssumption DEF IInv, StackOwnership
    <3>2. CASE e.tid \in queued /\ e.stack = tstack[e.tid]
      BY <2>1, <3>2 DEF IInv, StackOwnership
    <3> QED
      BY <1>5, <3>1, <3>2
  <2>4. ASSUME NEW e \in cleanup_pool', NEW g \in cleanup_pool',
               e.stack = g.stack \/ e.tid = g.tid
        PROVE  e = g
    BY <1>5, <1>7, <2>4 DEF IInv, StackOwnership
  <2>5. ASSUME NEW s \in heap'
        PROVE  \/ \E t \in Tids : tstack'[t] = s
               \/ \E e \in cleanup_pool' : e.stack = s
    <3>1. \/ \E t \in Tids : tstack[t] = s
          \/ \E e \in cleanup_pool : e.stack = s
      BY DEF IInv, StackOwnership
    <3> QED
      BY <1>1, <1>6, <3>1
  <2> QED
    BY <2>1, <2>2, <2>3, <2>4, <2>5 DEF StackOwnership
<1>9. ZombiesQueued'
  <2> SUFFICES ASSUME NEW t \in Tids \ {0}, tstate'[t] = "ZOMBIE"
               PROVE  \E e \in cleanup_pool' : e.tid = t
    BY DEF ZombiesQueued
  <2>1. CASE t \in queued
    BY <1>6, <2>1
  <2>2. CASE tstate[t] = "ZOMBIE"
    BY <1>1, <2>2 DEF IInv, ZombiesQueued
  <2>3. CASE t \in victims /\ tstate[t] # "ZOMBIE"
    <3>1. tstate[t] \in Live
      BY <2>3 DEF IInv, TypeOK, ThreadStates, Live
    <3> QED
      BY <2>1, <2>3, <3>1 DEF IInv, StackHolders
  <2> QED
    BY <1>1, <2>1, <2>2, <2>3
<1>10. CurrentThread'
  BY <1>1 DEF IInv, TypeOK, CurrentThread
<1>11. PoolEntries'
  BY <1>1, <1>3, <1>4, <1>5 DEF IInv, PoolEntries
<1>12. StackHolders'
  BY <1>1, <1>3 DEF IInv, StackHolders, Live
<1>13. SavedContexts'
  BY <1>1 DEF IInv, SavedContexts
<1>14. CpuOnCurrentStack'
  <2>1. current_tid \in Tids
    BY DEF IInv, TypeOK
  <2>2. CASE current_tid \in queued
    BY <1>3, <1>6, <1>7, <2>2 DEF IInv, CpuOnCurrentStack
  <2>3. CASE current_tid \notin queued
    BY <1>1, <2>1, <2>3 DEF IInv, CpuOnCurrentStack
  <2> QED
    BY <2>2, <2>3
<1> QED
  BY <1>8, <1>9, <1>10, <1>11, <1>12, <1>13, <1>14 DEF IInv

\* cleanup_dead_threads frees the stacks of dead threads other than the
\* current one; the thread states it starts from differ from the table's only
\* between live states.
LEMMA CleanupInv ==
  ASSUME IInv, TypeOK',
         NEW st \in [Tids -> ThreadStates],
         \A t \in Tids : \/ st[t] = tstate[t]
                         \/ st[t] \in Live /\ tstate[t] \in Live,
         cleanup_dead_threads(st, SavedEsp)
  PROVE  /\ StackOwnership' /\ ZombiesQueued' /\ PoolEntries' /\ StackHolders'
         /\ \A t \in Tids : tstack'[t] # NULL => tesp'[t] = tstack'[t]
         /\ tesp'[0] = SavedEsp[0]
         /\ \A t \in Tids : tstate'[t] \in {st[t], "UNUSED"}
         /\ \A t \in Tids : (\A e \in cleanup_pool : e.tid # t)
                              => tstate'[t] = st[t] /\ tstack'[t] = tstack[t]
         /\ tstate'[current_tid] = st[current_tid]
         /\ tstack'[current_tid] = tstack[current_tid]
         /\ \A e \in cleanup_pool : e.tid = current_tid => e \in cleanup_pool'
<1> DEFINE dead == {e \in cleanup_pool : e.tid # current_tid}
           tids == {e.tid : e \in dead}
<1>1. /\ cleanup_pool' = cleanup_pool \ dead
      /\ heap' = heap \ {e.stack : e \in dead}
      /\ \A t \in Tids : /\ tstate'[t] = IF t \in tids THEN "UNUSED" ELSE st[t]
                         /\ tstack'[t] = IF t \in tids THEN NULL ELSE tstack[t]
                         /\ tesp'[t] = IF t \in tids THEN NULL ELSE SavedEsp[t]
  BY DEF cleanup_dead_threads
<1>2. \A t \in tids : t \in Tids /\ t # 0 /\ t # current_tid /\ tstack[t] = NULL
                      /\ tstate[t] = "ZOMBIE"
  BY DEF IInv, TypeOK, Entries, PoolEntries
<1>3. \A t \in Tids : tstack'[t] = tstack[t]
  BY <1>1, <1>2
<1>4. 0 \in Tids /\ current_tid \in Tids
  BY SchedulerAssumption DEF IInv, TypeOK, Tids
<1>5. \A e \in cleanup_pool' : e \in cleanup_pool /\ e.tid = current_tid
                               /\ e.tid \notin tids /\ e.tid \in Tids
  BY <1>1, <1>2, <1>4
<1>6. StackOwnership'
  <2>1. \A t \in Tids : tstack'[t] # NULL => tstack'[t] \in heap'
    BY <1>1, <1>3 DEF IInv, StackOwnership
  <2>2. \A t, u \in Tids : tstack'[t] = tstack'[u] /\ tstack'[t] # NULL => t = u
    BY <1>3 DEF IInv, StackOwnership
  <2>3. \A e \in cleanup_pool' : e.stack \in heap' /\ \A t \in Tids : tstack'[t] # e.stack
    BY <1>1, <1>3, <1>5 DEF IInv, StackOwnership
  <2>4. \A e, f \in cleanup_pool' : e.stack = f.stack \/ e.tid = f.tid => e = f
    BY <1>5 DEF IInv, StackOwnership
  <2>5. \A s \in heap' : \/ \E t \in Tids : tstack'[t] = s
                         \/ \E e \in cleanup_pool' : e.stack = s
    BY <1>1, <1>3 DEF IInv, StackOwnership
  <2> QED
    BY <2>1, <2>2, <2>3, <2>4, <2>5 DEF StackOwnership
<1>7. ZombiesQueued'
  <2> SUFFICES ASSUME NEW t \in Tids \ {0}, tstate'[t] = "ZOMBIE"
               PROVE  \E e \in cleanup_pool' : e.tid = t
    BY DEF ZombiesQueued
  <2>1. t \notin tids /\ tstate[t] = "ZOMBIE"
    BY <1>1 DEF Live
  <2>2. PICK e \in cleanup_pool : e.tid = t
    BY <2>1 DEF IInv, ZombiesQueued
  <2> QED
    BY <1>1, <2>1, <2>2
<1>8. PoolEntries'
  <2> SUFFICES ASSUME NEW e \in cleanup_pool'
               PROVE  e.tid # 0 /\ tstate'[e.tid] = "ZOMBIE" /\ tstack'[e.tid] = NULL
    BY DEF PoolEntries
  <2>1. e \in cleanup_pool /\ e.tid \notin tids /\ e.tid \in Tids
    BY <1>5
  <2>2. e.tid # 0 /\ tstate[e.tid] = "ZOMBIE" /\ tstack[e.tid] = NULL
    BY <2>1 DEF IInv, PoolEntries
  <2>3. st[e.tid] = "ZOMBIE"
    BY <2>1, <2>2 DEF Live
  <2> QED
    BY <1>1, <1>3, <2>1, <2>2, <2>3
<1>9. StackHolders'
  <2>1. tstack'[0] = NULL /\ tstate'[0] # "UNUSED"
    BY <1>1, <1>2, <1>3, <1>4 DEF IInv, StackHolders, Live
  <2>2. ASSUME NEW t \in Tids \ {0}
        PROVE  tstack'[t] # NULL <=> tstate'[t] \in Live
    <3>1. CASE t \in tids
      BY <1>1, <3>1 DEF Live
    <3>2. CASE t \notin tids
      BY <1>1, <3>2 DEF IInv, StackHolders
    <3> QED
      BY <3>1, <3>2
  <2> QED
    BY <2>1, <2>2 DEF StackHolders
<1>10. ASSUME NEW t \in Tids, tstack'[t] # NULL
       PROVE  tesp'[t] = tstack'[t]
  <2>1. t \notin tids /\ tstack[t] # NULL /\ tesp'[t] = SavedEsp[t]
    BY <1>1, <1>3, <1>10
  <2>2. CASE t = current_tid
    <3>1. cpu_esp = tstack[t]
      BY <2>1, <2>2 DEF IInv, CpuOnCurrentStack, PoolEntries, StackHolders
    <3> QED
      BY <1>3, <2>1, <2>2, <3>1 DEF SavedEsp, IInv, TypeOK
  <2>3. CASE t # current_tid
    BY <1>3, <2>1, <2>3 DEF SavedEsp, IInv, TypeOK, SavedContexts
  <2> QED
    BY <2>2, <2>3
<1> QED
  BY <1>1, <1>2, <1>3, <1>4, <1>6, <1>7, <1>8, <1>9, <1>10

\* Every step of the scheduler keeps the invariant.
LEMMA NextInv == IInv /\ [Next]_vars => IInv'
<1> SUFFICES ASSUME IInv, [Next]_vars PROVE IInv'
  OBVIOUS
<1> USE DEF tables, procs, current, clock, cpu
<1>0. TypeOK /\ TypeOK'
  BY NextType DEF IInv
<1>1. ASSUME NEW t \in Tids, NEW s \in Stacks, kcreate_thread(t, s) PROVE IInv'
  BY <1>0, <1>1, StartInv DEF kcreate_thread, alloc_thread_slot, TypeOK
<1>2. ASSUME NEW p \in Pids, NEW t \in Tids, NEW s \in Stacks, kcreate_process(p, t, s)
      PROVE  IInv'
  BY <1>0, <1>2, StartInv DEF kcreate_process, alloc_thread_slot
<1>3. CASE kthread_exit
  <2>1. /\ <<current_tid>> \in Seq(Tids) /\ {current_tid} \in SUBSET Tids
        /\ tstate[current_tid] # "UNUSED"
    BY <1>0 DEF IInv, CurrentThread, TypeOK
  <2>2. Terminate(<<current_tid>>, {current_tid})
        /\ UNCHANGED <<tesp, heap, current_tid, cpu_esp>>
    BY <1>3 DEF kthread_exit
  <2> QED
    BY <1>0, <2>1, <2>2, TerminateInv
<1>4. CASE kprocess_exit
  <2>1. /\ pthreads[current_pid] \in Seq(Tids) /\ Listed(current_pid) \in SUBSET Tids
        /\ \A t \in Listed(current_pid) : tstate[t] # "UNUSED"
    BY <1>0 DEF TypeOK, Listed
  <2>2. Terminate(pthreads[current_pid], Listed(current_pid))
        /\ UNCHANGED <<tesp, heap, current_tid, cpu_esp>>
    BY <1>4 DEF kprocess_exit
  <2> QED
    BY <1>0, <2>1, <2>2, TerminateInv
<1>5. ASSUME NEW ms \in 1 .. MaxSleep, kthread_sleep(ms) PROVE IInv'
  <2>1. /\ tstate[current_tid] = "RUNNING" /\ current_tid \in Tids
        /\ UNCHANGED <<tstack, tesp, cleanup_pool, heap, current_tid, cpu_esp>>
    BY <1>0, <1>5 DEF kthread_sleep, CanCall, TypeOK
  <2>2. \A t \in Tids : tstate'[t] = IF t = current_tid THEN "SLEEPING" ELSE tstate[t]
    BY <1>0, <1>5 DEF kthread_sleep, TypeOK
  <2>3. StackOwnership'
    BY <2>1 DEF IInv, StackOwnership
  <2>4. ZombiesQueued'
    BY <2>1, <2>2 DEF IInv, ZombiesQueued
  <2>5. CurrentThread'
    BY <2>1, <2>2 DEF IInv, CurrentThread
  <2>6. PoolEntries'
    BY <1>0, <2>1, <2>2 DEF IInv, PoolEntries, TypeOK, Entries
  <2>7. StackHolders'
    <3>1. 0 \in Tids
      BY SchedulerAssumption DEF Tids
    <3> QED
      BY <2>1, <2>2, <3>1 DEF IInv, StackHolders, Live
  <2>8. SavedContexts' /\ CpuOnCurrentStack'
    BY <2>1 DEF IInv, SavedContexts, CpuOnCurrentStack
  <2> QED
    BY <1>0, <2>3, <2>4, <2>5, <2>6, <2>7, <2>8 DEF IInv
<1>6. ASSUME UNCHANGED <<tstate, tstack, tesp, cleanup_pool, heap, current_tid, cpu_esp>>
      PROVE  IInv'
  BY <1>0, <1>6 DEF IInv, StackOwnership, ZombiesQueued, CurrentThread, PoolEntries,
     StackHolders, SavedContexts, CpuOnCurrentStack
<1>7. ASSUME NEW p \in Pids, kcreate_process_fail(p) PROVE IInv'
  BY <1>6, <1>7 DEF kcreate_process_fail
<1>8. ASSUME NEW d \in Dirs, kthread_set_cr3(d) PROVE IInv'
  BY <1>6, <1>8 DEF kthread_set_cr3
<1>9. ASSUME NEW d \in Dirs \cup {BootDir},
             vmm_switch_page_dir_ptr(d) \/ vmm_switch_page_dir_cr3(d)
      PROVE  IInv'
  BY <1>6, <1>9 DEF vmm_switch_page_dir_ptr, vmm_switch_page_dir_cr3
<1>10. CASE TickOnly
  BY <1>6, <1>10 DEF TickOnly
<1>11. /\ Woken \in [Tids -> ThreadStates]
       /\ \A t \in Tids : \/ Woken[t] = tstate[t]
                          \/ Woken[t] = "READY" /\ tstate[t] = "SLEEPING"
  BY <1>0, WokenType DEF Woken
<1>12. current_tid \in Tids /\ 0 \in Tids
  BY <1>0, SchedulerAssumption DEF TypeOK, Tids
<1>13. /\ \A t \in Tids : Woken[t] = "RUNNING" => t = current_tid
       /\ Woken[current_tid] # "UNUSED"
  BY <1>11, <1>12 DEF IInv, CurrentThread
<1>14. SavedEsp[0] = IF current_tid = 0 THEN cpu_esp ELSE BootStack
  BY <1>0, <1>12 DEF SavedEsp, TypeOK, IInv, SavedContexts
<1>15. CASE TickIdle
  <2>1. cleanup_dead_threads(Woken, SavedEsp) /\ UNCHANGED <<current_tid, cpu_esp>>
    BY <1>15 DEF TickIdle
  <2>2. /\ StackOwnership' /\ ZombiesQueued' /\ PoolEntries' /\ StackHolders'
        /\ \A t \in Tids : tstack'[t] # NULL => tesp'[t] = tstack'[t]
        /\ tesp'[0] = SavedEsp[0]
        /\ \A t \in Tids : tstate'[t] \in {Woken[t], "UNUSED"}
        /\ tstate'[current_tid] = Woken[current_tid]
        /\ tstack'[current_tid] = tstack[current_tid]
        /\ \A e \in cleanup_pool : e.tid = current_tid => e \in cleanup_pool'
    BY <1>0, <1>11, <2>1, CleanupInv DEF Live
  <2>3. CurrentThread'
    <3>1. Woken[current_tid] # "READY"
      BY <1>12, <1>15 DEF TickIdle, Runnable
    <3> QED
      BY <1>12, <1>13, <2>1, <2>2, <3>1 DEF CurrentThread
  <2>4. SavedContexts'
    BY <1>14, <2>1, <2>2 DEF SavedContexts
  <2>5. CpuOnCurrentStack'
    BY <2>1, <2>2 DEF IInv, CpuOnCurrentStack
  <2> QED
    BY <1>0, <2>2, <2>3, <2>4, <2>5 DEF IInv
<1>16. CASE TickSame
  <2> DEFINE st == [Woken EXCEPT ![current_tid] = "RUNNING"]
  <2>1. cleanup_dead_threads(st, SavedEsp) /\ UNCHANGED <<current_tid, cpu_esp>>
        /\ Woken[current_tid] \in {"READY", "RUNNING"}
    BY <1>16 DEF TickSame, IsNext, Runnable
  <2>2. /\ st \in [Tids -> ThreadStates]
        /\ \A t \in Tids : st[t] = tstate[t] \/ (st[t] \in Live /\ tstate[t] \in Live)
        /\ \A t \in Tids : st[t] = IF t = current_tid THEN "RUNNING" ELSE Woken[t]
    <3>0. "RUNNING" \in ThreadStates
      BY DEF ThreadStates
    <3>1. st \in [Tids -> ThreadStates]
      BY <1>11, <1>12, <3>0
    <3>2. \A t \in Tids : st[t] = IF t = current_tid THEN "RUNNING" ELSE Woken[t]
      BY <1>11
    <3>3. \A t \in Tids : st[t] = tstate[t] \/ (st[t] \in Live /\ tstate[t] \in Live)
      BY <1>11, <2>1, <3>2 DEF Live
    <3> QED
      BY <3>1, <3>2, <3>3
  <2> HIDE DEF st
  <2>3. /\ StackOwnership' /\ ZombiesQueued' /\ PoolEntries' /\ StackHolders'
        /\ \A t \in Tids : tstack'[t] # NULL => tesp'[t] = tstack'[t]
        /\ tesp'[0] = SavedEsp[0]
        /\ \A t \in Tids : tstate'[t] \in {st[t], "UNUSED"}
        /\ tstate'[current_tid] = st[current_tid]
        /\ tstack'[current_tid] = tstack[current_tid]
        /\ \A e \in cleanup_pool : e.tid = current_tid => e \in cleanup_pool'
    BY <1>0, <2>1, <2>2, CleanupInv
  <2>4. CurrentThread'
    BY <1>12, <1>13, <2>1, <2>2, <2>3 DEF CurrentThread
  <2>5. SavedContexts'
    BY <1>14, <2>1, <2>3 DEF SavedContexts
  <2>6. CpuOnCurrentStack'
    BY <2>1, <2>3 DEF IInv, CpuOnCurrentStack
  <2> QED
    BY <1>0, <2>3, <2>4, <2>5, <2>6 DEF IInv
<1>17. ASSUME NEW n \in Tids, TickSwitch(n) PROVE IInv'
  <2> DEFINE st == [Woken EXCEPT ![current_tid] = Preempted, ![n] = "RUNNING"]
  <2>1. /\ cleanup_dead_threads(st, SavedEsp) /\ n # current_tid /\ current_tid' = n
        /\ Woken[n] \in {"READY", "RUNNING"}
    BY <1>17 DEF TickSwitch, IsNext, Runnable
  <2>2. /\ st \in [Tids -> ThreadStates]
        /\ \A t \in Tids : st[t] = tstate[t] \/ (st[t] \in Live /\ tstate[t] \in Live)
        /\ \A t \in Tids : st[t] = IF t = n THEN "RUNNING"
                                   ELSE IF t = current_tid THEN Preempted ELSE Woken[t]
    <3>0. "RUNNING" \in ThreadStates /\ Preempted \in ThreadStates
      BY <1>11, <1>12 DEF ThreadStates, Preempted
    <3>1. st \in [Tids -> ThreadStates]
      BY <1>11, <1>12, <3>0
    <3>2. \A t \in Tids : st[t] = IF t = n THEN "RUNNING"
                                  ELSE IF t = current_tid THEN Preempted ELSE Woken[t]
      BY <1>11, <2>1
    <3>3. \/ Preempted = Woken[current_tid]
          \/ Preempted = "READY" /\ Woken[current_tid] = "RUNNING"
      BY DEF Preempted
    <3>4. \A t \in Tids : st[t] = tstate[t] \/ (st[t] \in Live /\ tstate[t] \in Live)
      BY <1>11, <1>12, <2>1, <3>2, <3>3 DEF Live
    <3> QED
      BY <3>1, <3>2, <3>4
  <2>3. Preempted # "RUNNING"
    BY DEF Preempted
  <2> HIDE DEF st
  <2>4. /\ StackOwnership' /\ ZombiesQueued' /\ PoolEntries' /\ StackHolders'
        /\ \A t \in Tids : tstack'[t] # NULL => tesp'[t] = tstack'[t]
        /\ tesp'[0] = SavedEsp[0]
        /\ \A t \in Tids : tstate'[t] \in {st[t], "UNUSED"}
        /\ \A t \in Tids : (\A e \in cleanup_pool : e.tid # t)
                              => tstate'[t] = st[t] /\ tstack'[t] = tstack[t]
    BY <1>0, <2>1, <2>2, CleanupInv
  <2>5. /\ tstate'[n] = "RUNNING" /\ tstack'[n] = tstack[n]
        /\ cpu_esp' = IF n = 0 THEN BootStack ELSE tstack[n]
        /\ n # 0 => tstack[n] # NULL
    BY <1>17, <2>2, <2>4, SwitchTarget
  <2>6. CurrentThread'
    <3>1. \A t \in Tids : tstate'[t] = "RUNNING" => t = n
      BY <1>13, <2>2, <2>3, <2>4
    <3> QED
      BY <2>1, <2>5, <3>1 DEF CurrentThread
  <2>7. SavedContexts'
    <3>1. SavedEsp[0] = BootStack
      BY <1>14 DEF IInv, CpuOnCurrentStack, StackHolders, PoolEntries
    <3> QED
      BY <2>4, <3>1 DEF SavedContexts
  <2>8. CpuOnCurrentStack'
    BY <2>1, <2>5 DEF CpuOnCurrentStack
  <2> QED
    BY <1>0, <2>4, <2>6, <2>7, <2>8 DEF IInv
<1>18. CASE UNCHANGED vars
  BY <1>6, <1>18 DEF vars
<1> QED
  BY <1>1, <1>2, <1>3, <1>4, <1>5, <1>7, <1>8, <1>9, <1>10, <1>15, <1>16, <1>17,
     <1>18 DEF Next, Calls, scheduler_tick

-----------------------------------------------------------------------------
(***************************************************************************)
(* The theorems.                                                           *)
(***************************************************************************)

\* The inductive invariant holds in every reachable state, whatever the sizes
\* of the tables, the number of stacks and the calls threads make.
THEOREM InvariantHolds == Spec => []IInv
  BY InitInv, NextInv, PTL DEF Spec

\* Type correctness of every table, register and counter.
THEOREM TypeCorrect == Spec => []TypeOK
<1>1. IInv => TypeOK
  BY DEF IInv
<1> QED
  BY <1>1, InvariantHolds, PTL

\* Every allocated stack has exactly one owner: kthread_exit, kprocess_exit and
\* cleanup_dead_threads neither leak a stack nor free one twice.
THEOREM StacksOwned == Spec => []StackOwnership
<1>1. IInv => StackOwnership
  BY DEF IInv
<1> QED
  BY <1>1, InvariantHolds, PTL

\* The cleanup pool never overflows: every dead thread but thread 0 is in it.
THEOREM PoolComplete == Spec => []ZombiesQueued
<1>1. IInv => ZombiesQueued
  BY DEF IInv
<1> QED
  BY <1>1, InvariantHolds, PTL

\* At most one thread is RUNNING, the current one, whose slot is in use.
THEOREM OneRunning == Spec => []CurrentThread
<1>1. IInv => CurrentThread
  BY DEF IInv
<1> QED
  BY <1>1, InvariantHolds, PTL

\* The CPU executes on an allocated stack, and so does every thread the
\* scheduler can resume.
THEOREM LiveStacks == Spec => []ExecutionOnLiveStack
<1>1. IInv => ExecutionOnLiveStack
  <2> SUFFICES ASSUME IInv PROVE ExecutionOnLiveStack
    OBVIOUS
  <2>1. cpu_esp \in heap \cup {BootStack}
    BY DEF IInv, CpuOnCurrentStack, StackOwnership, TypeOK
  <2>2. ASSUME NEW t \in Tids, t # current_tid, tstate[t] \in {"READY", "SLEEPING"}
        PROVE  tesp[t] = IF t = 0 THEN BootStack ELSE tstack[t]
    BY <2>2 DEF IInv, SavedContexts, StackHolders, Live
  <2> QED
    BY <2>1, <2>2 DEF ExecutionOnLiveStack
<1> QED
  BY <1>1, InvariantHolds, PTL

\* An interrupt from ring 3 always lands on the running thread's own stack.
THEOREM KernelStack == Spec => []KernelStackInstalled
<1>1. Init => KernelStackInstalled
  BY SchedulerAssumption DEF Init, KernelStackInstalled, Tids
<1>2. IInv /\ KernelStackInstalled /\ [Next]_vars => KernelStackInstalled'
  <2> SUFFICES ASSUME IInv, KernelStackInstalled, [Next]_vars
               PROVE  KernelStackInstalled'
    OBVIOUS
  <2> USE DEF tables, procs, current, clock, cpu, KernelStackInstalled
  <2>0. current_tid \in Tids /\ tstack \in [Tids -> Stacks \cup {NULL}]
    BY DEF IInv, TypeOK
  <2>1. ASSUME UNCHANGED <<current_tid, tss_esp0>>,
               tstack'[current_tid] \in {tstack[current_tid], NULL}
        PROVE  KernelStackInstalled'
    BY <2>1
  <2>2. ASSUME NEW t \in Tids, NEW p \in Pids, NEW s \in Stacks,
               alloc_thread_slot(t), StartThread(t, p, s)
        PROVE  KernelStackInstalled'
    <3>1. t # current_tid
      BY <2>2 DEF IInv, CurrentThread, alloc_thread_slot
    <3> QED
      BY <2>0, <2>1, <2>2, <3>1 DEF StartThread
  <2>3. ASSUME NEW t \in Tids, NEW s \in Stacks, kcreate_thread(t, s)
        PROVE  KernelStackInstalled'
    BY <2>2, <2>3 DEF kcreate_thread, IInv, TypeOK
  <2>4. ASSUME NEW p \in Pids, NEW t \in Tids, NEW s \in Stacks, kcreate_process(p, t, s)
        PROVE  KernelStackInstalled'
    BY <2>2, <2>4 DEF kcreate_process
  <2>5. CASE kthread_exit \/ kprocess_exit
    BY <2>0, <2>1, <2>5 DEF kthread_exit, kprocess_exit, Terminate
  <2>6. ASSUME UNCHANGED <<current_tid, tss_esp0, tstack>> PROVE KernelStackInstalled'
    BY <2>6
  <2>7. ASSUME NEW x \in Pids \cup Dirs \cup {BootDir} \cup (1 .. MaxSleep),
               \/ kcreate_process_fail(x) \/ kthread_sleep(x) \/ kthread_set_cr3(x)
               \/ vmm_switch_page_dir_ptr(x) \/ vmm_switch_page_dir_cr3(x)
        PROVE  KernelStackInstalled'
    BY <2>6, <2>7 DEF kcreate_process_fail, kthread_sleep, kthread_set_cr3,
       vmm_switch_page_dir_ptr, vmm_switch_page_dir_cr3
  <2>8. CASE TickOnly \/ UNCHANGED vars
    BY <2>6, <2>8 DEF TickOnly, vars
  <2>9. CASE TickIdle \/ TickSame
    BY <2>0, <2>1, <2>9 DEF TickIdle, TickSame, cleanup_dead_threads
  <2>10. ASSUME NEW n \in Tids, TickSwitch(n) PROVE KernelStackInstalled'
    BY <2>0, <2>10, SwitchTarget DEF TickSwitch, KernelStackOf, cleanup_dead_threads
  <2> QED
    BY <2>3, <2>4, <2>5, <2>7, <2>8, <2>9, <2>10 DEF Next, Calls, scheduler_tick
<1> QED
  BY <1>1, <1>2, InvariantHolds, PTL DEF Spec

\* What a scheduling decision frees: stacks of the pool other than the one the
\* CPU is on, and the CPU goes to a stack that stays allocated.
LEMMA TickFrees ==
  ASSUME IInv, [Next]_vars, NEW s \in heap \ heap'
  PROVE  /\ \E e \in cleanup_pool : e.stack = s /\ e.tid # current_tid
         /\ s # cpu_esp /\ s # cpu_esp'
<1> USE DEF tables, procs, current, clock, cpu
<1>1. TickIdle \/ TickSame \/ \E n \in Tids : TickSwitch(n)
  BY DEF Next, Calls, scheduler_tick, vars, kcreate_thread, kcreate_process, StartThread,
     kcreate_process_fail, kthread_exit, kprocess_exit, kthread_sleep, kthread_set_cr3,
     vmm_switch_page_dir_ptr, vmm_switch_page_dir_cr3, TickOnly
<1>2. PICK e \in cleanup_pool : e.stack = s /\ e.tid # current_tid
  BY <1>1 DEF TickIdle, TickSame, TickSwitch, cleanup_dead_threads
<1>3. s # cpu_esp
  <2>1. s \in Stacks /\ BootStack \notin Stacks
    BY SchedulerAssumption DEF IInv, TypeOK
  <2>2. CASE tstack[current_tid] # NULL /\ cpu_esp = tstack[current_tid]
    BY <1>2, <2>2 DEF IInv, StackOwnership, TypeOK
  <2>3. CASE \E f \in cleanup_pool : f.tid = current_tid /\ f.stack = cpu_esp
    BY <1>2, <2>3 DEF IInv, StackOwnership
  <2> QED
    BY <2>1, <2>2, <2>3 DEF IInv, CpuOnCurrentStack
<1>4. s # cpu_esp'
  <2>1. CASE TickIdle \/ TickSame
    BY <1>3, <2>1 DEF TickIdle, TickSame
  <2>2. ASSUME NEW n \in Tids, TickSwitch(n) PROVE s # cpu_esp'
    <3>1. s \in Stacks /\ BootStack \notin Stacks
      BY SchedulerAssumption DEF IInv, TypeOK
    <3>2. tstack[n] # s
      BY <1>2 DEF IInv, StackOwnership
    <3> QED
      BY <2>2, <3>1, <3>2, SwitchTarget
  <2> QED
    BY <1>1, <2>1, <2>2
<1> QED
  BY <1>2, <1>3, <1>4

\* No timer interrupt frees the stack that holds its own frame, nor the one it
\* returns to.
THEOREM NeverFreedOnCpu == Spec => FreedOffCpu
<1>1. IInv /\ [Next]_vars => [\A s \in heap \ heap' : s # cpu_esp /\ s # cpu_esp']_vars
  BY TickFrees
<1> QED
  BY <1>1, InvariantHolds, PTL DEF Spec, FreedOffCpu

\* No call and no timer interrupt brings a dead thread back.
THEOREM DeathIsFinal == Spec => ZombieIsFinal
<1>1. ASSUME IInv, [Next]_vars, NEW t \in Tids, tstate[t] = "ZOMBIE"
      PROVE  tstate'[t] \in {"ZOMBIE", "UNUSED"}
  <2> USE DEF tables, procs, current, clock, cpu
  <2>0. /\ tstate \in [Tids -> ThreadStates] /\ current_tid \in Tids
        /\ Woken[t] = "ZOMBIE"
    BY <1>1 DEF IInv, TypeOK, Woken
  <2>1. ASSUME NEW u \in Tids, NEW p \in Pids, NEW s \in Stacks,
               alloc_thread_slot(u), StartThread(u, p, s)
        PROVE  tstate'[t] = "ZOMBIE"
    BY <1>1, <2>0, <2>1 DEF StartThread, alloc_thread_slot
  <2>2. ASSUME NEW u \in Tids, NEW s \in Stacks, kcreate_thread(u, s)
        PROVE  tstate'[t] = "ZOMBIE"
    BY <1>1, <2>1, <2>2 DEF kcreate_thread, IInv, TypeOK
  <2>3. ASSUME NEW p \in Pids, NEW u \in Tids, NEW s \in Stacks, kcreate_process(p, u, s)
        PROVE  tstate'[t] = "ZOMBIE"
    BY <2>1, <2>3 DEF kcreate_process
  <2>4. CASE kthread_exit \/ kprocess_exit
    BY <1>1, <2>4 DEF kthread_exit, kprocess_exit, Terminate
  <2>5. ASSUME NEW ms \in 1 .. MaxSleep, kthread_sleep(ms) PROVE tstate'[t] = "ZOMBIE"
    BY <1>1, <2>0, <2>5 DEF kthread_sleep, CanCall
  <2>6. ASSUME NEW x \in Pids \cup Dirs \cup {BootDir},
               \/ kcreate_process_fail(x) \/ kthread_set_cr3(x)
               \/ vmm_switch_page_dir_ptr(x) \/ vmm_switch_page_dir_cr3(x)
        PROVE  tstate'[t] = "ZOMBIE"
    BY <1>1, <2>6 DEF kcreate_process_fail, kthread_set_cr3, vmm_switch_page_dir_ptr,
       vmm_switch_page_dir_cr3
  <2>7. CASE TickOnly \/ UNCHANGED vars
    BY <1>1, <2>7 DEF TickOnly, vars
  <2>8. CASE TickIdle
    BY <2>0, <2>8 DEF TickIdle, cleanup_dead_threads
  <2>9. CASE TickSame
    <3>1. t # current_tid
      BY <2>0, <2>9 DEF TickSame, IsNext, Runnable
    <3>2. [Woken EXCEPT ![current_tid] = "RUNNING"][t] = "ZOMBIE"
      BY <2>0, <3>1 DEF Woken
    <3> QED
      BY <2>9, <3>2 DEF TickSame, cleanup_dead_threads
  <2>10. ASSUME NEW n \in Tids, TickSwitch(n) PROVE tstate'[t] \in {"ZOMBIE", "UNUSED"}
    <3>1. t # n
      BY <2>0, <2>10 DEF TickSwitch, IsNext, Runnable
    <3>2. [Woken EXCEPT ![current_tid] = Preempted, ![n] = "RUNNING"][t] = "ZOMBIE"
      BY <2>0, <3>1 DEF Woken, Preempted
    <3> QED
      BY <2>10, <3>2 DEF TickSwitch, cleanup_dead_threads
  <2> QED
    BY <1>1, <2>2, <2>3, <2>4, <2>5, <2>6, <2>7, <2>8, <2>9, <2>10
    DEF Next, Calls, scheduler_tick
<1>2. IInv /\ [Next]_vars
        => [\A t \in Tids : tstate[t] = "ZOMBIE"
                              => tstate'[t] \in {"ZOMBIE", "UNUSED"}]_vars
  BY <1>1
<1> QED
  BY <1>2, InvariantHolds, PTL DEF Spec, ZombieIsFinal

\* A READY thread that a scheduling decision passes over comes nearer: the
\* thread that gets the CPU lies before it in the order of the search.
THEOREM NobodyStarves == Spec => RoundRobin
<1>1. ASSUME IInv, NEW t \in Tids, tstate[t] = "READY", tstate'[t] = "READY",
             TickIdle \/ TickSame \/ \E n \in Tids : TickSwitch(n)
      PROVE  Distance(t)' < Distance(t)
  <2>0. /\ KTHREAD_MAX \in Nat \ {0}
        /\ tstate \in [Tids -> ThreadStates] /\ current_tid \in Tids
        /\ Woken[t] = "READY" /\ t \in Runnable
    BY <1>1, SchedulerAssumption DEF IInv, TypeOK, Woken, Runnable
  <2>1. \A u \in Tids : Probes(u) = IF u > current_tid THEN u - current_tid - 1
                                    ELSE u + KTHREAD_MAX - current_tid - 1
    <3>1. TAKE u \in Tids
    <3> DEFINE a == u + KTHREAD_MAX - current_tid - 1
    <3>2. /\ a \in 0 .. 2 * KTHREAD_MAX - 1
          /\ (IF a < KTHREAD_MAX THEN a ELSE a - KTHREAD_MAX)
               = IF u > current_tid THEN u - current_tid - 1 ELSE a
      BY <2>0 DEF Tids
    <3>3. Probes(u) = a % KTHREAD_MAX
      BY DEF Probes
    <3> HIDE DEF a
    <3>4. a % KTHREAD_MAX = IF a < KTHREAD_MAX THEN a ELSE a - KTHREAD_MAX
      BY <2>0, <3>2, SmallRemainder
    <3> QED
      BY <3>2, <3>3, <3>4 DEF a
  <2>2. ASSUME NEW c \in Tids
        PROVE  (t + KTHREAD_MAX - c) % KTHREAD_MAX
                 = IF t >= c THEN t - c ELSE t + KTHREAD_MAX - c
    <3> DEFINE a == t + KTHREAD_MAX - c
    <3>1. /\ a \in 0 .. 2 * KTHREAD_MAX - 1
          /\ (IF a < KTHREAD_MAX THEN a ELSE a - KTHREAD_MAX)
               = IF t >= c THEN t - c ELSE a
      BY <2>0 DEF Tids
    <3> HIDE DEF a
    <3>2. a % KTHREAD_MAX = IF a < KTHREAD_MAX THEN a ELSE a - KTHREAD_MAX
      BY <2>0, <3>1, SmallRemainder
    <3> QED
      BY <3>1, <3>2 DEF a
  <2>3. ~TickIdle
    BY <2>0 DEF TickIdle
  <2>4. t # current_tid
    BY <1>1 DEF IInv, CurrentThread
  <2>5. CASE TickSame
    <3>1. Probes(current_tid) <= Probes(t)
      BY <2>0, <2>5 DEF TickSame, IsNext
    <3> QED
      BY <2>0, <2>1, <2>4, <3>1 DEF Tids
  <2>6. ASSUME NEW n \in Tids, TickSwitch(n) PROVE Distance(t)' < Distance(t)
    <3>1. n # t /\ n # current_tid /\ current_tid' = n /\ Probes(n) <= Probes(t)
      <4>1. [Woken EXCEPT ![current_tid] = Preempted, ![n] = "RUNNING"][n] = "RUNNING"
        BY <2>6 DEF Woken
      <4>2. tstate'[n] # "READY"
        BY <2>6, <4>1 DEF TickSwitch, cleanup_dead_threads
      <4> QED
        BY <1>1, <2>0, <2>6, <4>2 DEF TickSwitch, IsNext
    <3>2. /\ Distance(t) = IF t >= current_tid THEN t - current_tid
                           ELSE t + KTHREAD_MAX - current_tid
          /\ Distance(t)' = IF t >= n THEN t - n ELSE t + KTHREAD_MAX - n
      BY <2>0, <2>2, <3>1 DEF Distance
    <3>3. /\ Probes(n) = IF n > current_tid THEN n - current_tid - 1
                         ELSE n + KTHREAD_MAX - current_tid - 1
          /\ Probes(t) = IF t > current_tid THEN t - current_tid - 1
                         ELSE t + KTHREAD_MAX - current_tid - 1
      BY <2>1
    <3> QED
      BY <2>0, <2>4, <3>1, <3>2, <3>3 DEF Tids
  <2> QED
    BY <1>1, <2>3, <2>5, <2>6
<1>2. IInv /\ [Next]_vars
        => [TickIdle \/ TickSame \/ (\E n \in Tids : TickSwitch(n)) =>
              \A t \in Tids : tstate[t] = "READY" /\ tstate'[t] = "READY"
                                => Distance(t)' < Distance(t)]_vars
  BY <1>1
<1> QED
  BY <1>2, InvariantHolds, PTL DEF Spec, RoundRobin

-----------------------------------------------------------------------------
(***************************************************************************)
(* The scheduler implements StackLifecycle.                                *)
(***************************************************************************)

\* An entry of the pool is the current thread's exactly when the CPU is on
\* its stack.
LEMMA EntryOnCpu ==
  ASSUME IInv, NEW e \in cleanup_pool
  PROVE  e.tid = current_tid <=> e.stack = cpu_esp
<1>0. e.stack \in Stacks /\ BootStack \notin Stacks
  BY SchedulerAssumption DEF IInv, TypeOK, Entries
<1>1. CASE current_tid = 0 /\ cpu_esp = BootStack
  BY <1>0, <1>1 DEF IInv, PoolEntries
<1>2. CASE tstack[current_tid] # NULL /\ cpu_esp = tstack[current_tid]
  BY <1>2 DEF IInv, PoolEntries, StackOwnership, TypeOK
<1>3. CASE \E f \in cleanup_pool : f.tid = current_tid /\ f.stack = cpu_esp
  BY <1>3 DEF IInv, StackOwnership
<1> QED
  BY <1>1, <1>2, <1>3 DEF IInv, CpuOnCurrentStack

\* A scheduling decision is a Dispatch to the stack it leaves the CPU on.
LEMMA DecisionDispatches ==
  ASSUME IInv, NEW st, NEW saved, cleanup_dead_threads(st, saved),
         cpu_esp' \in {cpu_esp, BootStack} \cup ({tstack[t] : t \in Tids} \ {NULL})
  PROVE  Lifecycle!Next
<1>1. Status' = [s \in Stacks |->
                   IF Status[s] = "condemned" /\ s # cpu_esp THEN "free" ELSE Status[s]]
  <2> SUFFICES ASSUME NEW s \in Stacks
               PROVE  Status'[s] = IF Status[s] = "condemned" /\ s # cpu_esp
                                   THEN "free" ELSE Status[s]
    BY DEF Status
  <2>1. CASE s \notin heap
    BY <2>1 DEF Status, cleanup_dead_threads
  <2>2. CASE s \in heap /\ \A e \in cleanup_pool : e.stack # s
    BY <2>2 DEF Status, cleanup_dead_threads
  <2>3. ASSUME s \in heap, NEW e \in cleanup_pool, e.stack = s
        PROVE  Status'[s] = IF Status[s] = "condemned" /\ s # cpu_esp
                            THEN "free" ELSE Status[s]
    <3>1. Status[s] = "condemned"
      BY <2>3 DEF Status
    <3>2. CASE e.tid = current_tid
      <4>1. s = cpu_esp /\ s \in heap' /\ e \in cleanup_pool'
        BY <2>3, <3>2, EntryOnCpu DEF cleanup_dead_threads, IInv, StackOwnership
      <4> QED
        BY <2>3, <3>1, <4>1 DEF Status
    <3>3. CASE e.tid # current_tid
      <4>1. s # cpu_esp /\ s \notin heap'
        BY <2>3, <3>3, EntryOnCpu DEF cleanup_dead_threads
      <4> QED
        BY <3>1, <4>1 DEF Status
    <3> QED
      BY <3>2, <3>3
  <2> QED
    BY <2>1, <2>2, <2>3
<1>2. cpu_esp' \in Stacks \cup {BootStack}
  BY DEF IInv, TypeOK
<1>3. cpu_esp' \in {cpu_esp, BootStack} \cup {s \in Stacks : Status[s] = "live"}
  <2>1. ASSUME NEW t \in Tids, tstack[t] # NULL
        PROVE  tstack[t] \in Stacks /\ Status[tstack[t]] = "live"
    BY <2>1 DEF IInv, TypeOK, StackOwnership, Status
  <2> QED
    BY <2>1
<1>4. Lifecycle!Dispatch(cpu_esp')
  BY <1>1, <1>3 DEF Lifecycle!Dispatch
<1> QED
  BY <1>2, <1>4 DEF Lifecycle!Next

\* Ending threads condemns the stacks that enter the pool.
LEMMA ExitCondemns ==
  ASSUME IInv, NEW ids, NEW victims \in SUBSET Tids, Terminate(ids, victims),
         UNCHANGED <<heap, cpu_esp>>
  PROVE  Lifecycle!Next
<1> DEFINE S == {tstack[t] : t \in Queued(ids, victims)}
<1>1. \A t \in Queued(ids, victims) : t \in Tids /\ tstack[t] # NULL
  BY DEF Queued
<1>2. /\ S \in SUBSET Stacks
      /\ \A s \in S : s \in heap /\ \A e \in cleanup_pool : e.stack # s
  BY <1>1 DEF IInv, TypeOK, StackOwnership
<1>3. \A s \in S : Status[s] = "live"
  BY <1>2 DEF Status
<1>4. \A s \in Stacks : (\E e \in cleanup_pool' : e.stack = s)
                         <=> s \in S \/ \E e \in cleanup_pool : e.stack = s
  <2> DEFINE new == {[stack |-> tstack[t], tid |-> t] : t \in Queued(ids, victims)}
  <2>1. cleanup_pool' = cleanup_pool \cup new
    BY DEF Terminate
  <2>2. \A s : (\E e \in new : e.stack = s) <=> s \in S
    <3>1. \A t \in Queued(ids, victims) :
            [stack |-> tstack[t], tid |-> t] \in new
            /\ [stack |-> tstack[t], tid |-> t].stack = tstack[t]
      OBVIOUS
    <3>2. \A e \in new : \E t \in Queued(ids, victims) : e.stack = tstack[t]
      OBVIOUS
    <3> QED
      BY <3>1, <3>2
  <2> HIDE DEF new, S
  <2> QED
    BY <2>1, <2>2
<1>5. Status' = [s \in Stacks |-> IF s \in S THEN "condemned" ELSE Status[s]]
  BY <1>2, <1>4 DEF Status
<1>6. Lifecycle!Condemn(S)
  BY <1>3, <1>5 DEF Lifecycle!Condemn
<1> QED
  BY <1>2, <1>6 DEF Lifecycle!Next

\* The scheduler keeps the promise of the cleanup pool: every step is a step
\* of StackLifecycle or leaves the stacks alone.
THEOREM LifecycleImplemented == Spec => ImplementsLifecycle
<1>1. Init => Lifecycle!Init
  BY DEF Init, Lifecycle!Init, Status
<1>2. IInv /\ [Next]_vars => [Lifecycle!Next]_<<Status, cpu_esp>>
  <2> SUFFICES ASSUME IInv, [Next]_vars
               PROVE  Lifecycle!Next \/ UNCHANGED <<Status, cpu_esp>>
    OBVIOUS
  <2> USE DEF tables, procs, current, clock, cpu
  <2>1. ASSUME NEW t \in Tids, NEW p \in Pids, NEW s \in Stacks, StartThread(t, p, s)
        PROVE  Lifecycle!Next
    <3>1. s \notin heap /\ \A e \in cleanup_pool : e.stack # s
      BY <2>1 DEF StartThread, IInv, StackOwnership
    <3>2. Status[s] = "free" /\ Status' = [Status EXCEPT ![s] = "live"]
      BY <2>1, <3>1 DEF StartThread, Status
    <3> QED
      BY <2>1, <3>2 DEF Lifecycle!Next, Lifecycle!Create, StartThread
  <2>2. ASSUME NEW t \in Tids, NEW s \in Stacks, kcreate_thread(t, s)
        PROVE  Lifecycle!Next
    BY <2>1, <2>2 DEF kcreate_thread, IInv, TypeOK
  <2>3. ASSUME NEW p \in Pids, NEW t \in Tids, NEW s \in Stacks, kcreate_process(p, t, s)
        PROVE  Lifecycle!Next
    BY <2>1, <2>3 DEF kcreate_process
  <2>4. CASE kthread_exit
    <3>1. {current_tid} \in SUBSET Tids
      BY DEF IInv, TypeOK
    <3> QED
      BY <2>4, <3>1, ExitCondemns DEF kthread_exit
  <2>5. CASE kprocess_exit
    <3>1. Listed(current_pid) \in SUBSET Tids
      BY DEF Listed
    <3> QED
      BY <2>5, <3>1, ExitCondemns DEF kprocess_exit
  <2>6. ASSUME UNCHANGED <<heap, cleanup_pool, cpu_esp>> PROVE UNCHANGED <<Status, cpu_esp>>
    BY <2>6 DEF Status
  <2>7. ASSUME NEW x \in Pids \cup Dirs \cup {BootDir} \cup (1 .. MaxSleep),
               \/ kcreate_process_fail(x) \/ kthread_sleep(x) \/ kthread_set_cr3(x)
               \/ vmm_switch_page_dir_ptr(x) \/ vmm_switch_page_dir_cr3(x)
        PROVE  UNCHANGED <<Status, cpu_esp>>
    BY <2>6, <2>7 DEF kcreate_process_fail, kthread_sleep, kthread_set_cr3,
       vmm_switch_page_dir_ptr, vmm_switch_page_dir_cr3
  <2>8. CASE TickOnly \/ UNCHANGED vars
    BY <2>6, <2>8 DEF TickOnly, vars
  <2>9. CASE TickIdle
    BY <2>9, DecisionDispatches DEF TickIdle
  <2>10. CASE TickSame
    BY <2>10, DecisionDispatches DEF TickSame
  <2>11. ASSUME NEW n \in Tids, TickSwitch(n) PROVE Lifecycle!Next
    <3>1. cpu_esp' \in {cpu_esp, BootStack} \cup ({tstack[t] : t \in Tids} \ {NULL})
      BY <2>11, SwitchTarget, SchedulerAssumption
    <3> QED
      BY <2>11, <3>1, DecisionDispatches DEF TickSwitch
  <2> QED
    BY <2>2, <2>3, <2>4, <2>5, <2>7, <2>8, <2>9, <2>10, <2>11
    DEF Next, Calls, scheduler_tick
<1> QED
  BY <1>1, <1>2, InvariantHolds, PTL DEF Spec, ImplementsLifecycle, Lifecycle!Spec

-----------------------------------------------------------------------------
(***************************************************************************)
(* SleepTimer: how early and how late kthread_sleep returns, for every     *)
(* number of threads, scheduling interval and width of tick.               *)
(***************************************************************************)

\* The sleeps considered end at least one scheduling interval before tick
\* overflows.  tick has 32 bits and counts milliseconds, so this leaves out
\* the calls made within one interval and their own length of every 49th day.
DeadlinesKeepClear == LastDeadline + SCHED_INTERVAL <= TICK_MOD

\* While a thread sleeps, the ticks it has left are its deadline less the
\* tick counter, without wrap-around, and it is overdue by fewer ticks than
\* have passed since the last scheduling decision.
SleepersOnTime ==
  /\ left \in [Tids -> Int]
  /\ \A t \in Tids : tstate[t] = "SLEEPING" =>
       /\ tsleep[t] <= LastDeadline
       /\ left[t] = tsleep[t] - tick
       /\ 1 - sched_counter <= left[t]

SleepIInv == IInv /\ SleepersOnTime

-----------------------------------------------------------------------------
\* Every step of SleepTimer is a step of the scheduler.
LEMMA SleepStepsSchedule == [SleepNext]_sleepVars => [Next]_vars
  BY DEF SleepNext, sleepVars, StartSleep, TimerInterrupt, OtherCall, Next, Calls

\* Calls other than kthread_sleep put no thread to sleep and leave clock,
\* deadlines of sleepers and history alone.
LEMMA OtherCallKeeps ==
  ASSUME SleepIInv, OtherCall
  PROVE  SleepersOnTime'
<1> USE DEF tables, procs, current, clock, cpu
<1>1. /\ UNCHANGED <<sched_counter, tick, left>>
      /\ \A t \in Tids : tstate'[t] = "SLEEPING" => tstate[t] = "SLEEPING" /\ tsleep'[t] = tsleep[t]
  <2> SUFFICES ASSUME NEW t \in Tids
               PROVE  /\ UNCHANGED <<sched_counter, tick, left>>
                      /\ tstate'[t] = "SLEEPING" => tstate[t] = "SLEEPING" /\ tsleep'[t] = tsleep[t]
    BY SchedulerAssumption DEF Tids
  <2> TypeOK
    BY DEF SleepIInv, IInv
  <2>1. ASSUME NEW u \in Tids, NEW s \in Stacks, NEW p \in Pids, StartThread(u, p, s)
        PROVE  /\ UNCHANGED <<sched_counter, tick>>
               /\ tstate'[t] = "SLEEPING" => tstate[t] = "SLEEPING" /\ tsleep'[t] = tsleep[t]
    BY <2>1 DEF StartThread, TypeOK
  <2>2. CASE \E u \in Tids, s \in Stacks : kcreate_thread(u, s)
    BY <2>1, <2>2 DEF kcreate_thread, TypeOK, OtherCall
  <2>3. CASE \E p \in Pids, u \in Tids, s \in Stacks : kcreate_process(p, u, s)
    BY <2>1, <2>3 DEF kcreate_process, OtherCall
  <2>4. CASE \E p \in Pids : kcreate_process_fail(p)
    BY <2>4 DEF kcreate_process_fail, OtherCall
  <2>5. CASE kthread_exit
    BY <2>5 DEF kthread_exit, Terminate, OtherCall
  <2>6. CASE kprocess_exit
    BY <2>6 DEF kprocess_exit, Terminate, OtherCall
  <2> QED
    BY <2>2, <2>3, <2>4, <2>5, <2>6 DEF OtherCall
<1> QED
  BY <1>1 DEF SleepIInv, SleepersOnTime

\* kthread_sleep sets a deadline that the counter reaches without wrapping.
LEMMA StartSleepKeeps ==
  ASSUME DeadlinesKeepClear, SleepIInv, StartSleep
  PROVE  SleepersOnTime'
<1> USE DEF tables, procs, current, clock, cpu
<1>1. PICK ms \in 1 .. MaxSleep :
        /\ tick + ms <= LastDeadline
        /\ kthread_sleep(ms)
        /\ left' = [left EXCEPT ![current_tid] = ms]
  BY DEF StartSleep
<1>2. ms \in Nat /\ ms >= 1 /\ tick \in Nat /\ sched_counter \in Nat /\ current_tid \in Tids
  BY SchedulerAssumption DEF SleepIInv, IInv, TypeOK
<1>3. (tick + ms) % TICK_MOD = tick + ms
  <2>1. tick + ms \in 0 .. TICK_MOD - 1
    BY <1>1, <1>2, SchedulerAssumption, SleepTimerAssumption DEF DeadlinesKeepClear
  <2>2. /\ TICK_MOD \in Nat \ {0} /\ tick + ms \in 0 .. 2 * TICK_MOD - 1
        /\ tick + ms < TICK_MOD
    BY <1>2, <2>1, SchedulerAssumption
  <2> QED
    BY <2>2, SmallRemainder
<1>4. left' \in [Tids -> Int]
  BY <1>1, <1>2 DEF SleepIInv, SleepersOnTime
<1>5. ASSUME NEW t \in Tids, tstate'[t] = "SLEEPING"
      PROVE  /\ tsleep'[t] <= LastDeadline
             /\ left'[t] = tsleep'[t] - tick'
             /\ 1 - sched_counter' <= left'[t]
  <2>1. UNCHANGED <<tick, sched_counter>>
    BY <1>1 DEF kthread_sleep
  <2>2. CASE t = current_tid
    <3>1. tsleep'[t] = tick + ms /\ left'[t] = ms
      BY <1>1, <1>3, <2>2 DEF kthread_sleep, SleepIInv, IInv, TypeOK, SleepersOnTime
    <3> QED
      BY <1>1, <1>2, <2>1, <3>1
  <2>3. CASE t # current_tid
    <3>1. tsleep'[t] = tsleep[t] /\ left'[t] = left[t] /\ tstate[t] = "SLEEPING"
      BY <1>1, <1>5, <2>3 DEF kthread_sleep, SleepIInv, IInv, TypeOK, SleepersOnTime
    <3> QED
      BY <2>1, <3>1 DEF SleepIInv, SleepersOnTime
  <2> QED
    BY <2>2, <2>3
<1> QED
  BY <1>4, <1>5 DEF SleepersOnTime

\* At a scheduling decision every sleeper whose deadline has come is woken.
LEMMA TickKeeps ==
  ASSUME DeadlinesKeepClear, SleepIInv, TimerInterrupt
  PROVE  /\ SleepersOnTime'
         /\ \A t \in Tids : tstate[t] = "SLEEPING" /\ tstate'[t] \in {"READY", "RUNNING"}
                             => left'[t] <= 0
<1> USE DEF tables, procs, current, clock, cpu
<1>1. /\ tick \in 0 .. TICK_MOD - 1 /\ sched_counter \in 0 .. SCHED_INTERVAL - 1
      /\ TICK_MOD \in Nat \ {0} /\ SCHED_INTERVAL \in Nat \ {0} /\ current_tid \in Tids
      /\ tsleep \in [Tids -> 0 .. TICK_MOD - 1]
      /\ tstate \in [Tids -> ThreadStates] /\ LastDeadline \in Nat
  BY SchedulerAssumption, SleepTimerAssumption DEF SleepIInv, IInv, TypeOK
<1>2. tick' = Now /\ Now = IF tick + 1 < TICK_MOD THEN tick + 1 ELSE 0
  <2> DEFINE a == tick + 1
  <2>1. TICK_MOD \in Nat \ {0} /\ a \in 0 .. 2 * TICK_MOD - 1
    BY <1>1
  <2> HIDE DEF a
  <2>3. a % TICK_MOD = IF a < TICK_MOD THEN a ELSE a - TICK_MOD
    BY <2>1, SmallRemainder
  <2> USE DEF a
  <2>2. Now = IF tick + 1 < TICK_MOD THEN tick + 1 ELSE tick + 1 - TICK_MOD
    BY <1>1, <2>3 DEF Now
  <2>4. Now = IF tick + 1 < TICK_MOD THEN tick + 1 ELSE 0
    BY <1>1, <2>2
  <2> QED
    BY <2>4
    DEF TimerInterrupt, scheduler_tick, TickOnly, TickIdle, TickSame, TickSwitch, Reschedule
<1>3. left' \in [Tids -> Int]
  BY <1>1 DEF TimerInterrupt, Floor, SleepIInv, SleepersOnTime
\* One tick of a sleeper: the counter does not wrap and left follows it.
<1>4. ASSUME NEW t \in Tids, tstate[t] = "SLEEPING"
      PROVE  /\ tsleep[t] \in Nat /\ tsleep[t] <= LastDeadline /\ left[t] \in Int
             /\ left'[t] = tsleep[t] - Now /\ Now = tick + 1
             /\ 1 - (sched_counter + 1) <= left'[t]
  <2>1. /\ tsleep[t] <= LastDeadline /\ left[t] = tsleep[t] - tick
        /\ 1 - sched_counter <= left[t] /\ left[t] \in Int
    BY <1>4 DEF SleepIInv, SleepersOnTime
  <2>2. left[t] > Floor
    BY <1>1, <2>1 DEF Floor
  <2>3. left'[t] = left[t] - 1
    BY <1>4, <2>2 DEF TimerInterrupt
  <2>4. Now = tick + 1
    BY <1>1, <1>2, <2>1 DEF DeadlinesKeepClear
  <2> QED
    BY <1>1, <2>1, <2>3, <2>4
<1>5. CASE TickOnly
  <2>1. sched_counter' = sched_counter + 1 /\ UNCHANGED <<tstate, tsleep>>
    BY <1>5 DEF TickOnly
  <2> QED
    BY <1>1, <1>2, <1>3, <1>4, <2>1 DEF SleepersOnTime
<1>6. CASE TickIdle \/ TickSame \/ \E n \in Tids : TickSwitch(n)
  <2>1. sched_counter' = 0 /\ tsleep' = tsleep
    BY <1>6 DEF TickIdle, TickSame, TickSwitch, Reschedule
  <2>5. ASSUME NEW st \in [Tids -> ThreadStates], cleanup_dead_threads(st, SavedEsp), NEW t \in Tids
        PROVE  tstate'[t] \in {st[t], "UNUSED"}
    BY <2>5 DEF cleanup_dead_threads
\* A scheduling decision puts no thread to sleep, and wakes no other.
  <2>6. ASSUME NEW t \in Tids
        PROVE  /\ tstate'[t] = "SLEEPING" => Woken[t] = "SLEEPING"
               /\ Woken[t] = "SLEEPING" => tstate'[t] \in {"SLEEPING", "UNUSED"}
    <3>1. /\ Woken \in [Tids -> ThreadStates] /\ Preempted \in ThreadStates
          /\ Preempted = "SLEEPING" <=> Woken[current_tid] = "SLEEPING"
      BY WokenType DEF Preempted, SleepIInv, IInv
    <3>2. CASE TickIdle
      BY <2>5, <3>1, <3>2 DEF TickIdle
    <3>3. CASE TickSame
      <4>1. Woken[current_tid] # "SLEEPING"
        BY <3>3 DEF TickSame, IsNext, Runnable
      <4>2. [Woken EXCEPT ![current_tid] = "RUNNING"] \in [Tids -> ThreadStates]
        BY <3>1 DEF ThreadStates
      <4> QED
        BY <1>1, <2>5, <3>1, <3>3, <4>1, <4>2 DEF TickSame
    <3>4. ASSUME NEW n \in Tids, TickSwitch(n)
          PROVE  /\ tstate'[t] = "SLEEPING" => Woken[t] = "SLEEPING"
                 /\ Woken[t] = "SLEEPING" => tstate'[t] \in {"SLEEPING", "UNUSED"}
      <4>1. Woken[n] # "SLEEPING" /\ n # current_tid
        BY <3>4 DEF TickSwitch, IsNext, Runnable
      <4>2. [Woken EXCEPT ![current_tid] = Preempted, ![n] = "RUNNING"] \in [Tids -> ThreadStates]
        BY <3>1 DEF ThreadStates
      <4>3. Woken[t] = "SLEEPING" /\ t = current_tid => Preempted = "SLEEPING"
        BY DEF Preempted
      <4> QED
        BY <1>1, <2>5, <3>1, <3>4, <4>1, <4>2, <4>3 DEF TickSwitch
    <3> QED
      BY <1>6, <3>2, <3>3, <3>4
  <2>2. ASSUME NEW t \in Tids, tstate'[t] = "SLEEPING"
        PROVE  tstate[t] = "SLEEPING" /\ ~(Now >= tsleep[t])
    BY <2>2, <2>6 DEF Woken
  <2>3. ASSUME NEW t \in Tids, tstate[t] = "SLEEPING", tstate'[t] \in {"READY", "RUNNING"}
        PROVE  Now >= tsleep[t]
    <3>1. SUFFICES ASSUME ~(Now >= tsleep[t]) PROVE FALSE
      OBVIOUS
    <3>2. Woken[t] = "SLEEPING"
      BY <2>3, <3>1 DEF Woken
    <3> QED
      BY <2>3, <2>6, <3>2
  <2>4. SleepersOnTime'
    <3> SUFFICES ASSUME NEW t \in Tids, tstate'[t] = "SLEEPING"
                 PROVE  /\ tsleep'[t] <= LastDeadline
                        /\ left'[t] = tsleep'[t] - tick'
                        /\ 1 - sched_counter' <= left'[t]
      BY <1>3 DEF SleepersOnTime
    <3> QED
      BY <1>1, <1>2, <1>4, <2>1, <2>2
  <2> QED
    BY <1>1, <1>4, <2>3, <2>4
<1> QED
  BY <1>5, <1>6 DEF TimerInterrupt, scheduler_tick

-----------------------------------------------------------------------------
\* The invariant of the clock and the sleepers.
LEMMA SleepInitInv == SleepInit => SleepIInv
  BY InitInv DEF SleepInit, SleepIInv, SleepersOnTime, Init

LEMMA SleepNextInv ==
  ASSUME DeadlinesKeepClear
  PROVE  SleepIInv /\ [SleepNext]_sleepVars => SleepIInv'
<1> SUFFICES ASSUME SleepIInv, [SleepNext]_sleepVars PROVE SleepIInv'
  OBVIOUS
<1>1. IInv'
  BY SleepStepsSchedule, NextInv DEF SleepIInv
<1>2. CASE UNCHANGED sleepVars
  BY <1>1, <1>2 DEF sleepVars, vars, tables, clock, SleepIInv, SleepersOnTime
<1> QED
  BY <1>1, <1>2, StartSleepKeeps, TickKeeps, OtherCallKeeps DEF SleepNext, SleepIInv

THEOREM SleepInvariant ==
  ASSUME DeadlinesKeepClear
  PROVE  SleepSpec => []SleepIInv
  BY SleepInitInv, SleepNextInv, PTL DEF SleepSpec

\* A sleeper is READY less than one scheduling interval after its deadline:
\* scheduler_tick misses nobody and the comparison with the counter is right.
THEOREM WakesPromptly ==
  ASSUME DeadlinesKeepClear
  PROVE  SleepSpec => []PromptWake
<1>1. SleepIInv => PromptWake
  BY SchedulerAssumption
  DEF SleepIInv, IInv, TypeOK, SleepersOnTime, PromptWake, Floor
<1> QED
  BY <1>1, SleepInvariant, PTL

\* kthread_sleep(ms) returns only when ms timer interrupts have come.
THEOREM NeverWakesEarly ==
  ASSUME DeadlinesKeepClear
  PROVE  SleepSpec => NoEarlyWake
<1>1. ASSUME SleepIInv, SleepNext,
             NEW t \in Tids, tstate[t] = "SLEEPING", tstate'[t] \in {"READY", "RUNNING"}
      PROVE  left'[t] <= 0
  <2>1. CASE TimerInterrupt
    BY <1>1, <2>1, TickKeeps
  <2>2. CASE StartSleep
    BY <1>1, <2>2 DEF StartSleep, kthread_sleep, CanCall, SleepIInv, IInv, TypeOK
  <2>3. CASE OtherCall
    <3>1. \A u \in Tids, s \in Stacks, p \in Pids :
            alloc_thread_slot(u) /\ StartThread(u, p, s) => tstate'[t] = tstate[t]
      BY <1>1 DEF alloc_thread_slot, StartThread, SleepIInv, IInv, TypeOK
    <3>2. current_pid \in Pids
      BY <1>1 DEF SleepIInv, IInv, TypeOK
    <3> QED
      BY <1>1, <2>3, <3>1, <3>2
      DEF OtherCall, kcreate_thread, kcreate_process, kcreate_process_fail, kthread_exit,
          kprocess_exit, Terminate, tables
  <2> QED
    BY <1>1, <2>1, <2>2, <2>3 DEF SleepNext
<1>2. SleepIInv /\ [SleepNext]_sleepVars =>
        [\A t \in Tids : tstate[t] = "SLEEPING" /\ tstate'[t] \in {"READY", "RUNNING"}
           => left'[t] <= 0]_sleepVars
  BY <1>1
<1> QED
  BY <1>2, SleepInvariant, PTL DEF SleepSpec, NoEarlyWake

-----------------------------------------------------------------------------
(***************************************************************************)
(* Exec.                                                                   *)
(***************************************************************************)
InChain(n, ch, t) == \E i \in 1 .. n : ch[i] = t

\* The programs that live form a chain: the shell, the program it executes, the
\* program that one executes, and so on up to ch[n].
ChainMembers(n, ch) ==
  /\ ch \in [1 .. n -> Tids \ {0}]
  /\ \A i, j \in 1 .. n : ch[i] = ch[j] => i = j
  /\ \A t \in Tids \ {0} : Alive(t) <=> InChain(n, ch, t)

\* Every program of the chain but the last is inside sys_exec, between the
\* creation of the next one and its end.
ChainWaits(n, ch) ==
  \A i \in 1 .. n - 1 :
    /\ prog[ch[i]].pc \in {"tid", "wait"}
    /\ prog[ch[i]].child_pid = tpid[ch[i + 1]]
    /\ prog[ch[i]].pc = "wait" => prog[ch[i]].child_tid = ch[i + 1]

\* The shell belongs to process 0 with kmain's thread, every other program is
\* the only thread of a process of its own.
ChainProcesses(n, ch) ==
  /\ n > 0 => /\ tpid[ch[1]] = 0
              /\ prog[ch[1]].pc # "dead" => pstate[0] = "RUNNING"
              /\ \A i \in DOMAIN pthreads[0] : pthreads[0][i] \in {0, ch[1]}
  /\ \A i \in 2 .. n : /\ tpid[ch[i]] # 0
                       /\ pstate[tpid[ch[i]]] = "RUNNING"
                       /\ pthreads[tpid[ch[i]]] = <<ch[i]>>

\* What a program is told to execute is what its parent holds.
ChainHandsDown(n, ch) ==
  /\ n > 0 => prog[ch[1]].image = NULL /\ prog[ch[1]].pc \notin {"entry", "release"}
  /\ \A i \in 2 .. n :
       /\ prog[ch[i]].wanted = prog[ch[i - 1]].kargs
       /\ prog[ch[i]].image \in {NULL, prog[ch[i]].wanted}
       /\ prog[ch[i]].pc = "entry" => staging = prog[ch[i]].wanted

\* The program points between sys_exec_copy and FreeArgsAndReturn.
InExec == {"lock", "take", "stage", "create", "tid", "wait"}

\* The copies of path and arguments belong to one call each.
ChainArgs(n, ch) ==
  /\ \A i \in 1 .. n : IF prog[ch[i]].pc \in InExec THEN prog[ch[i]].kargs \in args
                                                    ELSE prog[ch[i]].kargs = NULL
  /\ \A i, j \in 1 .. n : prog[ch[i]].kargs = prog[ch[j]].kargs /\ prog[ch[i]].kargs # NULL => i = j

\* What a program does next: its thread is listed by the process whose thread
\* it is about to look up, and the directory it is about to switch to is its own.
ChainSteps(n, ch) ==
  \A i \in 1 .. n :
    /\ prog[ch[i]].pc = "tid" => Len(pthreads[prog[ch[i]].child_pid]) > 0
    /\ prog[ch[i]].pc \in {"switch", "cr3", "register"} => prog[ch[i]].user_pd \in Dirs
    /\ prog[ch[i]].pc = "create" => staging = prog[ch[i]].kargs

IsChain(n, ch) ==
  /\ ChainMembers(n, ch)
  /\ ChainWaits(n, ch)
  /\ ChainProcesses(n, ch)
  /\ ChainHandsDown(n, ch)
  /\ ChainArgs(n, ch)
  /\ ChainSteps(n, ch)

ChainExists == \E n \in Nat : \E ch \in [1 .. n -> Tids \ {0}] : IsChain(n, ch)

\* kmain's thread starts the shell once, in process 0, before there is any
\* other thread; the current thread's process is the current process.
Booting ==
  /\ prog[0].pc \in {"boot", "idle"} /\ prog[0].image = NULL
  /\ \A t \in Tids \ {0} : prog[t].pc \notin {"boot", "idle"}
  /\ prog[0].pc = "boot" => /\ current_tid = 0 /\ current_pid = 0
                            /\ pthreads[0] = <<0>> /\ pstate[0] = "RUNNING"
                            /\ \A t \in Tids \ {0} : ~Alive(t)
  /\ current_tid # 0 => current_pid = tpid[current_tid]

\* The inductive invariant of sys_exec.
ExecIInv ==
  /\ IInv
  /\ ExecTypeOK
  /\ Booting
  /\ ChainExists

-----------------------------------------------------------------------------
(***************************************************************************)
(* Where the current thread is in the chain.                               *)
(***************************************************************************)

\* The types that the proofs below keep citing.
LEMMA ExecTypes ==
  ASSUME ExecIInv
  PROVE  /\ IInv /\ TypeOK /\ ExecTypeOK /\ 0 \in Pids /\ 0 \in Tids
         /\ prog \in [Tids -> Locals] /\ tpid \in [Tids -> Pids]
         /\ tstate \in [Tids -> ThreadStates]
         /\ current_tid \in Tids /\ current_pid \in Pids
         /\ pthreads \in [Pids -> Seq(Tids)] /\ pstate \in [Pids -> {"UNUSED", "RUNNING"}]
<1>1. IInv /\ TypeOK /\ ExecTypeOK
  BY DEF ExecIInv, IInv
<1>2. 0 \in Pids /\ 0 \in Tids
  BY SchedulerAssumption DEF Pids, Tids
<1> QED
  BY <1>1, <1>2 DEF TypeOK, ExecTypeOK

\* A thread that executes at a point of a program is in the chain, and it is
\* the last one unless it has created another program.
LEMMA CallerInChain ==
  ASSUME ExecIInv, NEW pc \in Points \ {"boot", "idle"}, At(pc),
         NEW n \in Nat, NEW ch \in [1 .. n -> Tids \ {0}], IsChain(n, ch)
  PROVE  /\ me \in Tids \ {0} /\ prog[me] \in Locals
         /\ \E i \in 1 .. n : ch[i] = me
         /\ pc \notin {"tid", "wait"} => n > 0 /\ me = ch[n]
<1>1. me \in Tids /\ prog[me] \in Locals
  BY DEF me, ExecIInv, IInv, TypeOK, ExecTypeOK
<1>2. me # 0
  BY DEF At, ExecIInv, Booting
<1>3. Alive(me)
  BY DEF At, CanCall, Alive, me
<1>4. PICK i \in 1 .. n : ch[i] = me
  BY <1>1, <1>2, <1>3 DEF IsChain, ChainMembers, InChain
<1>5. pc \notin {"tid", "wait"} => i = n
  BY <1>4 DEF IsChain, ChainWaits, At
<1> QED
  BY <1>1, <1>2, <1>4, <1>5

\* The last program of the chain goes on to the state r; nobody else's
\* thread or process changes.
LEMMA LastMoves ==
  ASSUME ExecIInv,
         NEW n \in Nat, n > 0, NEW ch \in [1 .. n -> Tids \ {0}], IsChain(n, ch),
         NEW r \in Locals,
         prog' = [prog EXCEPT ![ch[n]] = r],
         \A t \in Tids \ {0} : Alive(t)' <=> Alive(t),
         UNCHANGED <<tpid, pstate>>,
         \A p \in Pids : pstate[p] = "RUNNING" => pthreads'[p] = pthreads[p],
         prog[ch[n]].pc # "dead",
         r.pc \notin {"entry", "tid"},
         n = 1 => r.image = NULL /\ r.pc # "release",
         r.wanted = prog[ch[n]].wanted,
         r.image \in {NULL, r.wanted},
         r.pc \in InExec => r.kargs \in args',
         r.pc \notin InExec => r.kargs = NULL,
         \A i \in 1 .. n - 1 : prog[ch[i]].kargs \in args' /\ prog[ch[i]].kargs # r.kargs,
         r.pc \in {"switch", "cr3", "register"} => r.user_pd \in Dirs,
         r.pc = "create" => staging' = r.kargs
  PROVE  IsChain(n, ch)'
<1>0. prog \in [Tids -> Locals] /\ tpid \in [Tids -> Pids] /\ 0 \in Pids
  BY ExecTypes
<1>1. /\ prog'[ch[n]] = r
      /\ \A i \in 1 .. n - 1 : ch[i] # ch[n] /\ prog'[ch[i]] = prog[ch[i]]
      /\ \A i \in 1 .. n : ch[i] \in Tids
  BY <1>0 DEF IsChain, ChainMembers
<1>2. \A i \in 1 .. n - 1 : prog[ch[i]].pc \in {"tid", "wait"}
  BY DEF IsChain, ChainWaits
<1>3. ChainMembers(n, ch)'
  BY DEF IsChain, ChainMembers, InChain
<1>4. ChainWaits(n, ch)'
  BY <1>1 DEF IsChain, ChainWaits
<1>5. ChainProcesses(n, ch)'
  <2>1. n > 1 \/ n = 1
    OBVIOUS
  <2>2. pstate[0] = "RUNNING"
    BY <1>2, <2>1 DEF IsChain, ChainProcesses
  <2>3. /\ tpid[ch[1]] = 0 /\ pthreads'[0] = pthreads[0]
        /\ \A i \in DOMAIN pthreads[0] : pthreads[0][i] \in {0, ch[1]}
    BY <1>0, <2>2 DEF IsChain, ChainProcesses
  <2>4. ASSUME NEW i \in 2 .. n
        PROVE  /\ tpid'[ch[i]] # 0
               /\ pstate'[tpid'[ch[i]]] = "RUNNING"
               /\ pthreads'[tpid'[ch[i]]] = <<ch[i]>>
    <3>1. tpid[ch[i]] # 0 /\ pstate[tpid[ch[i]]] = "RUNNING" /\ pthreads[tpid[ch[i]]] = <<ch[i]>>
      BY DEF IsChain, ChainProcesses
    <3>2. tpid[ch[i]] \in Pids
      BY <1>0, <1>1
    <3> QED
      BY <3>1, <3>2
  <2> QED
    BY <2>2, <2>3, <2>4 DEF ChainProcesses
<1>6. ChainHandsDown(n, ch)'
  <2>1. n > 0 => prog'[ch[1]].image = NULL /\ prog'[ch[1]].pc \notin {"entry", "release"}
    <3>1. CASE n = 1
      BY <1>1, <3>1
    <3>2. CASE n > 1
      BY <1>1, <1>2, <3>2 DEF IsChain, ChainHandsDown
    <3> QED
      BY <3>1, <3>2
  <2>2. ASSUME NEW i \in 2 .. n
        PROVE  /\ prog'[ch[i]].wanted = prog'[ch[i - 1]].kargs
               /\ prog'[ch[i]].image \in {NULL, prog'[ch[i]].wanted}
               /\ prog'[ch[i]].pc # "entry"
    <3>1. /\ i - 1 \in 1 .. n - 1
          /\ prog[ch[i]].wanted = prog[ch[i - 1]].kargs
          /\ prog[ch[i]].image \in {NULL, prog[ch[i]].wanted}
      BY DEF IsChain, ChainHandsDown
    <3>2. CASE i = n
      BY <1>1, <3>1, <3>2
    <3>3. CASE i # n
      <4>1. i \in 1 .. n - 1
        BY <3>3
      <4> QED
        BY <1>1, <1>2, <3>1, <4>1
    <3> QED
      BY <3>2, <3>3
  <2> QED
    BY <2>1, <2>2 DEF ChainHandsDown
<1>7. ChainArgs(n, ch)'
  <2>1. \A i \in 1 .. n - 1 : prog[ch[i]].pc \in InExec /\ prog[ch[i]].kargs \in args'
    BY <1>2 DEF InExec
  <2>2. \A i \in 1 .. n : i = n \/ i \in 1 .. n - 1
    OBVIOUS
  <2>3. \A i \in 1 .. n : IF prog'[ch[i]].pc \in InExec THEN prog'[ch[i]].kargs \in args'
                                                       ELSE prog'[ch[i]].kargs = NULL
    BY <1>1, <2>1, <2>2
  <2>4. ASSUME NEW i \in 1 .. n, NEW j \in 1 .. n,
               prog'[ch[i]].kargs = prog'[ch[j]].kargs, prog'[ch[i]].kargs # NULL
        PROVE  i = j
    <3>1. CASE i \in 1 .. n - 1 /\ j \in 1 .. n - 1
      BY <1>1, <2>4, <3>1 DEF IsChain, ChainArgs
    <3> QED
      BY <1>1, <2>2, <2>4, <3>1
  <2> QED
    BY <2>3, <2>4 DEF ChainArgs
<1>8. ChainSteps(n, ch)'
  <2> SUFFICES ASSUME NEW i \in 1 .. n
               PROVE  /\ prog'[ch[i]].pc = "tid" => Len(pthreads'[prog'[ch[i]].child_pid]) > 0
                      /\ prog'[ch[i]].pc \in {"switch", "cr3", "register"} => prog'[ch[i]].user_pd \in Dirs
                      /\ prog'[ch[i]].pc = "create" => staging' = prog'[ch[i]].kargs
    BY DEF ChainSteps
  <2>1. CASE i = n
    BY <1>1, <2>1
  <2>2. CASE i \in 1 .. n - 1
    <3>1. i + 1 \in 2 .. n
      BY <2>2
    <3>2. prog[ch[i]].child_pid = tpid[ch[i + 1]]
      BY <2>2 DEF IsChain, ChainWaits
    <3>3. pstate[tpid[ch[i + 1]]] = "RUNNING" /\ tpid[ch[i + 1]] \in Pids
      BY <1>0, <1>1, <3>1 DEF IsChain, ChainProcesses
    <3>4. pthreads'[prog[ch[i]].child_pid] = pthreads[prog[ch[i]].child_pid]
      BY <3>2, <3>3
    <3> QED
      BY <1>1, <1>2, <2>2, <3>4 DEF IsChain, ChainSteps
  <2> QED
    BY <2>1, <2>2
<1> QED
  BY <1>3, <1>4, <1>5, <1>6, <1>7, <1>8 DEF IsChain

\* The last program of the chain ends.
LEMMA LastEnds ==
  ASSUME ExecIInv,
         NEW n \in Nat, n > 0, NEW ch \in [1 .. n -> Tids \ {0}], IsChain(n, ch),
         \A t \in Tids : t # ch[n] => prog'[t] = prog[t],
         \A t \in Tids \ {0} : Alive(t)' <=> Alive(t) /\ t # ch[n],
         UNCHANGED <<tpid, pthreads, args, staging>>,
         \A p \in Pids : p # tpid[ch[n]] => pstate'[p] = pstate[p]
  PROVE  ChainExists'
<1> DEFINE m == n - 1
           c == [i \in 1 .. m |-> ch[i]]
<1>0. /\ prog \in [Tids -> Locals] /\ tpid \in [Tids -> Pids] /\ 0 \in Pids
      /\ m \in Nat /\ c \in [1 .. m -> Tids \ {0}]
  BY ExecTypes
<1>1. \A i \in 1 .. m : /\ i \in 1 .. n /\ c[i] = ch[i] /\ ch[i] # ch[n] /\ ch[i] \in Tids
                        /\ prog'[c[i]] = prog[ch[i]] /\ tpid[ch[i]] # tpid[ch[n]]
  <2> SUFFICES ASSUME NEW i \in 1 .. m
               PROVE  /\ ch[i] # ch[n] /\ ch[i] \in Tids /\ prog'[ch[i]] = prog[ch[i]]
                      /\ tpid[ch[i]] # tpid[ch[n]]
    OBVIOUS
  <2>1. ch[i] # ch[n] /\ ch[i] \in Tids /\ i \in 1 .. n
    BY DEF IsChain, ChainMembers
  <2>2. tpid[ch[i]] # tpid[ch[n]]
    <3>1. n \in 2 .. n
      OBVIOUS
    <3>2. tpid[ch[n]] # 0 /\ pthreads[tpid[ch[n]]] = <<ch[n]>>
      BY <3>1 DEF IsChain, ChainProcesses
    <3>3. CASE i = 1
      BY <3>2, <3>3 DEF IsChain, ChainProcesses
    <3>4. CASE i \in 2 .. n
      BY <2>1, <3>2, <3>4 DEF IsChain, ChainProcesses
    <3> QED
      BY <3>3, <3>4
  <2> QED
    BY <2>1, <2>2
<1> HIDE DEF m, c
<1>2. ChainMembers(m, c)'
  <2>1. ASSUME NEW t \in Tids \ {0}
        PROVE  Alive(t)' <=> \E i \in 1 .. m : c[i] = t
    <3>1. Alive(t) <=> \E i \in 1 .. n : ch[i] = t
      BY DEF IsChain, ChainMembers, InChain
    <3>2. \A i \in 1 .. n : i = n \/ i \in 1 .. m
      BY DEF m
    <3> QED
      BY <1>1, <3>1, <3>2
  <2> QED
    BY <1>0, <1>1, <2>1 DEF IsChain, ChainMembers, InChain
<1>3. ChainWaits(m, c)'
  <2>1. \A i \in 1 .. m - 1 : i \in 1 .. m /\ i + 1 \in 1 .. m /\ i \in 1 .. n - 1
    BY <1>0 DEF m
  <2> QED
    BY <1>1, <2>1 DEF IsChain, ChainWaits
<1>4. ChainProcesses(m, c)'
  <2>1. m > 0 => /\ tpid'[c[1]] = 0
                 /\ prog'[c[1]].pc # "dead" => pstate'[0] = "RUNNING"
                 /\ \A i \in DOMAIN pthreads'[0] : pthreads'[0][i] \in {0, c[1]}
    <3> SUFFICES ASSUME m > 0
                 PROVE  /\ tpid'[c[1]] = 0
                        /\ prog'[c[1]].pc # "dead" => pstate'[0] = "RUNNING"
                        /\ \A i \in DOMAIN pthreads'[0] : pthreads'[0][i] \in {0, c[1]}
      OBVIOUS
    <3>1. 1 \in 1 .. m
      BY <1>0
    <3>2. tpid[ch[1]] = 0 /\ 0 # tpid[ch[n]]
      BY <1>1, <3>1 DEF IsChain, ChainProcesses
    <3> QED
      BY <1>0, <1>1, <3>1, <3>2 DEF IsChain, ChainProcesses
  <2>2. ASSUME NEW i \in 2 .. m
        PROVE  /\ tpid'[c[i]] # 0
               /\ pstate'[tpid'[c[i]]] = "RUNNING"
               /\ pthreads'[tpid'[c[i]]] = <<c[i]>>
    <3>1. i \in 1 .. m /\ i \in 2 .. n
      BY <1>0, <1>1
    <3>2. tpid[ch[i]] # 0 /\ pstate[tpid[ch[i]]] = "RUNNING" /\ pthreads[tpid[ch[i]]] = <<ch[i]>>
      BY <3>1 DEF IsChain, ChainProcesses
    <3>3. tpid[ch[i]] \in Pids /\ tpid[ch[i]] # tpid[ch[n]] /\ c[i] = ch[i]
      BY <1>0, <1>1, <3>1
    <3> QED
      BY <3>2, <3>3
  <2> QED
    BY <2>1, <2>2 DEF ChainProcesses
<1>5. ChainHandsDown(m, c)'
  <2>1. \A i \in 2 .. m : i \in 1 .. m /\ i - 1 \in 1 .. m /\ i \in 2 .. n
    BY <1>0 DEF m
  <2>2. m > 0 => 1 \in 1 .. m
    BY <1>0
  <2> QED
    BY <1>1, <2>1, <2>2 DEF IsChain, ChainHandsDown
<1>6. ChainArgs(m, c)'
  BY <1>1 DEF IsChain, ChainArgs
<1>7. ChainSteps(m, c)'
  BY <1>1 DEF IsChain, ChainSteps
<1>8. IsChain(m, c)'
  BY <1>2, <1>3, <1>4, <1>5, <1>6, <1>7 DEF IsChain
<1> QED
  BY <1>0, <1>8 DEF ChainExists

\* What a creation does to the programs: t is born, with me as its parent.
Begets(p, t) ==
  /\ prog' = [prog EXCEPT ![t] = Born("entry", prog[me].kargs),
                          ![me].pc = "tid", ![me].child_pid = p]
  /\ UNCHANGED <<staging, args>>

\* The last program of the chain creates the next one.
LEMMA ChainGrows ==
  ASSUME ExecIInv,
         NEW n \in Nat, n > 0, NEW ch \in [1 .. n -> Tids \ {0}], IsChain(n, ch),
         NEW p \in Pids, NEW t \in Tids, NEW s \in Stacks,
         me = ch[n], prog[me].pc = "create",
         kcreate_process(p, t, s), Begets(p, t)
  PROVE  ChainExists'
<1> DEFINE m == n + 1
           c == [i \in 1 .. m |-> IF i = m THEN t ELSE ch[i]]
<1>0. /\ tstate[t] = "UNUSED" /\ pstate[p] = "UNUSED"
      /\ tstate' = [tstate EXCEPT ![t] = "READY"]
      /\ tpid' = [tpid EXCEPT ![t] = p]
      /\ pstate' = [pstate EXCEPT ![p] = "RUNNING"]
      /\ pthreads' = [pthreads EXCEPT ![p] = <<t>>]
  BY DEF kcreate_process, StartThread, alloc_thread_slot, alloc_process_slot
<1>1. t # 0
  BY <1>0, ExecTypes DEF IInv, StackHolders
<1>2. m \in Nat /\ c \in [1 .. m -> Tids \ {0}]
  BY <1>1
<1>3. /\ c[m] = t /\ m \in 1 .. m
      /\ \A i \in 1 .. n : i \in 1 .. m /\ i # m /\ c[i] = ch[i] /\ ch[i] \in Tids /\ ch[i] # t
  <2>1. ~Alive(t)
    BY <1>0 DEF Alive
  <2>2. \A i \in 1 .. n : ch[i] # t
    BY <1>1, <2>1 DEF IsChain, ChainMembers, InChain
  <2> QED
    BY <2>2
<1> HIDE DEF m, c
<1>4. me \in Tids /\ me # t /\ n \in 1 .. n /\ n = m - 1
  BY <1>3 DEF m
\* Program t, its parent, and everybody else.
<1>5. /\ prog'[t] = Born("entry", prog[me].kargs)
      /\ prog'[me] = [prog[me] EXCEPT !.pc = "tid", !.child_pid = p]
      /\ \A i \in 1 .. n - 1 : prog'[ch[i]] = prog[ch[i]]
      /\ args' = args /\ staging' = staging
  <2>1. \A i \in 1 .. n - 1 : i \in 1 .. n /\ ch[i] # me
    BY DEF IsChain, ChainMembers
  <2>2. prog \in [Tids -> Locals]
    BY ExecTypes DEF ExecTypeOK
  <2> QED
    BY <1>3, <1>4, <2>1, <2>2 DEF Begets
<1>6. /\ prog'[me].pc = "tid" /\ prog'[me].child_pid = p
      /\ prog'[me].kargs = prog[me].kargs /\ prog'[me].image = prog[me].image
      /\ prog'[me].wanted = prog[me].wanted
  <2>1. prog[me] \in Locals
    BY <1>4, ExecTypes
  <2>2. prog'[me] = [prog[me] EXCEPT !.pc = "tid", !.child_pid = p]
    BY <1>5
  <2> QED
    BY <2>1, <2>2 DEF Locals
<1>7. /\ prog'[t].pc = "entry" /\ prog'[t].wanted = prog[me].kargs
      /\ prog'[t].image = NULL /\ prog'[t].kargs = NULL
  BY <1>5 DEF Born
<1>8. \A i \in 1 .. m : i = m \/ i = n \/ i \in 1 .. n - 1
  BY DEF m
<1>9. \A i \in 1 .. n - 1 : prog[ch[i]].pc \in {"tid", "wait"} /\ i \in 1 .. n
  BY DEF IsChain, ChainWaits
<1>10. p # 0
  <2>1. prog[ch[1]].pc # "dead" /\ 1 \in 1 .. n
    BY <1>9 DEF me
  <2> QED
    BY <1>0, <2>1 DEF IsChain, ChainProcesses
<1>11. ChainMembers(m, c)'
  <2>1. ASSUME NEW u \in Tids \ {0}
        PROVE  Alive(u)' <=> \E i \in 1 .. m : c[i] = u
    <3>1. Alive(u) <=> \E i \in 1 .. n : ch[i] = u
      BY DEF IsChain, ChainMembers, InChain
    <3>2. Alive(u)' <=> Alive(u) \/ u = t
      BY <1>0, ExecTypes DEF Alive
    <3> QED
      BY <1>3, <1>4, <1>8, <3>1, <3>2
  <2>2. \A i, j \in 1 .. m : c[i] = c[j] => i = j
    BY <1>3, <1>4, <1>8, <1>9 DEF IsChain, ChainMembers
  <2> QED
    BY <1>2, <2>1, <2>2 DEF ChainMembers, InChain
\* Threads and processes of the programs that were there before.
<1>12. ASSUME NEW i \in 1 .. n
       PROVE  /\ tpid'[c[i]] = tpid[ch[i]] /\ tpid[ch[i]] \in Pids /\ tpid[ch[i]] # p
              /\ pstate'[tpid[ch[i]]] = pstate[tpid[ch[i]]]
              /\ pthreads'[tpid[ch[i]]] = pthreads[tpid[ch[i]]]
  <2>1. tpid'[c[i]] = tpid[ch[i]] /\ tpid[ch[i]] \in Pids
    BY <1>0, <1>3, ExecTypes
  <2>2. tpid[ch[i]] # p
    <3>1. CASE i = 1
      BY <1>10, <3>1 DEF IsChain, ChainProcesses
    <3>2. CASE i \in 2 .. n
      BY <1>0, <3>2 DEF IsChain, ChainProcesses
    <3> QED
      BY <3>1, <3>2
  <2> QED
    BY <1>0, <2>1, <2>2, ExecTypes
<1>13. ChainWaits(m, c)'
  <2> SUFFICES ASSUME NEW i \in 1 .. m - 1
               PROVE  /\ prog'[c[i]].pc \in {"tid", "wait"}
                      /\ prog'[c[i]].child_pid = tpid'[c[i + 1]]
                      /\ prog'[c[i]].pc = "wait" => prog'[c[i]].child_tid = c[i + 1]
    BY DEF ChainWaits
  <2>1. CASE i = n
    <3>1. c[i] = me /\ c[i + 1] = t
      BY <1>3, <1>4, <2>1 DEF m
    <3> QED
      BY <1>0, <1>6, <3>1, ExecTypes
  <2>2. CASE i \in 1 .. n - 1
    <3>1. i + 1 \in 1 .. n /\ i \in 1 .. n
      BY <2>2
    <3>2. /\ c[i] = ch[i] /\ c[i + 1] = ch[i + 1] /\ prog'[c[i]] = prog[ch[i]]
          /\ tpid'[c[i + 1]] = tpid[ch[i + 1]]
      BY <1>3, <1>5, <1>12, <2>2, <3>1
    <3> QED
      BY <2>2, <3>2 DEF IsChain, ChainWaits
  <2> QED
    BY <1>4, <2>1, <2>2
<1>14. ChainProcesses(m, c)'
  <2>0. 1 \in 1 .. n
    OBVIOUS
  <2>1. /\ tpid'[c[1]] = 0
        /\ pstate'[0] = "RUNNING"
        /\ \A i \in DOMAIN pthreads'[0] : pthreads'[0][i] \in {0, c[1]}
    <3>1. prog[ch[1]].pc # "dead"
      BY <1>9 DEF me
    <3>2. tpid[ch[1]] = 0 /\ pstate[0] = "RUNNING"
      BY <3>1 DEF IsChain, ChainProcesses
    <3> QED
      BY <1>3, <1>12, <2>0, <3>2 DEF IsChain, ChainProcesses
  <2>2. ASSUME NEW i \in 2 .. m
        PROVE  /\ tpid'[c[i]] # 0
               /\ pstate'[tpid'[c[i]]] = "RUNNING"
               /\ pthreads'[tpid'[c[i]]] = <<c[i]>>
    <3>1. CASE i = m
      BY <1>0, <1>3, <1>10, <3>1, ExecTypes
    <3>2. CASE i \in 2 .. n
      <4>1. i \in 1 .. n
        BY <3>2
      <4>2. /\ tpid[ch[i]] # 0
            /\ pstate[tpid[ch[i]]] = "RUNNING"
            /\ pthreads[tpid[ch[i]]] = <<ch[i]>>
        BY <3>2 DEF IsChain, ChainProcesses
      <4> QED
        BY <1>3, <1>12, <4>1, <4>2
    <3> QED
      BY <1>2, <1>4, <3>1, <3>2
  <2> QED
    BY <2>1, <2>2 DEF ChainProcesses
<1>15. ChainHandsDown(m, c)'
  <2>0. 1 \in 1 .. n
    OBVIOUS
  <2>1. prog'[c[1]].image = NULL /\ prog'[c[1]].pc \notin {"entry", "release"}
    <3>1. prog[ch[1]].image = NULL /\ c[1] = ch[1]
      BY <1>3, <2>0 DEF IsChain, ChainHandsDown
    <3>2. CASE n = 1
      BY <1>6, <3>1, <3>2
    <3>3. CASE n > 1
      <4>1. 1 \in 1 .. n - 1
        BY <3>3
      <4> QED
        BY <1>5, <1>9, <3>1, <4>1
    <3> QED
      BY <3>2, <3>3
  <2>2. ASSUME NEW i \in 2 .. m
        PROVE  /\ prog'[c[i]].wanted = prog'[c[i - 1]].kargs
               /\ prog'[c[i]].image \in {NULL, prog'[c[i]].wanted}
               /\ prog'[c[i]].pc = "entry" => staging' = prog'[c[i]].wanted
    <3>1. CASE i = m
      <4>1. c[i] = t /\ c[i - 1] = me
        BY <1>3, <1>4, <3>1
      <4>2. staging = prog[me].kargs
        <5>1. n \in 1 .. n
          OBVIOUS
        <5>2. prog[ch[n]].pc = "create" => staging = prog[ch[n]].kargs
          BY <5>1 DEF IsChain, ChainSteps
        <5> QED
          BY <1>4, <5>2
      <4> QED
        BY <1>5, <1>6, <1>7, <4>1, <4>2
    <3>2. CASE i \in 2 .. n
      <4>1. i - 1 \in 1 .. n - 1 /\ i \in 1 .. n /\ i - 1 \in 1 .. n
        BY <3>2
      <4>2. /\ prog[ch[i]].wanted = prog[ch[i - 1]].kargs
            /\ prog[ch[i]].image \in {NULL, prog[ch[i]].wanted}
            /\ c[i] = ch[i] /\ c[i - 1] = ch[i - 1] /\ prog'[ch[i - 1]] = prog[ch[i - 1]]
        BY <1>3, <1>5, <3>2, <4>1 DEF IsChain, ChainHandsDown
      <4>3. CASE i = n
        BY <1>6, <4>2, <4>3
      <4>4. CASE i \in 1 .. n - 1
        BY <1>5, <1>9, <4>2, <4>4
      <4> QED
        BY <4>1, <4>3, <4>4
    <3>3. i = m \/ i \in 2 .. n
      BY <1>2, <1>4
    <3> QED
      BY <3>1, <3>2, <3>3
  <2> QED
    BY <2>1, <2>2 DEF ChainHandsDown
\* The copies in the hands of the old programs are as before, t has none.
<1>16. \A i \in 1 .. n : prog'[c[i]].kargs = prog[ch[i]].kargs /\ prog'[c[i]].pc \in InExec
                         /\ prog[ch[i]].pc \in InExec
  <2> SUFFICES ASSUME NEW i \in 1 .. n
               PROVE  /\ prog'[c[i]].kargs = prog[ch[i]].kargs /\ prog'[c[i]].pc \in InExec
                      /\ prog[ch[i]].pc \in InExec
    OBVIOUS
  <2>1. c[i] = ch[i] /\ (i = n \/ i \in 1 .. n - 1)
    BY <1>3
  <2>2. CASE i = n
    BY <1>6, <2>1, <2>2 DEF InExec
  <2>3. CASE i \in 1 .. n - 1
    BY <1>5, <1>9, <2>1, <2>3 DEF InExec
  <2> QED
    BY <2>1, <2>2, <2>3
<1>17. ChainArgs(m, c)'
  <2>1. \A i \in 1 .. m : i = m \/ i \in 1 .. n
    BY <1>8
  <2>2. prog'[c[m]].kargs = NULL /\ prog'[c[m]].pc \notin InExec
    BY <1>3, <1>7 DEF InExec
  <2>3. \A i \in 1 .. m : IF prog'[c[i]].pc \in InExec THEN prog'[c[i]].kargs \in args'
                                                      ELSE prog'[c[i]].kargs = NULL
    <3>1. \A i \in 1 .. n : prog[ch[i]].kargs \in args
      BY <1>16 DEF IsChain, ChainArgs
    <3>2. \A i \in 1 .. n : prog'[c[i]].kargs \in args' /\ prog'[c[i]].pc \in InExec
      BY <1>5, <1>16, <3>1
    <3> QED
      BY <2>1, <2>2, <3>2
  <2>4. \A i, j \in 1 .. m : prog'[c[i]].kargs = prog'[c[j]].kargs /\ prog'[c[i]].kargs # NULL => i = j
    <3>1. \A i, j \in 1 .. n : prog[ch[i]].kargs = prog[ch[j]].kargs /\ prog[ch[i]].kargs # NULL => i = j
      BY DEF IsChain, ChainArgs
    <3> SUFFICES ASSUME NEW i \in 1 .. m, NEW j \in 1 .. m,
                        prog'[c[i]].kargs = prog'[c[j]].kargs, prog'[c[i]].kargs # NULL
                 PROVE  i = j
      OBVIOUS
    <3>2. i \in 1 .. n /\ j \in 1 .. n
      BY <2>1, <2>2
    <3> QED
      BY <1>16, <3>1, <3>2
  <2> QED
    BY <2>3, <2>4 DEF ChainArgs
<1>18. ChainSteps(m, c)'
  <2> SUFFICES ASSUME NEW i \in 1 .. m
               PROVE  /\ prog'[c[i]].pc = "tid" => Len(pthreads'[prog'[c[i]].child_pid]) > 0
                      /\ prog'[c[i]].pc \in {"switch", "cr3", "register"} => prog'[c[i]].user_pd \in Dirs
                      /\ prog'[c[i]].pc = "create" => staging' = prog'[c[i]].kargs
    BY DEF ChainSteps
  <2>1. CASE i = m
    BY <1>3, <1>7, <2>1
  <2>2. CASE i = n
    <3>1. c[i] = me /\ pthreads'[p] = <<t>>
      BY <1>0, <1>3, <1>4, <2>2, ExecTypes
    <3>2. Len(<<t>>) > 0
      OBVIOUS
    <3>3. prog'[c[i]].pc = "tid" /\ prog'[c[i]].child_pid = p
      BY <1>6, <3>1
    <3>4. pthreads'[prog'[c[i]].child_pid] = <<t>>
      BY <3>1, <3>3
    <3>5. Len(pthreads'[prog'[c[i]].child_pid]) > 0
      BY <3>2, <3>4, Zenon
    <3> QED
      BY <3>3, <3>5
  <2>3. CASE i \in 1 .. n - 1
    <3>1. i \in 1 .. n /\ i + 1 \in 1 .. n
      BY <2>3
    <3>2. prog'[c[i]] = prog[ch[i]] /\ prog[ch[i]].child_pid = tpid[ch[i + 1]]
      BY <1>3, <1>5, <2>3, <3>1 DEF IsChain, ChainWaits
    <3>3. pthreads'[prog[ch[i]].child_pid] = pthreads[prog[ch[i]].child_pid]
      BY <1>12, <3>1, <3>2
    <3> QED
      BY <1>9, <2>3, <3>1, <3>2, <3>3 DEF IsChain, ChainSteps
  <2>4. i = m \/ i = n \/ i \in 1 .. n - 1
    BY <1>8
  <2> QED
    BY <2>1, <2>2, <2>3, <2>4
<1>19. IsChain(m, c)'
  BY <1>11, <1>13, <1>14, <1>15, <1>17, <1>18 DEF IsChain
<1> QED
  BY <1>2, <1>19 DEF ChainExists

\* A parent that looks up the thread of its child finds it, whether the child
\* still lives or not.
LEMMA ParentLooksUp ==
  ASSUME ExecIInv,
         NEW n \in Nat, NEW ch \in [1 .. n -> Tids \ {0}], IsChain(n, ch),
         NEW k \in 1 .. n, me = ch[k],
         sys_exec_tid
  PROVE  /\ IsChain(n, ch)'
         /\ Head(pthreads[prog[me].child_pid]) \in Tids
<1> DEFINE tid == Head(pthreads[prog[me].child_pid])
<1>0. /\ prog[me].pc = "tid" /\ me \in Tids
      /\ prog' = [prog EXCEPT ![me].pc = "wait", ![me].child_tid = tid]
      /\ UNCHANGED <<tstate, tpid, pstate, pthreads, staging, args>>
  BY ExecTypes DEF sys_exec_tid, At, vars, tables, procs, me
<1>1. prog[me] \in Locals /\ prog[me].child_pid \in Pids
  BY <1>0, ExecTypes DEF Locals
<1>2. tid \in Tids
  <2>1. Len(pthreads[prog[me].child_pid]) > 0
    BY <1>0 DEF IsChain, ChainSteps
  <2> QED
    BY <1>1, <2>1, ExecTypes
<1>3. k < n => tid = ch[k + 1]
  <2> SUFFICES ASSUME k < n PROVE tid = ch[k + 1]
    OBVIOUS
  <2>1. k \in 1 .. n - 1 /\ k + 1 \in 2 .. n
    OBVIOUS
  <2>2. prog[me].child_pid = tpid[ch[k + 1]]
    BY <2>1 DEF IsChain, ChainWaits
  <2>3. pthreads[tpid[ch[k + 1]]] = <<ch[k + 1]>>
    BY <2>1 DEF IsChain, ChainProcesses
  <2>4. Head(<<ch[k + 1]>>) = ch[k + 1]
    OBVIOUS
  <2> QED
    BY <2>2, <2>3, <2>4
<1> HIDE DEF tid
<1>4. /\ prog'[me] = [prog[me] EXCEPT !.pc = "wait", !.child_tid = tid]
      /\ \A i \in 1 .. n : i # k => prog'[ch[i]] = prog[ch[i]]
  <2>1. \A i \in 1 .. n : i # k => ch[i] # me
    BY DEF IsChain, ChainMembers
  <2> QED
    BY <1>0, <2>1, ExecTypes
<1>5. /\ prog'[me].pc = "wait" /\ prog'[me].child_tid = tid
      /\ prog'[me].child_pid = prog[me].child_pid /\ prog'[me].kargs = prog[me].kargs
      /\ prog'[me].image = prog[me].image /\ prog'[me].wanted = prog[me].wanted
  BY <1>1, <1>4 DEF Locals
<1>6. \A i \in 1 .. n : /\ prog'[ch[i]].child_pid = prog[ch[i]].child_pid
                        /\ prog'[ch[i]].kargs = prog[ch[i]].kargs
                        /\ prog'[ch[i]].image = prog[ch[i]].image
                        /\ prog'[ch[i]].wanted = prog[ch[i]].wanted
                        /\ prog'[ch[i]].pc = IF i = k THEN "wait" ELSE prog[ch[i]].pc
  BY <1>4, <1>5
<1>7. ChainMembers(n, ch)'
  BY <1>0 DEF IsChain, ChainMembers, InChain, Alive
<1>8. ChainWaits(n, ch)'
  <2> SUFFICES ASSUME NEW i \in 1 .. n - 1
               PROVE  /\ prog'[ch[i]].pc \in {"tid", "wait"}
                      /\ prog'[ch[i]].child_pid = tpid'[ch[i + 1]]
                      /\ prog'[ch[i]].pc = "wait" => prog'[ch[i]].child_tid = ch[i + 1]
    BY DEF ChainWaits
  <2>1. i \in 1 .. n
    OBVIOUS
  <2>2. CASE i = k
    BY <1>0, <1>3, <1>5, <1>6, <2>1, <2>2 DEF IsChain, ChainWaits
  <2>3. CASE i # k
    BY <1>0, <1>4, <2>1, <2>3 DEF IsChain, ChainWaits
  <2> QED
    BY <2>2, <2>3
<1>9. ChainProcesses(n, ch)'
  <2>1. n > 0 /\ prog[ch[1]].pc # "dead" => pstate[0] = "RUNNING"
    BY DEF IsChain, ChainProcesses
  <2>2. n > 0 => (prog'[ch[1]].pc # "dead" => prog[ch[1]].pc # "dead")
    BY <1>0, <1>6
  <2> QED
    BY <1>0, <2>1, <2>2 DEF IsChain, ChainProcesses
<1>10. ChainHandsDown(n, ch)'
  <2>1. n > 0 => prog'[ch[1]].image = NULL /\ prog'[ch[1]].pc \notin {"entry", "release"}
    <3>1. n > 0 => 1 \in 1 .. n
      OBVIOUS
    <3> QED
      BY <1>6, <3>1 DEF IsChain, ChainHandsDown
  <2>2. ASSUME NEW i \in 2 .. n
        PROVE  /\ prog'[ch[i]].wanted = prog'[ch[i - 1]].kargs
               /\ prog'[ch[i]].image \in {NULL, prog'[ch[i]].wanted}
               /\ prog'[ch[i]].pc = "entry" => staging' = prog'[ch[i]].wanted
    <3>1. i \in 1 .. n /\ i - 1 \in 1 .. n
      OBVIOUS
    <3>2. /\ prog[ch[i]].wanted = prog[ch[i - 1]].kargs
          /\ prog[ch[i]].image \in {NULL, prog[ch[i]].wanted}
          /\ prog[ch[i]].pc = "entry" => staging = prog[ch[i]].wanted
      BY DEF IsChain, ChainHandsDown
    <3>3. /\ prog'[ch[i]].wanted = prog[ch[i]].wanted
          /\ prog'[ch[i]].image = prog[ch[i]].image
          /\ prog'[ch[i - 1]].kargs = prog[ch[i - 1]].kargs
          /\ prog'[ch[i]].pc = "entry" => prog[ch[i]].pc = "entry"
      BY <1>6, <3>1
    <3> QED
      BY <1>0, <3>2, <3>3
  <2> QED
    BY <2>1, <2>2 DEF ChainHandsDown
<1>11. ChainArgs(n, ch)'
  <2>1. ASSUME NEW i \in 1 .. n PROVE prog'[ch[i]].pc \in InExec <=> prog[ch[i]].pc \in InExec
    <3>1. prog'[ch[i]].pc = IF i = k THEN "wait" ELSE prog[ch[i]].pc
      BY <1>6
    <3>2. i = k => prog[ch[i]].pc = "tid"
      BY <1>0
    <3> QED
      BY <3>1, <3>2 DEF InExec
  <2>2. \A i \in 1 .. n : prog'[ch[i]].kargs = prog[ch[i]].kargs
    BY <1>6
  <2>3. ChainArgs(n, ch) /\ args' = args
    BY <1>0 DEF IsChain
  <2> QED
    BY <2>1, <2>2, <2>3 DEF ChainArgs
<1>12. ChainSteps(n, ch)'
  <2> SUFFICES ASSUME NEW i \in 1 .. n
               PROVE  /\ prog'[ch[i]].pc = "tid" => Len(pthreads'[prog'[ch[i]].child_pid]) > 0
                      /\ prog'[ch[i]].pc \in {"switch", "cr3", "register"} => prog'[ch[i]].user_pd \in Dirs
                      /\ prog'[ch[i]].pc = "create" => staging' = prog'[ch[i]].kargs
    BY DEF ChainSteps
  <2>1. CASE i = k
    BY <1>0, <1>5, <2>1
  <2>2. CASE i # k
    <3>1. prog'[ch[i]] = prog[ch[i]]
      BY <1>4, <2>2
    <3> QED
      BY <1>0, <3>1 DEF IsChain, ChainSteps
  <2> QED
    BY <2>1, <2>2
<1> QED
  BY <1>2, <1>7, <1>8, <1>9, <1>10, <1>11, <1>12 DEF IsChain, tid

\* The timer ends no thread and revives none.
LEMMA TimerKeepsAlive ==
  ASSUME IInv, scheduler_tick, NEW t \in Tids
  PROVE  Alive(t)' <=> Alive(t)
<1>1. /\ current_tid \in Tids /\ tstate \in [Tids -> ThreadStates]
      /\ \A u \in Tids : Woken[u] \notin {"UNUSED", "ZOMBIE"} <=> Alive(u)
      /\ Woken \in [Tids -> ThreadStates]
      /\ Preempted \notin {"UNUSED", "ZOMBIE"} <=> Woken[current_tid] \notin {"UNUSED", "ZOMBIE"}
  <2>1. TypeOK /\ current_tid \in Tids /\ tstate \in [Tids -> ThreadStates]
    BY DEF IInv, TypeOK
  <2> QED
    BY <2>1, WokenType DEF Woken, Alive, Preempted
<1>2. ASSUME NEW st \in [Tids -> ThreadStates], cleanup_dead_threads(st, SavedEsp),
             \A u \in Tids : st[u] \notin {"UNUSED", "ZOMBIE"} <=> Alive(u)
      PROVE  Alive(t)' <=> Alive(t)
  <2>1. \A e \in cleanup_pool : tstate[e.tid] = "ZOMBIE"
    BY DEF IInv, PoolEntries
  <2> QED
    BY <1>2, <2>1 DEF cleanup_dead_threads, Alive
<1>3. CASE TickOnly
  BY <1>3 DEF TickOnly, Alive, tables
<1>4. CASE TickIdle
  BY <1>1, <1>2, <1>4 DEF TickIdle
<1>5. CASE TickSame
  <2>1. Woken[current_tid] \in {"READY", "RUNNING"}
    BY <1>5 DEF TickSame, IsNext, Runnable
  <2>2. [Woken EXCEPT ![current_tid] = "RUNNING"] \in [Tids -> ThreadStates]
    BY <1>1 DEF ThreadStates
  <2> QED
    BY <1>1, <1>2, <1>5, <2>1, <2>2 DEF TickSame
<1>6. ASSUME NEW n \in Tids, TickSwitch(n) PROVE Alive(t)' <=> Alive(t)
  <2>1. Woken[n] \in {"READY", "RUNNING"} /\ n # current_tid
    BY <1>6 DEF TickSwitch, IsNext, Runnable
  <2>2. [Woken EXCEPT ![current_tid] = Preempted, ![n] = "RUNNING"] \in [Tids -> ThreadStates]
    BY <1>1, WokenType DEF ThreadStates, IInv
  <2> QED
    BY <1>1, <1>2, <1>6, <2>1, <2>2 DEF TickSwitch
<1> QED
  BY <1>3, <1>4, <1>5, <1>6 DEF scheduler_tick

\* Nothing that the chain is about changes.
LEMMA ChainRests ==
  ASSUME NEW n \in Nat, NEW ch \in [1 .. n -> Tids \ {0}], IsChain(n, ch),
         \A t \in Tids \ {0} : Alive(t)' <=> Alive(t),
         UNCHANGED <<tpid, pstate, pthreads, prog, staging, args>>
  PROVE  IsChain(n, ch)'
<1>1. ChainMembers(n, ch)'
  BY DEF IsChain, ChainMembers, InChain
<1>2. ChainWaits(n, ch)' /\ ChainProcesses(n, ch)'
  BY DEF IsChain, ChainWaits, ChainProcesses
<1>3. ChainHandsDown(n, ch)' /\ ChainArgs(n, ch)' /\ ChainSteps(n, ch)'
  BY DEF IsChain, ChainHandsDown, ChainArgs, ChainSteps
<1> QED
  BY <1>1, <1>2, <1>3 DEF IsChain

-----------------------------------------------------------------------------
(***************************************************************************)
(* One step of a program: of the last of the chain, if not said otherwise. *)
(***************************************************************************)

\* What most steps have in common: r is the new state of the program.
LEMMA ProgramMoves ==
  ASSUME ExecIInv,
         NEW n \in Nat, n > 0, NEW ch \in [1 .. n -> Tids \ {0}], IsChain(n, ch),
         me = ch[n], prog[me].pc # "dead",
         NEW r \in Locals, prog' = [prog EXCEPT ![me] = r],
         UNCHANGED <<tstate, tpid, pstate>>,
         \A p \in Pids : pstate[p] = "RUNNING" => pthreads'[p] = pthreads[p],
         r.pc \notin {"entry", "tid"},
         r.pc = "release" => prog[me].pc = "entry",
         r.wanted = prog[me].wanted,
         \/ r.image = prog[me].image
         \/ prog[me].pc = "entry" /\ r.image = staging,
         \/ /\ r.kargs = prog[me].kargs /\ args' = args
            /\ r.pc \in InExec <=> prog[me].pc \in InExec
         \/ r.kargs \notin args \cup {NULL} /\ args' = args \cup {r.kargs} /\ r.pc \in InExec
         \/ r.kargs = NULL /\ args' = args \ {prog[me].kargs} /\ r.pc \notin InExec,
         r.pc \in {"switch", "cr3", "register"} => r.user_pd \in Dirs,
         r.pc = "create" => staging' = r.kargs
  PROVE  ChainExists' /\ prog' \in [Tids -> Locals]
<1>0. n \in 1 .. n /\ \A i \in 1 .. n - 1 : i \in 1 .. n
  OBVIOUS
<1>1. \A t \in Tids \ {0} : Alive(t)' <=> Alive(t)
  BY DEF Alive
<1>2. \A i \in 1 .. n - 1 : prog[ch[i]].pc \in InExec
  BY DEF IsChain, ChainWaits, InExec
<1>3. \A i \in 1 .. n - 1 : prog[ch[i]].kargs \in args /\ prog[ch[i]].kargs # NULL
  <2>1. \A i \in 1 .. n - 1 : prog[ch[i]].kargs \in args
    BY <1>0, <1>2 DEF IsChain, ChainArgs
  <2> QED
    BY <2>1, ExecTypes, ExecAssumption DEF ExecTypeOK
<1>4. \A i \in 1 .. n - 1 : prog[ch[i]].kargs # prog[me].kargs
  BY <1>0, <1>3 DEF IsChain, ChainArgs
<1>5. IF prog[me].pc \in InExec THEN prog[me].kargs \in args ELSE prog[me].kargs = NULL
  BY <1>0 DEF IsChain, ChainArgs
<1>6. /\ r.pc \in InExec => r.kargs \in args'
      /\ r.pc \notin InExec => r.kargs = NULL
      /\ \A i \in 1 .. n - 1 : prog[ch[i]].kargs \in args' /\ prog[ch[i]].kargs # r.kargs
  <2>1. CASE r.kargs = prog[me].kargs /\ args' = args /\ (r.pc \in InExec <=> prog[me].pc \in InExec)
    BY <1>3, <1>4, <1>5, <2>1
  <2>2. CASE r.kargs \notin args \cup {NULL} /\ args' = args \cup {r.kargs} /\ r.pc \in InExec
    BY <1>3, <2>2
  <2>3. CASE r.kargs = NULL /\ args' = args \ {prog[me].kargs} /\ r.pc \notin InExec
    BY <1>3, <1>4, <2>3
  <2> QED
    BY <2>1, <2>2, <2>3
<1>7. /\ r.image \in {NULL, r.wanted}
      /\ n = 1 => r.image = NULL /\ r.pc # "release"
  <2>1. CASE n = 1
    <3>1. prog[me].image = NULL /\ prog[me].pc \notin {"entry", "release"}
      BY <2>1 DEF IsChain, ChainHandsDown
    <3> QED
      BY <2>1, <3>1
  <2>2. CASE n > 1
    <3>1. n \in 2 .. n
      BY <2>2
    <3>2. /\ prog[me].image \in {NULL, prog[me].wanted}
          /\ prog[me].pc = "entry" => staging = prog[me].wanted
      BY <3>1 DEF IsChain, ChainHandsDown
    <3> QED
      BY <2>2, <3>2
  <2> QED
    BY <2>1, <2>2
<1>8. IsChain(n, ch)'
  BY <1>1, <1>6, <1>7, LastMoves
<1> QED
  BY <1>8, ExecTypes DEF ChainExists

\* sys_exec from the copies to the staging area.
LEMMA ExecPrepares ==
  ASSUME ExecIInv,
         (\E a \in Args : sys_exec_copy(a)) \/ sys_exec_test \/ sys_exec_take \/ sys_exec_stage
  PROVE  ChainExists' /\ prog' \in [Tids -> Locals]
<1> USE DEF vars, tables, procs, At, Goto
<1>1. PICK n \in Nat : \E ch \in [1 .. n -> Tids \ {0}] : IsChain(n, ch)
  BY DEF ExecIInv, ChainExists
<1>2. PICK ch \in [1 .. n -> Tids \ {0}] : IsChain(n, ch)
  BY <1>1
<1>3. PICK pc \in {"ring3", "lock", "take", "stage"} : At(pc)
  BY DEF sys_exec_copy, sys_exec_test, sys_exec_take, sys_exec_stage
<1>4. n > 0 /\ me = ch[n] /\ me \in Tids /\ prog[me] \in Locals /\ prog[me].pc = pc
  BY <1>2, <1>3, CallerInChain DEF Points
<1>5. ASSUME NEW a \in Args, sys_exec_copy(a)
      PROVE  ChainExists' /\ prog' \in [Tids -> Locals]
  <2> DEFINE r == [prog[me] EXCEPT !.pc = "lock", !.kargs = a]
  <2>1. /\ r \in Locals /\ prog' = [prog EXCEPT ![me] = r]
        /\ r.pc = "lock" /\ r.wanted = prog[me].wanted /\ r.image = prog[me].image /\ r.kargs = a
    BY <1>4, <1>5, ExecTypes DEF sys_exec_copy, Locals, Points
  <2> HIDE DEF r
  <2>2. /\ UNCHANGED <<tstate, tpid, pstate, pthreads>>
        /\ a \notin args \cup {NULL} /\ args' = args \cup {a}
        /\ prog[me].pc # "dead"
    BY <1>5, ExecAssumption DEF sys_exec_copy
  <2> QED
    BY <1>2, <1>4, <2>1, <2>2, ProgramMoves DEF InExec
<1>6. ASSUME NEW to \in {"take", "stage", "create"}, prog' = [prog EXCEPT ![me].pc = to],
             UNCHANGED <<tstate, tpid, pstate, pthreads, args>>,
             prog[me].pc \in {"lock", "take", "stage"},
             to = "create" => staging' = prog[me].kargs
      PROVE  ChainExists' /\ prog' \in [Tids -> Locals]
  <2> DEFINE r == [prog[me] EXCEPT !.pc = to]
  <2>1. /\ r \in Locals /\ prog' = [prog EXCEPT ![me] = r]
        /\ r.pc = to /\ r.wanted = prog[me].wanted /\ r.image = prog[me].image
        /\ r.kargs = prog[me].kargs
    BY <1>4, <1>6, ExecTypes DEF Locals, Points
  <2> HIDE DEF r
  <2> QED
    BY <1>2, <1>4, <1>6, <2>1, ProgramMoves DEF InExec
<1>7. CASE sys_exec_test
  BY <1>6, <1>7 DEF sys_exec_test
<1>8. CASE sys_exec_take
  BY <1>6, <1>8 DEF sys_exec_take
<1>9. CASE sys_exec_stage
  BY <1>6, <1>9 DEF sys_exec_stage
<1> QED
  BY <1>5, <1>7, <1>8, <1>9

\* The two ways back from sys_exec that free the copies: no process could be
\* created, or the child is gone.
LEMMA ExecReturnsOrFails ==
  ASSUME ExecIInv, sys_exec_create_fail \/ sys_exec_return
  PROVE  ChainExists' /\ prog' \in [Tids -> Locals]
<1> USE DEF vars, tables, procs, At
<1>1. PICK n \in Nat : \E ch \in [1 .. n -> Tids \ {0}] : IsChain(n, ch)
  BY DEF ExecIInv, ChainExists
<1>2. PICK ch \in [1 .. n -> Tids \ {0}] : IsChain(n, ch)
  BY <1>1
<1>3. /\ me \in Tids /\ prog[me] \in Locals /\ n > 0 /\ me = ch[n]
      /\ prog[me].pc \in {"create", "wait"}
  <2>1. CASE sys_exec_create_fail
    <3>1. At("create")
      BY <2>1 DEF sys_exec_create_fail
    <3> QED
      BY <1>2, <3>1, CallerInChain DEF Points
  <2>2. CASE sys_exec_return
    <3>1. At("wait") /\ ~ChildPending
      BY <2>2 DEF sys_exec_return
    <3>2. PICK i \in 1 .. n : ch[i] = me
      BY <1>2, <3>1, CallerInChain DEF Points
    \* A child in the chain lives, and lives in the process it was given.
    <3>3. ASSUME i < n PROVE FALSE
      <4>1. i \in 1 .. n - 1 /\ i + 1 \in 1 .. n
        BY <3>3
      <4>2. prog[me].child_tid = ch[i + 1] /\ prog[me].child_pid = tpid[ch[i + 1]]
        BY <1>2, <3>1, <3>2, <4>1 DEF IsChain, ChainWaits
      <4>3. tstate[ch[i + 1]] # "UNUSED"
        BY <1>2, <4>1 DEF IsChain, ChainMembers, InChain, Alive
      <4> QED
        BY <3>1, <4>2, <4>3 DEF ChildPending
    <3>4. i = n
      BY <3>3
    <3> QED
      BY <1>2, <3>1, <3>2, <3>4, CallerInChain DEF Points
  <2> QED
    BY <2>1, <2>2
<1> DEFINE r == [prog[me] EXCEPT !.pc = "ring3", !.kargs = NULL]
<1>4. /\ r \in Locals /\ prog' = [prog EXCEPT ![me] = r] /\ args' = args \ {prog[me].kargs}
      /\ r.pc = "ring3" /\ r.wanted = prog[me].wanted /\ r.image = prog[me].image
      /\ r.kargs = NULL
  BY <1>3, ExecTypes DEF sys_exec_create_fail, sys_exec_return, FreeArgsAndReturn, Locals, Points
<1> HIDE DEF r
<1>5. /\ UNCHANGED <<tstate, tpid, pstate>>
      /\ \A p \in Pids : pstate[p] = "RUNNING" => pthreads'[p] = pthreads[p]
  <2>1. ASSUME NEW q \in Pids, kcreate_process_fail(q)
        PROVE  /\ UNCHANGED <<tstate, tpid, pstate>>
               /\ \A p \in Pids : pstate[p] = "RUNNING" => pthreads'[p] = pthreads[p]
    BY <2>1, ExecTypes DEF kcreate_process_fail, alloc_process_slot
  <2> QED
    BY <2>1 DEF sys_exec_create_fail, sys_exec_return
<1>6. r.pc \notin InExec \cup {"entry", "tid", "release", "switch", "cr3", "register", "create"}
  BY <1>4 DEF InExec
<1> QED
  BY <1>2, <1>3, <1>4, <1>5, <1>6, ProgramMoves

\* exec_thread_entry, user_shell_thread and elf_execute_in_ring3, up to the
\* jump to ring 3 or the failure.
LEMMA ProgramStarts ==
  ASSUME ExecIInv,
         \/ exec_thread_entry \/ exec_thread_release \/ user_shell_thread
         \/ (\E d \in Dirs : elf_clone(d))
         \/ elf_switch \/ elf_cr3 \/ elf_register
         \/ elf_load \/ elf_load_fail \/ elf_undo \/ elf_undo_cr3
  PROVE  ChainExists' /\ prog' \in [Tids -> Locals]
<1> USE DEF vars, tables, procs, cpu, At, Goto, ElfStep
<1> DEFINE Before == {"shell", "entry", "release", "clone", "switch", "cr3", "register", "load",
                      "undo", "undo_cr3"}
           After  == {"release", "clone", "switch", "cr3", "register", "load", "ring3",
                      "undo", "undo_cr3", "fail"}
<1>1. PICK n \in Nat : \E ch \in [1 .. n -> Tids \ {0}] : IsChain(n, ch)
  BY DEF ExecIInv, ChainExists
<1>2. PICK ch \in [1 .. n -> Tids \ {0}] : IsChain(n, ch)
  BY <1>1
<1>3. PICK pc \in Before : At(pc)
  BY DEF exec_thread_entry, exec_thread_release, user_shell_thread, elf_clone, elf_switch, elf_cr3,
         elf_register, elf_load, elf_load_fail, elf_undo, elf_undo_cr3
<1>4. n > 0 /\ me = ch[n] /\ me \in Tids /\ prog[me] \in Locals /\ prog[me].pc = pc
  BY <1>2, <1>3, CallerInChain DEF Points
<1>5. UNCHANGED <<tstate, tpid, pstate, pthreads, args>>
  BY DEF exec_thread_entry, exec_thread_release, user_shell_thread, elf_clone, elf_switch, elf_cr3,
         elf_register, elf_load, elf_load_fail, elf_undo, elf_undo_cr3,
         vmm_switch_page_dir_ptr, vmm_switch_page_dir_cr3, kthread_set_cr3
\* A step that changes nothing but the fields named here.
<1>6. ASSUME NEW to \in After, NEW i \in {prog[me].image, staging},
             NEW u \in Dirs \cup {BootDir}, NEW w \in Dirs \cup {BootDir},
             prog' = [prog EXCEPT ![me] = [prog[me] EXCEPT !.pc = to, !.image = i,
                                                           !.user_pd = u, !.space = w]],
             prog[me].pc = "entry" \/ i = prog[me].image,
             to = "release" => prog[me].pc = "entry",
             to \in {"switch", "cr3", "register"} => u \in Dirs
      PROVE  ChainExists' /\ prog' \in [Tids -> Locals]
  <2> DEFINE r == [prog[me] EXCEPT !.pc = to, !.image = i, !.user_pd = u, !.space = w]
  <2>1. r \in Locals
    BY <1>4, ExecTypes, ZenonT(60) DEF Locals, Points, ExecTypeOK
  <2>2. /\ r.pc = to /\ r.wanted = prog[me].wanted /\ r.image = i
        /\ r.kargs = prog[me].kargs /\ r.user_pd = u
    BY <1>4 DEF Locals
  <2>3. prog' = [prog EXCEPT ![me] = r]
    BY <1>6
  <2> HIDE DEF r
  <2>4. /\ prog[me].pc \notin InExec \cup {"dead"}
        /\ r.pc \notin InExec \cup {"entry", "tid", "create"}
    BY <1>4, <2>2 DEF InExec
  <2> QED
    BY <1>2, <1>4, <1>5, <1>6, <2>1, <2>2, <2>3, <2>4, ProgramMoves
<1>7. /\ prog[me].user_pd \in Dirs \cup {BootDir} /\ prog[me].space \in Dirs \cup {BootDir}
      /\ cur_dir \in Dirs \cup {BootDir}
      /\ prog[me].pc \in {"switch", "cr3", "register"} => prog[me].user_pd \in Dirs
  <2>1. n \in 1 .. n
    BY <1>4
  <2>2. prog[me].pc \in {"switch", "cr3", "register"} => prog[me].user_pd \in Dirs
    BY <1>2, <1>4, <2>1 DEF IsChain, ChainSteps
  <2> QED
    BY <1>4, <2>2, ExecTypes DEF Locals, TypeOK
<1>8. CASE exec_thread_entry
  <2>1. prog' = [prog EXCEPT ![me] = [prog[me] EXCEPT !.pc = "release", !.image = staging,
                   !.user_pd = prog[me].user_pd, !.space = prog[me].space]]
    BY <1>4, <1>8, ExecTypes DEF exec_thread_entry, Locals
  <2> QED
    BY <1>6, <1>7, <1>8, <2>1 DEF exec_thread_entry
<1>9. ASSUME NEW d \in Dirs, elf_clone(d) PROVE ChainExists' /\ prog' \in [Tids -> Locals]
  <2>1. prog' = [prog EXCEPT ![me] = [prog[me] EXCEPT !.pc = "switch", !.image = prog[me].image,
                   !.user_pd = d, !.space = prog[me].space]]
    BY <1>4, <1>9, ExecTypes DEF elf_clone, Locals
  <2> QED
    BY <1>6, <1>7, <2>1
<1>10. CASE elf_load
  <2>1. prog' = [prog EXCEPT ![me] = [prog[me] EXCEPT !.pc = "ring3", !.image = prog[me].image,
                   !.user_pd = prog[me].user_pd, !.space = cur_dir]]
    BY <1>4, <1>10, ExecTypes DEF elf_load, Locals
  <2> QED
    BY <1>6, <1>7, <2>1
\* The steps that only go to the next point.
<1>11. ASSUME NEW to \in After \ {"release"}, prog' = [prog EXCEPT ![me].pc = to],
              to \in {"switch", "cr3", "register"} => prog[me].pc \in {"switch", "cr3", "register"}
       PROVE  ChainExists' /\ prog' \in [Tids -> Locals]
  <2>1. prog' = [prog EXCEPT ![me] = [prog[me] EXCEPT !.pc = to, !.image = prog[me].image,
                   !.user_pd = prog[me].user_pd, !.space = prog[me].space]]
    BY <1>4, <1>11, ExecTypes DEF Locals
  <2>2. /\ to \in After /\ to # "release"
        /\ prog[me].image \in {prog[me].image, staging}
        /\ to \in {"switch", "cr3", "register"} => prog[me].user_pd \in Dirs
    BY <1>7, <1>11
  <2> HIDE DEF After
  <2> QED
    BY <1>6, <1>7, <2>1, <2>2
<1>12. CASE exec_thread_release \/ user_shell_thread
  <2>1. prog' = [prog EXCEPT ![me].pc = "clone"]
    BY <1>12 DEF exec_thread_release, user_shell_thread
  <2>2. "clone" \in After \ {"release"} /\ "clone" \notin {"switch", "cr3", "register"}
    OBVIOUS
  <2> QED
    BY <1>11, <2>1, <2>2
<1>13. CASE elf_switch
  BY <1>11, <1>13 DEF elf_switch
<1>14. CASE elf_cr3
  BY <1>11, <1>14 DEF elf_cr3
<1>15. CASE elf_register
  BY <1>11, <1>15 DEF elf_register
<1>16. CASE elf_load_fail
  BY <1>11, <1>16 DEF elf_load_fail
<1>17. CASE elf_undo
  BY <1>11, <1>17 DEF elf_undo
<1>18. CASE elf_undo_cr3
  BY <1>11, <1>18 DEF elf_undo_cr3
<1> QED
  BY <1>8, <1>9, <1>10, <1>12, <1>13, <1>14, <1>15, <1>16, <1>17, <1>18

\* kmain starts the shell: the chain gets its first member.
LEMMA ShellStarts ==
  ASSUME ExecIInv, launch_shell
  PROVE  ChainExists' /\ prog' \in [Tids -> Locals]
<1>1. PICK t \in Tids, s \in Stacks :
        /\ kcreate_thread(t, s)
        /\ prog' = [prog EXCEPT ![t] = Born("shell", NULL), ![me].pc = "idle"]
  BY DEF launch_shell
<1>2. /\ me = 0 /\ current_tid = 0 /\ current_pid = 0
      /\ pthreads[0] = <<0>> /\ pstate[0] = "RUNNING"
      /\ \A u \in Tids \ {0} : ~Alive(u)
  <2>1. At("boot") /\ me \in Tids
    BY ExecTypes DEF launch_shell, me
  <2>2. me = 0
    BY <2>1 DEF At, ExecIInv, Booting
  <2> QED
    BY <2>1, <2>2 DEF At, me, ExecIInv, Booting
<1>3. /\ tstate[t] = "UNUSED" /\ t # 0
      /\ tstate' = [tstate EXCEPT ![t] = "READY"]
      /\ tpid' = [tpid EXCEPT ![t] = 0]
      /\ pstate' = pstate
      /\ pthreads' = [pthreads EXCEPT ![0] = Append(@, t)] \/ pthreads' = pthreads
  <2>1. tstate[0] = "RUNNING"
    BY <1>1, <1>2 DEF kcreate_thread, CanCall
  <2> QED
    BY <1>1, <1>2, <2>1 DEF kcreate_thread, StartThread, alloc_thread_slot
<1>4. Born("shell", NULL) \in Locals
  BY ExecTypes DEF Born, Locals, Points
<1>5. prog' \in [Tids -> Locals] /\ prog'[t] = Born("shell", NULL)
  <2>1. [prog[0] EXCEPT !.pc = "idle"] \in Locals
    <3>1. prog[0] \in Locals
      BY ExecTypes
    <3> QED
      BY <3>1 DEF Locals, Points
  <2>2. prog' = [prog EXCEPT ![t] = Born("shell", NULL), ![0] = [prog[0] EXCEPT !.pc = "idle"]]
    BY <1>1, <1>2, <1>3, ExecTypes
  <2> QED
    BY <1>3, <1>4, <2>1, <2>2, ExecTypes
<1> DEFINE ch == [i \in 1 .. 1 |-> t]
<1>6. /\ ch \in [1 .. 1 -> Tids \ {0}] /\ ch[1] = t
      /\ \A i \in 1 .. 1 : i = 1 /\ ch[i] = t
      /\ 1 .. 1 - 1 = {} /\ 2 .. 1 = {}
  BY <1>3
<1> HIDE DEF ch
<1>7. ChainMembers(1, ch)'
  <2>1. \A u \in Tids \ {0} : Alive(u)' <=> u = t
    BY <1>2, <1>3, ExecTypes DEF Alive
  <2>2. 1 \in 1 .. 1
    OBVIOUS
  <2> QED
    BY <1>6, <2>1, <2>2 DEF ChainMembers, InChain
<1>8. ChainWaits(1, ch)'
  BY <1>6 DEF ChainWaits
<1>9. ChainProcesses(1, ch)'
  <2>1. \A i \in DOMAIN pthreads'[0] : pthreads'[0][i] \in {0, t}
    <3>1. pthreads'[0] = <<0>> \/ pthreads'[0] = Append(<<0>>, t)
      BY <1>2, <1>3, ExecTypes
    <3>2. DOMAIN Append(<<0>>, t) = 1 .. 2 /\ Append(<<0>>, t)[1] = 0 /\ Append(<<0>>, t)[2] = t
      <4>1. <<0>> \in Seq(Tids) /\ Len(<<0>>) = 1
        BY ExecTypes
      <4> QED
        BY <4>1
    <3> QED
      BY <3>1, <3>2
  <2> QED
    BY <1>2, <1>3, <1>6, <2>1, ExecTypes DEF ChainProcesses
<1>10. ChainHandsDown(1, ch)'
  BY <1>5, <1>6 DEF ChainHandsDown, Born
<1>11. ChainArgs(1, ch)'
  BY <1>5, <1>6 DEF ChainArgs, Born, InExec
<1>12. ChainSteps(1, ch)'
  BY <1>5, <1>6 DEF ChainSteps, Born
<1> QED
  BY <1>5, <1>6, <1>7, <1>8, <1>9, <1>10, <1>11, <1>12 DEF IsChain, ChainExists

\* The current program leaves its exec path, or ends its process: it was the
\* last one.
LEMMA ProgramEnds ==
  ASSUME ExecIInv, elf_fail \/ program_exit
  PROVE  ChainExists' /\ prog' \in [Tids -> Locals]
<1> USE DEF vars, tables, procs, At, Goto, ElfStep
<1>1. PICK n \in Nat : \E ch \in [1 .. n -> Tids \ {0}] : IsChain(n, ch)
  BY DEF ExecIInv, ChainExists
<1>2. PICK ch \in [1 .. n -> Tids \ {0}] : IsChain(n, ch)
  BY <1>1
<1>3. PICK pc \in {"fail", "clone", "ring3"} : At(pc)
  BY DEF elf_fail, program_exit
<1>4. /\ n > 0 /\ me = ch[n] /\ me \in Tids \ {0} /\ prog[me] \in Locals
      /\ prog[me].pc = pc /\ n \in 1 .. n
  BY <1>2, <1>3, CallerInChain DEF Points
<1>5. /\ prog' = [prog EXCEPT ![me].pc = "dead"]
      /\ UNCHANGED <<tpid, pthreads, args, staging>>
  BY DEF elf_fail, program_exit, kthread_exit, kprocess_exit
<1>6. [prog[me] EXCEPT !.pc = "dead"] \in Locals
  BY <1>4 DEF Locals, Points
<1>7. prog' \in [Tids -> Locals] /\ \A t \in Tids : t # ch[n] => prog'[t] = prog[t]
  BY <1>4, <1>5, <1>6, ExecTypes
<1>8. CASE elf_fail
  <2>1. tstate' = [t \in Tids |-> IF t \in {me} THEN "ZOMBIE" ELSE tstate[t]] /\ pstate' = pstate
    BY <1>8 DEF elf_fail, kthread_exit, Terminate, me
  <2>2. \A t \in Tids \ {0} : Alive(t)' <=> Alive(t) /\ t # ch[n]
    BY <1>4, <2>1 DEF Alive
  <2> QED
    BY <1>2, <1>4, <1>5, <1>7, <2>1, <2>2, LastEnds
<1>9. ASSUME program_exit PROVE ChainExists'
  <2>1. /\ tstate' = [t \in Tids |-> IF t \in Listed(current_pid) THEN "ZOMBIE" ELSE tstate[t]]
        /\ pstate' = [pstate EXCEPT ![current_pid] = "UNUSED"]
        /\ current_pid = tpid[me]
    BY <1>4, <1>9 DEF program_exit, kprocess_exit, Terminate, ExecIInv, Booting, me
  <2>2. Alive(me) /\ tstate[me] # "UNUSED"
    BY <1>3 DEF CanCall, Alive, me
  <2>3. CASE me \in Listed(current_pid)
    <3>1. \A t \in Tids \ {0} : t \in Listed(current_pid) => t = me
      <4>1. CASE n = 1
        <5>1. \A i \in DOMAIN pthreads[current_pid] : pthreads[current_pid][i] \in {0, me}
          BY <1>2, <1>4, <2>1, <4>1 DEF IsChain, ChainProcesses
        <5> QED
          BY <5>1 DEF Listed
      <4>2. CASE n # 1
        <5>1. pthreads[current_pid] = <<me>>
          <6>1. n \in 2 .. n
            BY <1>4, <4>2
          <6> QED
            BY <1>2, <1>4, <2>1, <6>1 DEF IsChain, ChainProcesses
        <5> QED
          BY <5>1 DEF Listed
      <4> QED
        BY <4>1, <4>2
    <3>2. \A t \in Tids \ {0} : Alive(t)' <=> Alive(t) /\ t # ch[n]
      BY <1>4, <2>1, <2>3, <3>1 DEF Alive
    <3>3. \A p \in Pids : p # tpid[ch[n]] => pstate'[p] = pstate[p]
      BY <1>4, <2>1, ExecTypes
    <3> QED
      BY <1>2, <1>4, <1>5, <1>7, <3>2, <3>3, LastEnds
  \* The shell is not listed by process 0: it stays in the hlt loop for ever.
  <2>4. CASE me \notin Listed(current_pid)
    <3>1. n = 1 /\ current_pid = 0
      <4>1. ASSUME n # 1 PROVE FALSE
        <5>1. pthreads[current_pid] = <<me>>
          <6>1. n \in 2 .. n
            BY <1>4, <4>1
          <6> QED
            BY <1>2, <1>4, <2>1, <6>1 DEF IsChain, ChainProcesses
        <5> QED
          BY <1>4, <2>2, <2>4, <5>1 DEF Listed
      <4> QED
        BY <1>2, <1>4, <2>1, <4>1 DEF IsChain, ChainProcesses
    <3>2. /\ prog'[ch[1]].pc = "dead" /\ prog'[ch[1]].image = prog[ch[1]].image
          /\ prog'[ch[1]].kargs = prog[ch[1]].kargs /\ prog[ch[1]].kargs = NULL
      <4>1. prog[me].kargs = NULL
        BY <1>2, <1>4 DEF IsChain, ChainArgs, InExec
      <4> QED
        BY <1>4, <1>5, <3>1, <4>1, ExecTypes DEF Locals
    <3>3. \A t \in Tids \ {0} : Alive(t)' <=> Alive(t)
      <4>1. \A t \in Tids \ {0} : t \notin Listed(current_pid)
        <5>1. \A i \in DOMAIN pthreads[0] : pthreads[0][i] \in {0, me}
          BY <1>2, <1>4, <3>1 DEF IsChain, ChainProcesses
        <5> QED
          BY <2>4, <3>1, <5>1 DEF Listed
      <4> QED
        BY <2>1, <4>1 DEF Alive
    <3>4. \A i \in 1 .. 1 : i = 1
      OBVIOUS
    <3>5. ChainMembers(1, ch)'
      BY <1>2, <3>1, <3>3 DEF IsChain, ChainMembers, InChain
    <3>6. ChainWaits(1, ch)' /\ ChainSteps(1, ch)'
      BY <3>2, <3>4 DEF ChainWaits, ChainSteps
    <3>7. ChainProcesses(1, ch)' /\ ChainHandsDown(1, ch)'
      BY <1>2, <1>5, <3>1, <3>2 DEF IsChain, ChainProcesses, ChainHandsDown
    <3>8. ChainArgs(1, ch)'
      BY <3>2, <3>4 DEF ChainArgs, InExec
    <3> QED
      BY <3>1, <3>5, <3>6, <3>7, <3>8 DEF IsChain, ChainExists
  <2> QED
    BY <2>3, <2>4
<1> QED
  BY <1>7, <1>8, <1>9

\* A process for the program to execute, and the parent's look-up of its thread.
LEMMA ProgramCreated ==
  ASSUME ExecIInv, sys_exec_create \/ sys_exec_tid
  PROVE  ChainExists' /\ prog' \in [Tids -> Locals]
<1>1. PICK n \in Nat : \E ch \in [1 .. n -> Tids \ {0}] : IsChain(n, ch)
  BY DEF ExecIInv, ChainExists
<1>2. PICK ch \in [1 .. n -> Tids \ {0}] : IsChain(n, ch)
  BY <1>1
<1>3. CASE sys_exec_create
  <2>1. At("create")
    BY <1>3 DEF sys_exec_create
  <2>2. n > 0 /\ me = ch[n] /\ me \in Tids /\ prog[me] \in Locals /\ prog[me].pc = "create"
    BY <1>2, <2>1, CallerInChain DEF Points, At
  <2>3. PICK p \in Pids, t \in Tids, s \in Stacks : kcreate_process(p, t, s) /\ Begets(p, t)
    BY <1>3, Zenon DEF sys_exec_create, Begets
  <2>4. ChainExists'
    BY <1>2, <2>2, <2>3, ChainGrows
  <2>5. prog' \in [Tids -> Locals]
    <3>1. Born("entry", prog[me].kargs) \in Locals
      BY <2>2, ExecTypes DEF Born, Locals, Points
    <3>2. [prog[me] EXCEPT !.pc = "tid", !.child_pid = p] \in Locals
      BY <2>2, <2>3 DEF Locals, Points
    <3>3. t # me
      BY <2>1, <2>3 DEF At, CanCall, me, kcreate_process, alloc_thread_slot
    <3>4. prog' = [prog EXCEPT ![t] = Born("entry", prog[me].kargs),
                              ![me] = [prog[me] EXCEPT !.pc = "tid", !.child_pid = p]]
      BY <2>2, <2>3, <3>3, ExecTypes DEF Begets
    <3> QED
      BY <2>2, <3>1, <3>2, <3>4, ExecTypes
  <2> QED
    BY <2>4, <2>5
<1>4. CASE sys_exec_tid
  <2>1. At("tid")
    BY <1>4 DEF sys_exec_tid
  <2>2. me \in Tids /\ prog[me] \in Locals
    BY <1>2, <2>1, CallerInChain DEF Points
  <2>3. PICK k \in 1 .. n : me = ch[k]
    BY <1>2, <2>1, CallerInChain DEF Points
  <2>4. IsChain(n, ch)' /\ Head(pthreads[prog[me].child_pid]) \in Tids
    BY <1>2, <1>4, <2>3, ParentLooksUp
  <2>5. prog' \in [Tids -> Locals]
    <3> DEFINE r == [prog[me] EXCEPT !.pc = "wait", !.child_tid = Head(pthreads[prog[me].child_pid])]
    <3>1. r \in Locals
      BY <2>2, <2>4 DEF Locals, Points
    <3>2. prog' = [prog EXCEPT ![me] = r]
      BY <1>4, <2>2, ExecTypes DEF sys_exec_tid
    <3> QED
      BY <2>2, <3>1, <3>2, ExecTypes
  <2> QED
    BY <2>4, <2>5 DEF ChainExists
<1> QED
  BY <1>3, <1>4

\* The programs that live form a chain for ever.
LEMMA ChainKept ==
  ASSUME ExecIInv, ExecNext
  PROVE  ChainExists' /\ prog' \in [Tids -> Locals]
<1>1. CASE timer
  <2>1. scheduler_tick /\ UNCHANGED <<tpid, pstate, pthreads, prog, staging, args>>
    BY <1>1 DEF timer, execVars, scheduler_tick, TickOnly, TickIdle, TickSame, TickSwitch,
                Reschedule, tables, procs
  <2>2. \A t \in Tids \ {0} : Alive(t)' <=> Alive(t)
    BY <2>1, TimerKeepsAlive, ExecTypes
  <2>3. PICK n \in Nat : \E ch \in [1 .. n -> Tids \ {0}] : IsChain(n, ch)
    BY DEF ExecIInv, ChainExists
  <2>4. PICK ch \in [1 .. n -> Tids \ {0}] : IsChain(n, ch)
    BY <2>3
  <2> QED
    BY <2>1, <2>2, <2>4, ChainRests, ExecTypes DEF ChainExists
<1>2. CASE KernelStep
  BY <1>2, ShellStarts, ExecPrepares, ProgramCreated, ExecReturnsOrFails, ProgramStarts, ProgramEnds
     DEF KernelStep
<1>3. CASE UserStep
  BY <1>3, ExecPrepares, ProgramEnds DEF UserStep
<1> QED
  BY <1>1, <1>2, <1>3 DEF ExecNext

-----------------------------------------------------------------------------
(***************************************************************************)
(* Every step is one of the scheduler's, apart from the write of TSS.esp0  *)
(* by elf_load.                                                            *)
(***************************************************************************)

\* A step of sys_exec keeps the scheduler's invariant.
LEMMA SchedulerKept ==
  ASSUME ExecIInv, ExecNext
  PROVE  IInv'
<1> USE DEF tables, procs, cpu
<1>1. IInv /\ TypeOK /\ me \in Tids /\ prog \in [Tids -> Locals]
  BY ExecTypes DEF me
<1>2. prog[me] \in Locals /\ prog[me].user_pd \in Dirs \cup {BootDir}
  BY <1>1 DEF Locals
<1>3. ASSUME Next \/ UNCHANGED vars PROVE IInv'
  BY <1>1, <1>3, NextInv
<1>4. CASE timer
  BY <1>3, <1>4 DEF timer, Next
<1>5. CASE \/ \E a \in Args : sys_exec_copy(a)
           \/ sys_exec_test \/ sys_exec_take \/ sys_exec_stage \/ sys_exec_tid \/ sys_exec_return
           \/ exec_thread_entry \/ exec_thread_release \/ user_shell_thread
           \/ (\E d \in Dirs : elf_clone(d)) \/ elf_load_fail
  <2>1. UNCHANGED vars
    BY <1>5 DEF sys_exec_copy, sys_exec_test, sys_exec_take, sys_exec_stage, sys_exec_tid,
                sys_exec_return, exec_thread_entry, exec_thread_release, user_shell_thread,
                elf_clone, elf_load_fail
  <2> QED
    BY <1>3, <2>1
<1>6. CASE launch_shell
  BY <1>3, <1>6 DEF launch_shell, Next, Calls
<1>7. CASE sys_exec_create
  BY <1>3, <1>7 DEF sys_exec_create, Next, Calls
<1>8. CASE sys_exec_create_fail
  BY <1>3, <1>8 DEF sys_exec_create_fail, Next, Calls
<1>9. CASE elf_switch \/ elf_cr3
  BY <1>2, <1>3, <1>9 DEF elf_switch, elf_cr3, Next, Calls
<1>10. CASE elf_register
  <2>1. prog[me].user_pd \in Dirs
    <3>1. At("register")
      BY <1>10 DEF elf_register, ElfStep
    <3>2. PICK n \in Nat : \E ch \in [1 .. n -> Tids \ {0}] : IsChain(n, ch)
      BY DEF ExecIInv, ChainExists
    <3>3. PICK ch \in [1 .. n -> Tids \ {0}] : IsChain(n, ch)
      BY <3>2
    <3>4. \E i \in 1 .. n : ch[i] = me
      BY <3>1, <3>3, CallerInChain DEF Points
    <3> QED
      BY <3>1, <3>3, <3>4 DEF IsChain, ChainSteps, At
  <2> QED
    BY <1>3, <1>10, <2>1 DEF elf_register, Next, Calls
<1>11. CASE elf_undo \/ elf_undo_cr3
  BY <1>3, <1>11 DEF elf_undo, elf_undo_cr3, Next, Calls
<1>12. CASE elf_fail \/ program_exit
  BY <1>3, <1>12 DEF elf_fail, program_exit, Next, Calls
<1>13. CASE elf_load
  <2>1. /\ UNCHANGED <<tables, procs, current, clock, cleanup_pool, heap, cpu_esp, cpu_cr3,
                       cur_dir, halted>>
        /\ tss_esp0' = KernelStackOf(me)
    BY <1>13 DEF elf_load
  <2>2. TypeOK'
    BY <1>1, <2>1 DEF TypeOK, KernelStackOf, current, clock
  <2>3. StackOwnership' /\ ZombiesQueued' /\ CurrentThread'
    BY <1>1, <2>1 DEF IInv, StackOwnership, ZombiesQueued, CurrentThread, current
  <2>4. PoolEntries' /\ StackHolders' /\ SavedContexts' /\ CpuOnCurrentStack'
    BY <1>1, <2>1 DEF IInv, PoolEntries, StackHolders, SavedContexts, CpuOnCurrentStack, current
  <2> QED
    BY <2>2, <2>3, <2>4 DEF IInv
<1> QED
  BY <1>4, <1>5, <1>6, <1>7, <1>8, <1>9, <1>10, <1>11, <1>12, <1>13
     DEF ExecNext, KernelStep, UserStep

\* The calls and the program points between them keep to their types.
LEMMA ExecTypeKept ==
  ASSUME ExecIInv, ExecNext
  PROVE  ExecTypeOK'
<1>1. /\ busy \in BOOLEAN /\ staging \in Args \cup {NULL} /\ args \in SUBSET Args
      /\ dirs \in SUBSET Dirs /\ prog \in [Tids -> Locals] /\ me \in Tids
  BY ExecTypes DEF ExecTypeOK, me
<1>2. prog[me].kargs \in Args \cup {NULL}
  BY <1>1 DEF Locals
<1>3. prog' \in [Tids -> Locals]
  BY ChainKept
<1>4. busy' \in BOOLEAN /\ staging' \in Args \cup {NULL}
  BY <1>1, <1>2 DEF ExecNext, KernelStep, UserStep, timer, execVars, launch_shell, sys_exec_copy,
     sys_exec_test, sys_exec_take, sys_exec_stage, sys_exec_create, sys_exec_create_fail,
     sys_exec_tid, sys_exec_return, exec_thread_entry, exec_thread_release, user_shell_thread,
     elf_clone, elf_switch, elf_cr3, elf_register, elf_load, elf_load_fail, elf_undo, elf_undo_cr3,
     elf_fail, program_exit, ElfStep
<1>5. args' \in SUBSET Args /\ dirs' \in SUBSET Dirs
  BY <1>1, <1>2 DEF ExecNext, KernelStep, UserStep, timer, execVars, launch_shell, sys_exec_copy,
     sys_exec_test, sys_exec_take, sys_exec_stage, sys_exec_create, sys_exec_create_fail,
     sys_exec_tid, sys_exec_return, exec_thread_entry, exec_thread_release, user_shell_thread,
     elf_clone, elf_switch, elf_cr3, elf_register, elf_load, elf_load_fail, elf_undo, elf_undo_cr3,
     elf_fail, program_exit, ElfStep, FreeArgsAndReturn
<1> QED
  BY <1>3, <1>4, <1>5 DEF ExecTypeOK

\* What a step that neither creates a thread nor is the timer's does to the
\* program points.
LEMMA OnlyCallerMoves ==
  ASSUME ExecIInv, ExecNext, ~timer, ~launch_shell, ~sys_exec_create
  PROVE  /\ me # 0 /\ UNCHANGED <<current, tpid>>
         /\ \A t \in Tids : t # me => prog'[t] = prog[t]
         /\ prog'[me].pc \notin {"boot", "idle"}
<1> USE DEF vars, tables, procs, cpu, ElfStep, Goto
<1>1. me \in Tids /\ prog \in [Tids -> Locals] /\ prog[me] \in Locals
  BY ExecTypes DEF me
<1>2. ASSUME NEW pc \in Points \ {"boot", "idle"}, At(pc) PROVE me # 0
  BY <1>2 DEF At, ExecIInv, Booting
<1>3. CASE \/ \E a \in Args : sys_exec_copy(a)
           \/ sys_exec_test \/ sys_exec_take \/ sys_exec_stage \/ sys_exec_tid \/ sys_exec_return
           \/ sys_exec_create_fail
  <2>1. \E pc \in {"ring3", "lock", "take", "stage", "create", "tid", "wait"} : At(pc)
    BY <1>3 DEF sys_exec_copy, sys_exec_test, sys_exec_take, sys_exec_stage, sys_exec_tid,
                sys_exec_return, sys_exec_create_fail
  <2>2. me # 0
    BY <1>2, <2>1 DEF Points
  <2>3. UNCHANGED <<current, tpid>>
    BY <1>3 DEF sys_exec_copy, sys_exec_test, sys_exec_take, sys_exec_stage, sys_exec_tid,
                sys_exec_return, sys_exec_create_fail, kcreate_process_fail
  <2>4. \E to \in {"lock", "take", "stage", "create", "wait", "ring3"}, r \in Locals :
          prog' = [prog EXCEPT ![me] = r] /\ r.pc = to
    <3>1. prog' = [prog EXCEPT ![me] = prog'[me]]
      BY <1>1, <1>3 DEF sys_exec_copy, sys_exec_test, sys_exec_take, sys_exec_stage, sys_exec_tid,
                sys_exec_return, sys_exec_create_fail, FreeArgsAndReturn
    <3>2. prog'[me] \in Locals
      BY <1>1, ChainKept
    <3>3. prog'[me].pc \in {"lock", "take", "stage", "create", "wait", "ring3"}
      BY <1>1, <1>3 DEF Locals, sys_exec_copy, sys_exec_test, sys_exec_take, sys_exec_stage,
                sys_exec_tid, sys_exec_return, sys_exec_create_fail, FreeArgsAndReturn
    <3> QED
      BY <3>1, <3>2, <3>3
  <2> QED
    BY <1>1, <2>2, <2>3, <2>4
<1>4. CASE \/ exec_thread_entry \/ exec_thread_release \/ user_shell_thread
           \/ (\E d \in Dirs : elf_clone(d))
           \/ elf_switch \/ elf_cr3 \/ elf_register
           \/ elf_load \/ elf_load_fail \/ elf_undo \/ elf_undo_cr3 \/ elf_fail
           \/ program_exit
  <2>1. \E pc \in {"entry", "release", "shell", "clone", "switch", "cr3", "register", "load",
                    "undo", "undo_cr3", "fail", "ring3"} : At(pc)
    BY <1>4 DEF exec_thread_entry, exec_thread_release, user_shell_thread, elf_clone, elf_switch,
                elf_cr3, elf_register, elf_load, elf_load_fail, elf_undo, elf_undo_cr3, elf_fail,
                program_exit
  <2>2. me # 0
    BY <1>2, <2>1 DEF Points
  <2>3. UNCHANGED <<current, tpid>>
    BY <1>4 DEF exec_thread_entry, exec_thread_release, user_shell_thread, elf_clone, elf_switch,
                elf_cr3, elf_register, elf_load, elf_load_fail, elf_undo, elf_undo_cr3, elf_fail,
                program_exit, vmm_switch_page_dir_ptr, vmm_switch_page_dir_cr3, kthread_set_cr3,
                kthread_exit, kprocess_exit
  <2>4. prog' = [prog EXCEPT ![me] = prog'[me]]
    BY <1>1, <1>4 DEF exec_thread_entry, exec_thread_release, user_shell_thread, elf_clone,
                elf_switch, elf_cr3, elf_register, elf_load, elf_load_fail, elf_undo, elf_undo_cr3,
                elf_fail, program_exit
  <2>5. prog'[me].pc \notin {"boot", "idle"}
    BY <1>1, <1>4 DEF Locals, exec_thread_entry, exec_thread_release, user_shell_thread, elf_clone,
                elf_switch, elf_cr3, elf_register, elf_load, elf_load_fail, elf_undo, elf_undo_cr3,
                elf_fail, program_exit
  <2> QED
    BY <1>1, <2>2, <2>3, <2>4, <2>5
<1> QED
  BY <1>3, <1>4 DEF ExecNext, KernelStep, UserStep

\* kmain's thread never leaves its own program points, and the current
\* process stays the current thread's.
LEMMA BootingKept ==
  ASSUME ExecIInv, ExecNext
  PROVE  Booting'
<1> USE DEF tables, procs, cpu
<1>1. /\ IInv /\ TypeOK /\ 0 \in Tids /\ me \in Tids /\ prog \in [Tids -> Locals] /\ Booting
      /\ tpid \in [Tids -> Pids] /\ tstate \in [Tids -> ThreadStates]
  BY ExecTypes DEF ExecIInv, me
<1>2. CASE timer
  <2>1. scheduler_tick /\ UNCHANGED <<prog, tpid, pstate, pthreads>>
    BY <1>2 DEF timer, execVars, scheduler_tick, TickOnly, TickIdle, TickSame, TickSwitch,
                Reschedule
  <2>2. \A t \in Tids : Alive(t)' <=> Alive(t)
    BY <1>1, <2>1, TimerKeepsAlive
  <2>3. UNCHANGED current \/ \E n \in Tids : TickSwitch(n)
    BY <2>1 DEF scheduler_tick, TickOnly, TickIdle, TickSame
  <2>4. ASSUME NEW n \in Tids, TickSwitch(n)
        PROVE  /\ current_tid' = n /\ current_pid' = tpid[n] /\ n # current_tid /\ Alive(n)
    <3>1. Woken[n] \in {"READY", "RUNNING"}
      BY <2>4 DEF TickSwitch, IsNext, Runnable
    <3>2. Alive(n)
      BY <1>1, <3>1 DEF Woken, Alive
    <3> QED
      BY <2>4, <3>2 DEF TickSwitch
  <2>5. prog[0].pc = "boot" => UNCHANGED current
    BY <1>1, <2>3, <2>4 DEF Booting
  <2>6. current_tid' # 0 => current_pid' = tpid'[current_tid']
    BY <1>1, <2>1, <2>3, <2>4 DEF Booting, current
  <2> QED
    BY <1>1, <2>1, <2>2, <2>5, <2>6 DEF Booting, current
<1>3. ASSUME NEW p \in Pids, NEW t \in Tids, NEW s \in Stacks, alloc_thread_slot(t), StartThread(t, p, s)
      PROVE  t # 0 /\ t # me /\ UNCHANGED current /\ tpid' = [tpid EXCEPT ![t] = p]
  <2>1. tstate[t] = "UNUSED"
    BY <1>3 DEF alloc_thread_slot
  <2>2. tstate[0] # "UNUSED" /\ tstate[current_tid] # "UNUSED"
    BY <1>1 DEF IInv, StackHolders, CurrentThread
  <2> QED
    BY <1>3, <2>1, <2>2 DEF StartThread, me
<1>4. CASE launch_shell
  <2>1. PICK t \in Tids, s \in Stacks :
          /\ kcreate_thread(t, s)
          /\ prog' = [prog EXCEPT ![t] = Born("shell", NULL), ![me].pc = "idle"]
    BY <1>4 DEF launch_shell
  <2>2. t # 0 /\ t # me /\ UNCHANGED current /\ tpid' = [tpid EXCEPT ![t] = current_pid]
    BY <1>1, <1>3, <2>1 DEF kcreate_thread, TypeOK
  <2>3. me = 0
    BY <1>1, <1>4 DEF launch_shell, At, Booting
  <2>4. prog[0] \in Locals
    BY <1>1
  <2>5. prog'[0] = [prog[0] EXCEPT !.pc = "idle"] /\ prog'[t] = Born("shell", NULL)
    BY <1>1, <2>1, <2>2, <2>3
  <2>6. \A u \in Tids : u \notin {0, t} => prog'[u] = prog[u]
    BY <1>1, <2>1, <2>3
  <2>7. prog'[0].pc = "idle" /\ prog'[0].image = NULL /\ prog'[t].pc = "shell"
    BY <1>1, <2>4, <2>5 DEF Locals, Born, Booting
  <2>8. \A u \in Tids \ {0} : prog'[u].pc \notin {"boot", "idle"}
    BY <1>1, <2>6, <2>7 DEF Booting
  <2>9. current_tid' = 0
    BY <2>2, <2>3 DEF current, me
  <2> QED
    BY <2>7, <2>8, <2>9 DEF Booting
<1>5. CASE sys_exec_create
  <2>1. PICK p \in Pids, t \in Tids, s \in Stacks :
          /\ kcreate_process(p, t, s)
          /\ prog' = [prog EXCEPT ![t] = Born("entry", prog[me].kargs),
                                  ![me].pc = "tid", ![me].child_pid = p]
    BY <1>5 DEF sys_exec_create
  <2>2. t # 0 /\ t # me /\ UNCHANGED current /\ tpid' = [tpid EXCEPT ![t] = p]
    BY <1>1, <1>3, <2>1 DEF kcreate_process
  <2>3. me # 0 /\ prog[me] \in Locals
    BY <1>1, <1>5 DEF sys_exec_create, At, Booting
  <2>4. prog'[me] = [prog[me] EXCEPT !.pc = "tid", !.child_pid = p]
        /\ prog'[t] = Born("entry", prog[me].kargs)
    BY <1>1, <2>1, <2>2
  <2>5. prog'[me].pc = "tid" /\ prog'[t].pc = "entry"
    BY <2>3, <2>4 DEF Locals, Born
  <2>6. \A u \in Tids : u \notin {me, t} => prog'[u] = prog[u]
    BY <1>1, <2>1
  <2>7. prog[0].pc # "boot" /\ prog'[0] = prog[0]
    BY <1>1, <2>2, <2>3, <2>6 DEF Booting, me
  <2>8. \A u \in Tids \ {0} : prog'[u].pc \notin {"boot", "idle"}
    BY <1>1, <2>5, <2>6 DEF Booting
  <2>9. current_tid' # 0 => current_pid' = tpid'[current_tid']
    BY <1>1, <2>2, <2>3 DEF Booting, current, me
  <2> QED
    BY <1>1, <2>7, <2>8, <2>9 DEF Booting
<1>6. CASE ~timer /\ ~launch_shell /\ ~sys_exec_create
  <2>1. /\ me # 0 /\ UNCHANGED <<current, tpid>>
        /\ \A t \in Tids : t # me => prog'[t] = prog[t]
        /\ prog'[me].pc \notin {"boot", "idle"}
    BY <1>6, OnlyCallerMoves
  <2>2. prog[0].pc # "boot" /\ prog'[0] = prog[0]
    BY <1>1, <2>1 DEF Booting, me
  <2> QED
    BY <1>1, <2>1, <2>2 DEF Booting, current
<1> QED
  BY <1>2, <1>4, <1>5, <1>6

-----------------------------------------------------------------------------
(***************************************************************************)
(* The invariant, and what it says of the hand-over.                       *)
(***************************************************************************)

\* Before the shell there is no program.
LEMMA ExecInitInv == ExecInit => ExecIInv
<1> SUFFICES ASSUME ExecInit PROVE ExecIInv
  OBVIOUS
<1>1. 0 \in Tids /\ 0 \in Pids
  BY SchedulerAssumption DEF Tids, Pids
<1>2. IInv
  BY InitInv DEF ExecInit
<1>3. ExecTypeOK
  <2>1. Born("boot", NULL) \in Locals /\ Born("unborn", NULL) \in Locals
    BY <1>1 DEF Born, Locals, Points
  <2> QED
    BY <2>1 DEF ExecInit, ExecTypeOK
<1>4. prog[0] = Born("boot", NULL) /\ \A t \in Tids \ {0} : prog[t] = Born("unborn", NULL)
  BY <1>1 DEF ExecInit
<1>5. \A t \in Tids \ {0} : ~Alive(t)
  BY DEF ExecInit, Init, Alive
<1>6. Booting
  BY <1>1, <1>4, <1>5 DEF ExecInit, Init, Booting, Born
<1>7. ChainExists
  <2> DEFINE ch == [i \in 1 .. 0 |-> 0]
  <2>1. /\ ch \in [1 .. 0 -> Tids \ {0}] /\ 1 .. 0 = {} /\ 2 .. 0 = {} /\ 1 .. 0 - 1 = {}
        /\ 0 \in Nat
    OBVIOUS
  <2> HIDE DEF ch
  <2>2. IsChain(0, ch)
    BY <1>5, <2>1 DEF IsChain, ChainMembers, InChain, ChainWaits, ChainProcesses, ChainHandsDown,
                      ChainArgs, ChainSteps
  <2> QED
    BY <2>1, <2>2 DEF ChainExists
<1> QED
  BY <1>2, <1>3, <1>6, <1>7 DEF ExecIInv

\* A step that changes nothing the invariant speaks of.
LEMMA ExecStutters ==
  ASSUME ExecIInv, UNCHANGED xvars
  PROVE  ExecIInv'
<1>1. PICK n \in Nat : \E ch \in [1 .. n -> Tids \ {0}] : IsChain(n, ch)
  BY DEF ExecIInv, ChainExists
<1>2. PICK ch \in [1 .. n -> Tids \ {0}] : IsChain(n, ch)
  BY <1>1
<1>3. UNCHANGED <<vars, tstate, tpid, pstate, pthreads, current_tid, current_pid, prog, staging,
                  args, busy, dirs>>
  BY DEF xvars, execVars, vars, tables, procs, current
<1>4. IInv'
  BY <1>3, NextInv DEF ExecIInv
<1>5. IsChain(n, ch)'
  BY <1>2, <1>3, ChainRests DEF Alive
<1> QED
  BY <1>3, <1>4, <1>5 DEF ExecIInv, ExecTypeOK, Booting, ChainExists, Alive

\* The programs that live form a chain, each the waiting parent of the next,
\* from which everything below follows.
THEOREM ExecInvariant == ExecSpec => []ExecIInv
<1>1. ExecIInv /\ [ExecNext]_xvars => ExecIInv'
  BY SchedulerKept, ExecTypeKept, BootingKept, ChainKept, ExecStutters DEF ExecIInv
<1> QED
  BY ExecInitInv, <1>1, PTL DEF ExecSpec

\* What sys_exec hands over is sound: the child executes what its own parent
\* staged, its path and arguments are not freed before it has read them, and no
\* two programs are in ring 3.  Neither the test and set of the staging lock in
\* two steps nor preemption between any two steps can break it, because a
\* parent is inside sys_exec whenever its child is alive.
THEOREM HandoverIsSound == ExecSpec => []HandoverSound
<1>1. ExecIInv => HandoverSound
  <2> SUFFICES ASSUME ExecIInv PROVE HandoverSound
    OBVIOUS
  <2>1. PICK n \in Nat : \E ch \in [1 .. n -> Tids \ {0}] : IsChain(n, ch)
    BY DEF ExecIInv, ChainExists
  <2>2. PICK ch \in [1 .. n -> Tids \ {0}] : IsChain(n, ch)
    BY <2>1
  <2>3. prog[0].pc \in {"boot", "idle"} /\ prog[0].image = NULL
    BY DEF ExecIInv, Booting
  <2>4. ASSUME NEW t \in Tids, Alive(t), t # 0
        PROVE  \E i \in 1 .. n : ch[i] = t
    BY <2>2, <2>4 DEF IsChain, ChainMembers, InChain
  <2>5. StagingHandoff
    <3> SUFFICES ASSUME NEW t \in Tids, Alive(t), prog[t].image # NULL
                 PROVE  prog[t].image = prog[t].wanted
      BY DEF StagingHandoff
    <3>1. PICK i \in 1 .. n : ch[i] = t
      BY <2>3, <2>4
    <3>2. i \in 2 .. n
      BY <2>2, <3>1 DEF IsChain, ChainHandsDown
    <3> QED
      BY <2>2, <3>1, <3>2 DEF IsChain, ChainHandsDown
  <2>6. ArgsAlive
    <3> SUFFICES ASSUME NEW t \in Tids, Alive(t), prog[t].image # NULL
                 PROVE  prog[t].image \in args
      BY DEF ArgsAlive
    <3>1. PICK i \in 1 .. n : ch[i] = t
      BY <2>3, <2>4
    <3>2. i \in 2 .. n /\ i - 1 \in 1 .. n /\ i - 1 \in 1 .. n - 1
      BY <2>2, <3>1 DEF IsChain, ChainHandsDown
    <3>3. prog[t].image = prog[ch[i - 1]].kargs
      BY <2>2, <3>1, <3>2 DEF IsChain, ChainHandsDown
    <3>4. prog[ch[i - 1]].pc \in {"tid", "wait"}
      BY <2>2, <3>2 DEF IsChain, ChainWaits
    <3> QED
      BY <2>2, <3>2, <3>3, <3>4 DEF IsChain, ChainArgs, InExec
  <2>7. ParentWaits
    <3> SUFFICES ASSUME NEW t \in Tids, NEW c \in Tids, Alive(t), Alive(c),
                        prog[t].pc = "ring3", prog[c].pc = "ring3"
                 PROVE  t = c
      BY DEF ParentWaits
    <3>1. PICK i \in 1 .. n : ch[i] = t
      BY <2>3, <2>4
    <3>2. PICK j \in 1 .. n : ch[j] = c
      BY <2>3, <2>4
    <3>3. i = n /\ j = n
      <4>1. \A k \in 1 .. n : k = n \/ k \in 1 .. n - 1
        OBVIOUS
      <4> QED
        BY <2>2, <3>1, <3>2, <4>1 DEF IsChain, ChainWaits
    <3> QED
      BY <3>1, <3>2, <3>3
  <2> QED
    BY <2>5, <2>6, <2>7, ExecTypes DEF HandoverSound
<1> QED
  BY <1>1, ExecInvariant, PTL

=============================================================================
