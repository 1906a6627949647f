-------------------------------- MODULE Exec ---------------------------------
(***************************************************************************)
(* How ParinOS runs programs, on top of the scheduler: kmain starts the    *)
(* shell's thread, a program in ring 3 calls sys_exec, which passes path   *)
(* and arguments to the child through one global staging area, and the     *)
(* child builds its address space in elf_execute_in_ring3.                 *)
(*                                                                         *)
(* System calls run with interrupts on, so a timer interrupt may come      *)
(* between any two accesses to shared state: every such access is a step   *)
(* of its own.  The copied path and argv of one call are one block of      *)
(* Args; the strings are abstracted away.  As in Scheduler, X_Y before X   *)
(* is a faulty variant of X.                                               *)
(***************************************************************************)
EXTENDS Scheduler

CONSTANT Args   \* blocks that hold the path and argv copies of a sys_exec call

ASSUME ExecAssumption == NULL \notin Args

VARIABLES
  busy,     \* g_exec_staging_busy
  staging,  \* g_exec_staging
  args,     \* blocks allocated by sys_exec calls
  dirs,     \* page directories handed out; the code never frees one
  prog      \* where each thread is, and its local variables

execVars == <<busy, staging, args, dirs, prog>>
xvars == <<vars, execVars>>

\* Program points of a thread, in the order it goes through them.
Points == {"unborn",
           "boot", "idle",                                    \* kmain
           "shell", "entry", "release", "clone",              \* a new program
           "switch", "cr3", "register", "load",
           "ring3",
           "lock", "take", "stage", "create", "tid", "wait",  \* sys_exec
           "undo", "undo_cr3", "fail",                        \* a failed load
           "dead"}

Locals == [pc : Points,
           kargs : Args \cup {NULL},      \* kpath and kargv of its sys_exec call
           child_pid : Pids,
           child_tid : Tids,
           image : Args \cup {NULL},      \* what it was told to execute
           user_pd : Dirs \cup {BootDir}, \* its elf_execute_in_ring3's directory
           space : Dirs \cup {BootDir},   \* the directory its pages were mapped in
           wanted : Args \cup {NULL}]     \* history: what its parent staged for it

\* Every variable stays within its range.
ExecTypeOK ==
  /\ busy \in BOOLEAN
  /\ staging \in Args \cup {NULL}
  /\ args \in SUBSET Args
  /\ dirs \in SUBSET Dirs
  /\ prog \in [Tids -> Locals]

Born(pc, block) ==
  [pc |-> pc, kargs |-> NULL, child_pid |-> 0, child_tid |-> 0, image |-> NULL,
   user_pd |-> BootDir, space |-> BootDir, wanted |-> block]

ExecInit ==
  /\ Init
  /\ busy = FALSE
  /\ staging = NULL
  /\ args = {}
  /\ dirs = {}
  /\ prog = [t \in Tids |-> Born(IF t = 0 THEN "boot" ELSE "unborn", NULL)]

-----------------------------------------------------------------------------
me == current_tid

\* The current thread executes at program point pc.
At(pc) == CanCall /\ prog[me].pc = pc

Goto(pc) == prog' = [prog EXCEPT ![me].pc = pc]

\* launch_shell: one kernel thread, created by thread 0.
launch_shell ==
  /\ At("boot")
  /\ \E t \in Tids, s \in Stacks :
       /\ kcreate_thread(t, s)
       /\ prog' = [prog EXCEPT ![t] = Born("shell", NULL), ![me].pc = "idle"]
  /\ UNCHANGED <<busy, staging, args, dirs>>

-----------------------------------------------------------------------------
(***************************************************************************)
(* sys_exec, in the parent.                                                *)
(***************************************************************************)

\* Copy path and argv and check the file.  When a check or a kmalloc fails
\* the copies are freed again and the call returns: nothing has changed.
sys_exec_copy(a) ==
  /\ At("ring3")
  /\ a \notin args
  /\ args' = args \cup {a}
  /\ prog' = [prog EXCEPT ![me].pc = "lock", ![me].kargs = a]
  /\ UNCHANGED <<vars, busy, staging, dirs>>

\* "while (g_exec_staging_busy) kschedule();"
sys_exec_test ==
  /\ At("lock")
  /\ ~busy
  /\ Goto("take")
  /\ UNCHANGED <<vars, busy, staging, args, dirs>>

\* "g_exec_staging_busy = 1;"
sys_exec_take ==
  /\ At("take")
  /\ busy' = TRUE
  /\ Goto("stage")
  /\ UNCHANGED <<vars, staging, args, dirs>>

sys_exec_stage ==
  /\ At("stage")
  /\ staging' = prog[me].kargs
  /\ Goto("create")
  /\ UNCHANGED <<vars, busy, args, dirs>>

sys_exec_create ==
  /\ At("create")
  /\ \E p \in Pids, t \in Tids, s \in Stacks :
       /\ kcreate_process(p, t, s)
       /\ prog' = [prog EXCEPT ![t] = Born("entry", prog[me].kargs),
                               ![me].pc = "tid", ![me].child_pid = p]
  /\ UNCHANGED <<busy, staging, args, dirs>>

\* Free the copies and return to ring 3.
FreeArgsAndReturn ==
  /\ args' = args \ {prog[me].kargs}
  /\ prog' = [prog EXCEPT ![me].pc = "ring3", ![me].kargs = NULL]

\* kcreate_process returns -1: the lock is released too.
sys_exec_create_fail_KeepLock ==
  /\ At("create")
  /\ \/ \E p \in Pids : kcreate_process_fail(p)
     \/ (\A p \in Pids : pstate[p] # "UNUSED") /\ UNCHANGED vars
  /\ FreeArgsAndReturn
  /\ UNCHANGED <<busy, staging, dirs>>

sys_exec_create_fail ==
  /\ At("create")
  /\ \/ \E p \in Pids : kcreate_process_fail(p)
     \/ (\A p \in Pids : pstate[p] # "UNUSED") /\ UNCHANGED vars
  /\ busy' = FALSE
  /\ FreeArgsAndReturn
  /\ UNCHANGED <<staging, dirs>>

\* "child_tid = processes[child_pid].thread_ids[0];", interrupts on again.
sys_exec_tid ==
  /\ At("tid")
  /\ prog' = [prog EXCEPT ![me].pc = "wait",
                          ![me].child_tid = Head(pthreads[prog[me].child_pid])]
  /\ UNCHANGED <<vars, busy, staging, args, dirs>>

\* The condition of the loop that waits for the child.
ChildPending_NoThread == busy

ChildPending_AnyState == busy \/ tpid[prog[me].child_tid] = prog[me].child_pid

ChildPending ==
  \/ busy
  \/ /\ tstate[prog[me].child_tid] # "UNUSED"
     /\ tpid[prog[me].child_tid] = prog[me].child_pid

sys_exec_return ==
  /\ At("wait")
  /\ ~ChildPending
  /\ FreeArgsAndReturn
  /\ UNCHANGED <<vars, busy, staging, dirs>>

-----------------------------------------------------------------------------
(***************************************************************************)
(* exec_thread_entry and elf_execute_in_ring3, in the child.               *)
(***************************************************************************)
exec_thread_entry ==
  /\ At("entry")
  /\ prog' = [prog EXCEPT ![me].pc = "release", ![me].image = staging]
  /\ UNCHANGED <<vars, busy, staging, args, dirs>>

\* "g_exec_staging_busy = 0;"
exec_thread_release ==
  /\ At("release")
  /\ busy' = FALSE
  /\ Goto("clone")
  /\ UNCHANGED <<vars, staging, args, dirs>>

user_shell_thread ==
  /\ At("shell")
  /\ Goto("clone")
  /\ UNCHANGED <<vars, busy, staging, args, dirs>>

\* vmm_clone_kernel_dir gives the program a directory of its own.
elf_clone(d) ==
  /\ At("clone")
  /\ d \notin dirs
  /\ dirs' = dirs \cup {d}
  /\ prog' = [prog EXCEPT ![me].pc = "switch", ![me].user_pd = d]
  /\ UNCHANGED <<vars, busy, staging, args>>

\* The rest of elf_execute_in_ring3 touches no variable of sys_exec.
ElfStep(from, to) == At(from) /\ Goto(to) /\ UNCHANGED <<busy, staging, args, dirs>>

\* vmm_switch_page_dir(user_pd), then kthread_set_cr3(kthread_id(), user_pd).
elf_switch   == ElfStep("switch", "cr3") /\ vmm_switch_page_dir_ptr(prog[me].user_pd)
elf_cr3      == ElfStep("cr3", "register") /\ vmm_switch_page_dir_cr3(prog[me].user_pd)
elf_register == ElfStep("register", "load") /\ kthread_set_cr3(prog[me].user_pd)

\* Segments, stack and arguments are mapped in current_page_directory; then
\* TSS.esp0 is set and iret goes to ring 3.
elf_load ==
  /\ At("load")
  /\ prog' = [prog EXCEPT ![me].pc = "ring3", ![me].space = cur_dir]
  /\ tss_esp0' = KernelStackOf(me)
  /\ UNCHANGED <<tables, procs, current, clock, cleanup_pool, heap, cpu_esp, cpu_cr3,
                 cur_dir, halted, busy, staging, args, dirs>>

\* The file cannot be opened or loaded, or the user stack not allocated: back
\* to the boot directory.
elf_load_fail == ElfStep("load", "undo") /\ UNCHANGED vars
elf_undo      == ElfStep("undo", "undo_cr3") /\ vmm_switch_page_dir_ptr(BootDir)
elf_undo_cr3  == ElfStep("undo_cr3", "fail") /\ vmm_switch_page_dir_cr3(BootDir)

\* Every failure of elf_execute_in_ring3 ends in kthread_exit.
elf_fail == (ElfStep("fail", "dead") \/ ElfStep("clone", "dead")) /\ kthread_exit

\* sys_exit, or a fault in ring 3 that page_fault_handler or gp_fault_handler
\* answers by ending the process.
program_exit == ElfStep("ring3", "dead") /\ kprocess_exit

-----------------------------------------------------------------------------
timer == scheduler_tick /\ UNCHANGED execVars

\* Kernel code a thread goes through without choice of the user program.
KernelStep ==
  \/ launch_shell
  \/ sys_exec_test \/ sys_exec_take \/ sys_exec_stage
  \/ sys_exec_create \/ sys_exec_create_fail \/ sys_exec_tid \/ sys_exec_return
  \/ exec_thread_entry \/ exec_thread_release \/ user_shell_thread
  \/ \E d \in Dirs : elf_clone(d)
  \/ elf_switch \/ elf_cr3 \/ elf_register
  \/ elf_load \/ elf_load_fail \/ elf_undo \/ elf_undo_cr3 \/ elf_fail

UserStep == program_exit \/ \E a \in Args : sys_exec_copy(a)

ExecNext == KernelStep \/ UserStep \/ timer

ExecSpec == ExecInit /\ [][ExecNext]_xvars

\* The timer interrupts for ever, and a thread that is given the CPU again
\* and again executes its kernel code (a time slice is thousands of
\* instructions long).  Nothing is assumed about programs in ring 3.
ExecFairSpec ==
  /\ ExecSpec
  /\ WF_xvars(timer)
  /\ \A t \in Tids : SF_xvars(me = t /\ KernelStep)

-----------------------------------------------------------------------------
Alive(t) == tstate[t] \notin {"UNUSED", "ZOMBIE"}

\* A child executes what its own parent staged, although all calls of
\* sys_exec share one staging area whose lock is tested and set in two steps.
StagingHandoff ==
  \A t \in Tids : Alive(t) /\ prog[t].image # NULL => prog[t].image = prog[t].wanted

\* The path and argv a child still reads have not been freed by its parent.
ArgsAlive ==
  \A t \in Tids :
    /\ Alive(t) /\ prog[t].image # NULL
    /\ prog[t].pc \in {"release", "clone", "switch", "cr3", "register", "load"}
    => prog[t].image \in args

\* A parent stays inside sys_exec as long as its child lives, so at most one
\* program at a time is outside the kernel's exec path.
ParentWaits ==
  \A t, c \in Tids :
    Alive(t) /\ Alive(c) /\ prog[t].pc = "ring3" /\ prog[c].pc = "ring3" => t = c

\* sys_exec hands its copies of path and argv to the child it creates and to no
\* other thread (StagingHandoff), keeps them until that child has read them
\* (ArgsAlive), and comes back only when the child is gone (ParentWaits).
HandoverSound == ExecTypeOK /\ StagingHandoff /\ ArgsAlive /\ ParentWaits

\* The staging lock is always released.
StagingReleased == busy ~> ~busy

\* Once the child is dead its parent comes back from sys_exec.
ExecReturns ==
  \A t \in Tids :
    prog[t].pc = "wait" /\ tstate[prog[t].child_tid] = "ZOMBIE" ~> prog[t].pc = "ring3"

\* "All vmm_alloc_virtual_pages from here on go to this PD" (elf.c, after
\* vmm_switch_page_dir): a program's pages are mapped in the directory it
\* runs in.
LoadedInOwnDir ==
  \A t \in Tids : Alive(t) /\ prog[t].pc = "ring3" => prog[t].space = tcr3[t]

=============================================================================
