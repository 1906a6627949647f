----------------------------- MODULE SleepTimer ------------------------------
(***************************************************************************)
(* How long kthread_sleep(ms) really sleeps.  The scheduler compares an    *)
(* unsigned tick with an unsigned deadline, both modulo TICK_MOD, and only *)
(* on every SCHED_INTERVAL-th tick.  The history variable left counts the  *)
(* timer interrupts instead, and never wraps.                              *)
(***************************************************************************)
EXTENDS Scheduler, Integers

\* Calls of kthread_sleep are considered up to this (unwrapped) deadline:
\* TICK_MOD - 1 + MaxSleep allows every call, a smaller value leaves out the
\* sleeps that end near or beyond the overflow of tick.
CONSTANT LastDeadline

ASSUME SleepTimerAssumption == LastDeadline \in Nat

\* left[t]: ticks of t's last sleep still to come; negative once overdue.
VARIABLE left

sleepVars == <<vars, left>>

\* Bound: being overdue by a whole scheduling interval is as late as it gets.
Floor == 0 - SCHED_INTERVAL

SleepInit == Init /\ left = [t \in Tids |-> 0]

StartSleep ==
  \E ms \in 1 .. MaxSleep :
    /\ tick + ms <= LastDeadline
    /\ kthread_sleep(ms)
    /\ left' = [left EXCEPT ![current_tid] = ms]

TimerInterrupt ==
  /\ scheduler_tick
  /\ left' = [t \in Tids |-> IF tstate[t] # "SLEEPING" THEN 0
                             ELSE IF left[t] > Floor THEN left[t] - 1 ELSE Floor]

OtherCall ==
  /\ \/ \E t \in Tids, s \in Stacks : kcreate_thread(t, s)
     \/ \E p \in Pids, t \in Tids, s \in Stacks : kcreate_process(p, t, s)
     \/ \E p \in Pids : kcreate_process_fail(p)
     \/ kthread_exit
     \/ kprocess_exit
  /\ UNCHANGED left

SleepNext == StartSleep \/ TimerInterrupt \/ OtherCall

\* The timer keeps interrupting: nothing in the kernel runs with interrupts
\* off for ever, and every exit path ends in "sti; hlt".
SleepSpec == SleepInit /\ [][SleepNext]_sleepVars /\ WF_sleepVars(TimerInterrupt)

-----------------------------------------------------------------------------
\* kthread_sleep(ms) never returns before ms timer interrupts have passed.
NoEarlyWake ==
  [][\A t \in Tids :
       tstate[t] = "SLEEPING" /\ tstate'[t] \in {"READY", "RUNNING"}
         => left'[t] <= 0]_sleepVars

\* A sleeper is runnable again less than one scheduling interval after its
\* time has come.
PromptWake ==
  \A t \in Tids : tstate[t] = "SLEEPING" => left[t] > Floor

=============================================================================
