-------------------------------- MODULE Boot --------------------------------
(***************************************************************************)
(* The start of the kernel, kern_init of src/init/kern_init.c, from the    *)
(* interrupt table up to the first thread, on top of the lock, the         *)
(* scheduler and the interrupts of module Kernel.                          *)
(*                                                                         *)
(* The order of kern_init is the subject.  swap_init enables interrupts    *)
(* and prints when there is no current thread, no registered handler and   *)
(* no initialised console lock: current and the holder of the all-zero     *)
(* lock are both NULL, so the first printk enters as if it were a re-entry *)
(* and its release makes the semaphore 1.  console_init initialises the    *)
(* lock again, after handlers may already have used it.                    *)
(***************************************************************************)
EXTENDS Kernel

VARIABLES phase,      \* the part of kern_init that comes next
          handlers,   \* the interrupts in interrupt_handlers[]
          early       \* an interrupt has printed before there was a current thread

bootVars == <<phase, handlers, early>>
allVars  == <<vars, bootVars>>

Phases == {"init_mm", "swap_init", "init_sched", "thread_idle", "init_timer", "init_kbd",
           "sti", "holder", "repeat", "value", "waiters", "console_clear", "Test"}

\* The image is zeroed: current and the holder of console_lck are NULL, its
\* semaphore is 0 and its list of waiters yields no thread.
BootInit ==
    /\ cpu = Idle /\ current = NULL
    /\ intr = FALSE
    /\ stk = [p \in Proc |-> <<At("body")>>]
    /\ ready = <<>>
    /\ state = [p \in Proc |-> "CREATE"]
    /\ ticks = [p \in Proc |-> IF p = Idle THEN 0 ELSE Prio[p]]
    /\ holder = NULL /\ repeat = 0 /\ value = 0 /\ waiters = <<>>
    /\ burst = 0 /\ failed = {} /\ hit = FALSE
    /\ phase = "init_mm"
    /\ handlers = {}
    /\ early = FALSE

\* The boot code executes its part `from` and goes on with `to`.
Step(from, to) ==
    /\ phase = from /\ phase' = to
    /\ cpu = Idle /\ pc = "body"
    /\ UNCHANGED <<cpu, ready, burst, failed, hit, early>>

\* From init_gdt to the sti of _clock_swap_init: interrupts are disabled and
\* nothing is printed.
init_mm ==
    /\ Step("init_mm", "swap_init")
    /\ intr' = TRUE
    /\ handlers' = {"pgfault"}
    /\ UNCHANGED <<current, state, ticks, lockVars, stk>>

\* Mutant: swap_init also prints before the manager is initialised.
swap_init_prints ==
    /\ Step("swap_init", "init_sched")
    /\ Become(<<At("req"), At("req"), At("body")>>)
    /\ UNCHANGED <<current, state, ticks, lockVars, intr, handlers>>

\* swap_init prints that it is done.
swap_init ==
    /\ Step("swap_init", "init_sched")
    /\ Call("req", "body")
    /\ UNCHANGED <<current, state, ticks, lockVars, intr, handlers>>

\* init_sched: the lists are empty, the boot stack becomes the current thread.
init_sched ==
    /\ Step("init_sched", "thread_idle")
    /\ current' = Idle
    /\ UNCHANGED <<state, ticks, lockVars, intr, stk, handlers>>

\* Mutant: prio is set and ticks is forgotten.
thread_idle_noticks ==
    /\ Step("thread_idle", "init_timer")
    /\ state' = [state EXCEPT ![Idle] = "RUNNING"]
    /\ UNCHANGED <<current, ticks, lockVars, intr, stk, handlers>>

\* The rest of thread_idle.
thread_idle ==
    /\ Step("thread_idle", "init_timer")
    /\ state' = [state EXCEPT ![Idle] = "RUNNING"]
    /\ ticks' = [ticks EXCEPT ![Idle] = Prio[Idle]]
    /\ UNCHANGED <<current, lockVars, intr, stk, handlers>>

\* init_drivers: the handlers of the timer and of the keyboard, then sti.
init_timer ==
    /\ Step("init_timer", "init_kbd")
    /\ handlers' = handlers \cup {"timer"}
    /\ UNCHANGED <<current, state, ticks, lockVars, intr, stk>>

init_kbd ==
    /\ Step("init_kbd", "sti")
    /\ handlers' = handlers \cup {"kbd"}
    /\ UNCHANGED <<current, state, ticks, lockVars, intr, stk>>

enable ==
    /\ Step("sti", "holder")
    /\ intr' = TRUE
    /\ UNCHANGED <<current, state, ticks, lockVars, stk, handlers>>

\* console_init: the stores of lock_init, one by one, with interrupts enabled.
console_init ==
    /\ \/ Step("holder", "repeat") /\ holder' = NULL /\ UNCHANGED <<repeat, value, waiters>>
       \/ Step("repeat", "value") /\ repeat' = 0 /\ UNCHANGED <<holder, value, waiters>>
       \/ Step("value", "waiters") /\ value' = 1 /\ UNCHANGED <<holder, repeat, waiters>>
       \/ Step("waiters", "console_clear") /\ waiters' = <<>> /\ UNCHANGED <<holder, repeat, value>>
    /\ UNCHANGED <<current, state, ticks, intr, stk, handlers>>

\* The screen is cleared and Test() begins.
console_clear ==
    /\ Step("console_clear", "Test")
    /\ UNCHANGED <<current, state, ticks, lockVars, intr, stk, handlers>>

kern_init ==
    \/ init_mm \/ swap_init \/ init_sched \/ thread_idle
    \/ init_timer \/ init_kbd \/ enable \/ console_init \/ console_clear

(***************************************************************************)
(* interrupt_handler: a registered handler, or a line on the console.      *)
(***************************************************************************)
BootTimer == "timer" \in handlers /\ timer_callback /\ UNCHANGED bootVars

BootPrint ==
    /\ printing_interrupt
    /\ early' = (early \/ current = NULL)
    /\ UNCHANGED <<phase, handlers>>

Running ==
    /\ phase = "Test"
    /\ printk \/ \E t \in Threads : kthread_create(t)
    /\ UNCHANGED bootVars

BootExecute(t, n) == ExecuteAt(t, n) /\ UNCHANGED bootVars

BootNext ==
    \/ kern_init \/ Running \/ BootTimer \/ BootPrint
    \/ \E t \in Proc, n \in 0 .. MaxNest : BootExecute(t, n)

\* The fairness of Kernel, and the boot code gets on between interrupts.
BootSpec ==
    /\ BootInit /\ [][BootNext]_allVars
    /\ SF_allVars(BootTimer) /\ SF_allVars(kern_init)
    /\ \A t \in Proc, n \in 0 .. MaxNest : SF_allVars(BootExecute(t, n))

(***************************************************************************)
(* Properties                                                              *)
(***************************************************************************)

\* Booting, re-initialising the lock under live handlers included, and
\* running the first threads fail an assertion only if an interrupt printed
\* before init_sched had set current or over the lock functions.
FailsOnlyIfEarlyOrHit == failed # {} => early \/ hit

\* If nothing has failed, Test() starts where module Kernel starts: the lock
\* is free, IDLE is current on its own stack with some quantum left.
ReachesKernelInit ==
    [][phase # "Test" /\ phase' = "Test" /\ failed = {} =>
          /\ lock_init' /\ intr'
          /\ current' = Idle /\ cpu' = Idle /\ ready' = <<>>
          /\ stk' = [p \in Proc |-> <<At("body")>>]
          /\ state' = [p \in Proc |-> IF p = Idle THEN "RUNNING" ELSE "CREATE"]
          /\ ticks'[Idle] \in 1 .. Prio[Idle]]_allVars
=============================================================================
