------------------------------- MODULE Kernel -------------------------------
(***************************************************************************)
(* The scheduler, the threads, the timer interrupt and the console lock of *)
(* OS32 on one CPU: src/sched/sched.c, src/thread/thread.c,                *)
(* src/driver/timer.c, src/sync/sync.c, the lock of src/console/console.c, *)
(* panic of src/debug/debug.c and the interrupt entry of src/segmm/.       *)
(*                                                                         *)
(* Every thread has a stack of frames, the top one first.  A frame is the  *)
(* place where a function will go on, its pc.  The CPU executes the top    *)
(* frame of the stack cpu; the C variable current is a separate variable,  *)
(* because switch_thread assigns it before it switches stacks.  A step is  *)
(* one stretch of code that no interrupt can divide, or one access to the  *)
(* shared variables when interrupts are enabled.  local_intr_save is cli   *)
(* and local_intr_restore is sti: they do not nest, so any function that   *)
(* uses them returns with interrupts enabled, whoever called it.           *)
(*                                                                         *)
(* The lists are sequences here: module KListRef justifies that for the    *)
(* operations of list.h and module ReadyList for the ready list.           *)
(***************************************************************************)
EXTENDS Naturals, Sequences, FiniteSets, SequencesExt

CONSTANTS Threads,    \* threads that kthread_create makes
          Idle,       \* the boot thread
          NULL,
          Prio,       \* Prio[p] \in 1..255, in ticks
          Quiet,      \* places (pcs) where no interrupt is assumed to land
          MaxBurst,   \* bound: timer interrupts during one thread switch
          MaxNest,    \* bound: interrupt handlers open on one stack
          MaxFrames   \* bound: frames that fit on the 4 KB kernel stack

Proc == Threads \cup {Idle}

\* Where a frame may stand.
PCs == {"body",                                         \* thread function
        "req", "down", "again", "gotsema", "owned", "checked",  \* req_lock
        "crit",                                         \* console_putc_color
        "rel", "relcnt", "relown", "relrep", "up", "upinc",     \* lock_release
        "blocked",                                      \* thread_block
        "sched", "switch", "switch_to", "resumed",      \* schedule
        "iret",                                         \* end of a handler
        "panic", "spin", "overflow"}

\* The places inside the lock functions of sync.c.
LockPCs == {"down", "again", "gotsema", "owned", "checked", "crit",
            "rel", "relcnt", "relown", "relrep", "up", "upinc", "blocked"}

States == {"CREATE", "READY", "RUNNING", "BLOCKED"}

ASSUME KernelAssumption ==
    /\ IsFiniteSet(Threads) /\ Idle \notin Threads /\ NULL \notin Proc
    /\ Prio \in [Proc -> 1 .. 255]
    /\ Quiet \subseteq PCs
    /\ MaxBurst \in Nat /\ MaxNest \in Nat /\ MaxFrames \in Nat

VARIABLES
    cpu,       \* the thread on whose stack the CPU executes
    current,   \* the C variable
    intr,      \* the interrupt flag of eflags
    stk,       \* stk[p]: the frames of thread p
    ready,     \* proc_ready_list
    state,     \* proc_struct.state
    ticks,     \* proc_struct.ticks
    holder, repeat, value, waiters,   \* console_lck
    burst,     \* timer interrupts taken during the present switch
    failed,    \* messages of the assertions that have failed
    hit        \* an interrupt has called printk over the lock functions

threadVars == <<cpu, current, ready, state, ticks>>
lockVars   == <<holder, repeat, value, waiters>>
vars       == <<threadVars, lockVars, intr, stk, burst, failed, hit>>

(***************************************************************************)
(* Frames                                                                  *)
(***************************************************************************)

\* arg is a local variable: next in "switch", p in "switch_to".
Frame(l, x) == [pc |-> l, arg |-> x]
At(l)       == Frame(l, NULL)

pc  == Head(stk[cpu]).pc
arg == Head(stk[cpu]).arg

\* Replace the top frame of the CPU's stack by the frames s.
Become(s) == stk' = [stk EXCEPT ![cpu] = s \o Tail(@)]

Goto(l)      == Become(<<At(l)>>)
Call(f, l)   == Become(<<At(f), At(l)>>)     \* call f, go on at l
Return       == Become(<<>>)

Has(s, P) == \E i \in DOMAIN s : s[i].pc \in P

\* The frames of stack s that may still return: those above a panic's loop.
Open(s) == {i \in DOMAIN s : \A j \in 1 .. i : s[j].pc # "spin"}

Handlers(s) == Cardinality({i \in Open(s) : s[i].pc = "iret"})

Switching == \E i \in Open(stk[cpu]) : stk[cpu][i].pc \in {"switch", "switch_to", "resumed"}

\* assert(x, msg) with x false: panic(msg).  panic calls printk, which uses
\* the console lock like everybody else, and never returns.  Panics that
\* call each other end where the stack does.
Fail(msg) ==
    /\ failed' = failed \cup {msg}
    /\ IF Len(stk[cpu]) < MaxFrames THEN Call("req", "panic") ELSE Goto("overflow")

Ok(step) == step /\ UNCHANGED failed

\* The console lock is free.
lock_init == holder = NULL /\ repeat = 0 /\ value = 1 /\ waiters = <<>>

(***************************************************************************)
(* Initial state: after init_sched and init_drivers.  IDLE runs with       *)
(* interrupts enabled, the ready list is empty and the lock is free.       *)
(***************************************************************************)
Init ==
    /\ cpu = Idle /\ current = Idle
    /\ intr = TRUE
    /\ stk = [p \in Proc |-> <<At("body")>>]
    /\ ready = <<>>
    /\ state = [p \in Proc |-> IF p = Idle THEN "RUNNING" ELSE "CREATE"]
    /\ ticks = [p \in Proc |-> Prio[p]]
    /\ lock_init
    /\ burst = 0
    /\ failed = {}
    /\ hit = FALSE

(***************************************************************************)
(* Threads                                                                 *)
(***************************************************************************)

\* The boot thread creates a thread (Test, kthread_test).
kthread_create(t) ==
    /\ pc = "body" /\ cpu = Idle
    /\ state[t] = "CREATE"
    /\ state' = [state EXCEPT ![t] = "READY"]
    /\ ready' = Append(ready, t)
    /\ UNCHANGED <<cpu, current, ticks, lockVars, intr, stk, burst, failed, hit>>

\* A thread function calls printk.
printk ==
    /\ pc = "body" /\ cpu # Idle
    /\ Call("req", "body")
    /\ UNCHANGED <<threadVars, lockVars, intr, burst, failed, hit>>

(***************************************************************************)
(* req_lock                                                                *)
(***************************************************************************)

\* The test of the holder: the same thread may enter again.
req_lock ==
    /\ pc = "req"
    /\ IF holder # current
       THEN Goto("down") /\ UNCHANGED repeat
       ELSE Goto("crit") /\ repeat' = repeat + 1
    /\ UNCHANGED <<threadVars, holder, value, waiters, intr, burst, failed, hit>>

\* Mutant: sema_down waits without the assertion.
sema_down_spin ==
    /\ pc \in {"down", "again"}
    /\ IF value = 0
       THEN Goto("again") /\ UNCHANGED value
       ELSE Goto("gotsema") /\ value' = value - 1
    /\ intr' = TRUE
    /\ UNCHANGED <<threadVars, holder, repeat, waiters, burst, failed, hit>>

\* sema_down, from its cli ("down") or from the next test of the loop
\* condition ("again"), which thread_block has reached with sti.
sema_down ==
    /\ pc \in {"down", "again"}
    /\ IF value = 0
       THEN /\ IF Contains(waiters, current)
               THEN /\ Fail("running thread must not be waiting")
                    /\ intr' = (intr /\ pc = "again")
                    /\ UNCHANGED <<waiters, state>>
               ELSE /\ waiters' = Append(waiters, current)
                    /\ state' = [state EXCEPT ![current] = "BLOCKED"]
                    /\ intr' = FALSE
                    /\ Ok(Call("sched", "blocked"))
            /\ UNCHANGED value
       ELSE /\ value' = value - 1
            /\ intr' = TRUE
            /\ IF value' = 0 THEN Ok(Goto("gotsema"))
                             ELSE Fail("sem value can't be less than 0")
            /\ UNCHANGED <<waiters, state>>
    /\ UNCHANGED <<cpu, current, ready, ticks, holder, repeat, burst, hit>>

\* The end of thread_block: local_intr_restore, back to sema_down's loop.
thread_block_end ==
    /\ pc = "blocked"
    /\ intr' = TRUE
    /\ Goto("again")
    /\ UNCHANGED <<threadVars, lockVars, burst, failed, hit>>

\* lck->holder = current
set_holder ==
    /\ pc = "gotsema"
    /\ holder' = current
    /\ Goto("owned")
    /\ UNCHANGED <<threadVars, repeat, value, waiters, intr, burst, failed, hit>>

\* assert(lck->holder_repeat_times == 0)
check_repeat ==
    /\ pc = "owned"
    /\ IF repeat = 0 THEN Ok(Goto("checked")) ELSE Fail("another thread is requiring")
    /\ UNCHANGED <<threadVars, lockVars, intr, burst, hit>>

\* lck->holder_repeat_times = 1
set_repeat ==
    /\ pc = "checked"
    /\ repeat' = 1
    /\ Goto("crit")
    /\ UNCHANGED <<threadVars, holder, value, waiters, intr, burst, failed, hit>>

\* console_write has put its characters on the screen.
console_done ==
    /\ pc = "crit"
    /\ Goto("rel")
    /\ UNCHANGED <<threadVars, lockVars, intr, burst, failed, hit>>

(***************************************************************************)
(* lock_release                                                            *)
(***************************************************************************)

check_holder ==
    /\ pc = "rel"
    /\ IF holder = current THEN Ok(Goto("relcnt")) ELSE Fail("lock hold by other thread")
    /\ UNCHANGED <<threadVars, lockVars, intr, burst, hit>>

\* Mutant: a nested release frees the lock.
release_repeat_all ==
    /\ pc = "relcnt"
    /\ Ok(Goto("relown"))
    /\ UNCHANGED <<threadVars, lockVars, intr, burst, hit>>

release_repeat ==
    /\ pc = "relcnt"
    /\ IF repeat > 1
       THEN repeat' = repeat - 1 /\ Ok(Return)
       ELSE /\ IF repeat = 1 THEN Ok(Goto("relown"))
                             ELSE Fail("not the last time to release")
            /\ UNCHANGED repeat
    /\ UNCHANGED <<threadVars, holder, value, waiters, intr, burst, hit>>

clear_holder ==
    /\ pc = "relown"
    /\ holder' = NULL
    /\ Goto("relrep")
    /\ UNCHANGED <<threadVars, repeat, value, waiters, intr, burst, failed, hit>>

\* Mutant: the count of entries is not reset.
clear_repeat_skip ==
    /\ pc = "relrep"
    /\ Goto("up")
    /\ UNCHANGED <<threadVars, lockVars, intr, burst, failed, hit>>

clear_repeat ==
    /\ pc = "relrep"
    /\ repeat' = 0
    /\ Goto("up")
    /\ UNCHANGED <<threadVars, holder, value, waiters, intr, burst, failed, hit>>

\* thread_unblock(w), called by sema_up; its own sti opens the window
\* "upinc" before the increment.
thread_unblock(w) ==
    IF state[w] # "BLOCKED"
    THEN /\ Fail("already unblocked")
         /\ intr' = FALSE
         /\ UNCHANGED <<ready, state>>
    ELSE IF Contains(ready, w)
    THEN /\ Fail("thread unblock:blocked thread already in ready list")
         /\ intr' = FALSE
         /\ UNCHANGED <<ready, state>>
    ELSE /\ ready' = <<w>> \o ready
         /\ state' = [state EXCEPT ![w] = "READY"]
         /\ intr' = TRUE
         /\ Ok(Goto("upinc"))

\* sema_up: cli, assert, wake the first waiter, increment, assert, sti.
sema_up ==
    /\ pc \in {"up", "upinc"}
    /\ IF pc = "up" /\ value # 0
       THEN /\ Fail("before V sema val must be 0")
            /\ intr' = FALSE
            /\ UNCHANGED <<value, waiters, ready, state>>
       ELSE IF pc = "up" /\ waiters # <<>>
       THEN /\ waiters' = Tail(waiters)
            /\ thread_unblock(Head(waiters))
            /\ UNCHANGED value
       ELSE /\ value' = (value + 1) % 256
            /\ intr' = TRUE
            /\ IF value' = 1 THEN Ok(Return) ELSE Fail("after V sema must be 1")
            /\ UNCHANGED <<waiters, ready, state>>
    /\ UNCHANGED <<cpu, current, ticks, holder, repeat, burst, hit>>

(***************************************************************************)
(* schedule and switch_thread                                              *)
(***************************************************************************)

\* What schedule() does for an expired quantum and a waiting thread, and the
\* mutants of it: no refill; current not put back; put back in front; no
\* printk.
schedule_as(refill, queue, frames) ==
    /\ pc = "sched"
    /\ IF ticks[current] # 0
       THEN Return /\ UNCHANGED <<ready, state, ticks>>
       ELSE /\ ticks' = IF refill THEN [ticks EXCEPT ![current] = Prio[current]] ELSE ticks
            /\ IF ready = <<>>
               THEN Return /\ UNCHANGED <<ready, state>>
               ELSE /\ ready' = queue
                    /\ state' = [state EXCEPT ![current] = "READY",
                                              ![Head(ready)] = "RUNNING"]
                    /\ Become(frames \o <<Frame("switch", Head(ready))>>)
    /\ hit' = (hit \/ (ticks[current] = 0 /\ ready # <<>> /\ Has(Tail(stk[cpu]), LockPCs)))
    /\ UNCHANGED <<cpu, current, lockVars, intr, burst, failed>>

schedule_norefill == schedule_as(FALSE, Append(Tail(ready), current), <<At("req")>>)
schedule_drop     == schedule_as(TRUE, Tail(ready), <<At("req")>>)
schedule_front    == schedule_as(TRUE, <<current>> \o Tail(ready), <<At("req")>>)
schedule_silent   == schedule_as(TRUE, Append(Tail(ready), current), <<>>)

\* schedule() up to its printk, with interrupts disabled.
schedule ==
    /\ pc = "sched"
    /\ IF ticks[current] # 0
       THEN Return /\ UNCHANGED <<ready, state, ticks>>
       ELSE /\ ticks' = [ticks EXCEPT ![current] = Prio[current]]
            /\ IF ready = <<>>
               THEN Return /\ UNCHANGED <<ready, state>>
               ELSE /\ ready' = Append(Tail(ready), current)
                    /\ state' = [state EXCEPT ![current] = "READY",
                                              ![Head(ready)] = "RUNNING"]
                    /\ Become(<<At("req"), Frame("switch", Head(ready))>>)
    /\ hit' = (hit \/ (ticks[current] = 0 /\ ready # <<>> /\ Has(Tail(stk[cpu]), LockPCs)))
    /\ UNCHANGED <<cpu, current, lockVars, intr, burst, failed>>

\* switch_thread before its cli: current already names the next thread while
\* the CPU is still on the stack of p.
switch_thread ==
    /\ pc = "switch"
    /\ IF current # arg
       THEN /\ state' = [state EXCEPT ![current] = "READY"]
            /\ current' = arg
            /\ Become(<<Frame("switch_to", current)>>)
       ELSE Return /\ UNCHANGED <<current, state>>
    /\ UNCHANGED <<cpu, ready, ticks, lockVars, intr, burst, failed, hit>>

\* Mutants: the arguments of switch_to are swapped; a new thread starts with
\* interrupts disabled.
switch_to_swapped ==
    /\ pc = "switch_to"
    /\ Goto("resumed")
    /\ cpu' = arg
    /\ intr' = (Head(stk[arg]).pc # "resumed")
    /\ UNCHANGED <<current, ready, state, ticks, lockVars, burst, failed, hit>>

switch_to_masked ==
    /\ pc = "switch_to"
    /\ Goto("resumed")
    /\ cpu' = current
    /\ intr' = FALSE
    /\ UNCHANGED <<current, ready, state, ticks, lockVars, burst, failed, hit>>

\* cli; switch_to: the next thread goes on where it was saved, with the
\* interrupt flag saved with it (a new thread starts with eflags 0x200).
switch_to ==
    /\ pc = "switch_to"
    /\ Goto("resumed")
    /\ cpu' = current
    /\ intr' = (Head(stk[current]).pc # "resumed")
    /\ UNCHANGED <<current, ready, state, ticks, lockVars, burst, failed, hit>>

\* sti; current->state = PROC_RUNNING; return through schedule.
switch_end ==
    /\ pc = "resumed"
    /\ intr' = TRUE
    /\ state' = [state EXCEPT ![current] = "RUNNING"]
    /\ Return
    /\ UNCHANGED <<cpu, current, ready, ticks, lockVars, burst, failed, hit>>

(***************************************************************************)
(* Interrupts                                                              *)
(***************************************************************************)

Interruptible == intr /\ pc \notin Quiet /\ Handlers(stk[cpu]) < MaxNest

\* Enter a handler that goes on at l: an interrupt gate clears the flag.
Interrupt(l) ==
    /\ stk' = [stk EXCEPT ![cpu] = <<At(l), At("iret")>> \o @]
    /\ intr' = FALSE

\* timer_callback: current->ticks-- (a uchar), then schedule().
timer_callback ==
    /\ Interruptible
    /\ Switching => burst < MaxBurst
    /\ burst' = IF Switching THEN burst + 1 ELSE 0
    /\ ticks' = [ticks EXCEPT ![current] = (@ - 1) % 256]
    /\ Interrupt("sched")
    /\ UNCHANGED <<cpu, current, ready, state, lockVars, failed, hit>>

\* A handler that only writes to the console: kbd_handler's "unknown key"
\* and interrupt_handler's "Unhandled interrupt".
printing_interrupt ==
    /\ Interruptible
    /\ Interrupt("req")
    /\ hit' = (hit \/ Has(stk[cpu], LockPCs))
    /\ UNCHANGED <<threadVars, lockVars, burst, failed>>

\* tick++ and the end of interrupt_common_stub.
iret ==
    /\ pc = "iret"
    /\ intr' = TRUE
    /\ Return
    /\ UNCHANGED <<threadVars, lockVars, burst, failed, hit>>

\* panic has printed its message (Fail made that call); it prints the stack
\* trace and a last line, one more use of the lock here, and loops for ever.
panic ==
    /\ pc = "panic"
    /\ Call("req", "spin")
    /\ UNCHANGED <<threadVars, lockVars, intr, burst, failed, hit>>

(***************************************************************************)
(* The specification                                                       *)
(***************************************************************************)

Execute ==
    \/ req_lock \/ sema_down \/ thread_block_end \/ set_holder
    \/ check_repeat \/ set_repeat \/ console_done
    \/ check_holder \/ release_repeat \/ clear_holder \/ clear_repeat \/ sema_up
    \/ schedule \/ switch_thread \/ switch_to \/ switch_end
    \/ iret \/ panic

Next ==
    \/ Execute \/ printk
    \/ \E t \in Threads : kthread_create(t)
    \/ timer_callback \/ printing_interrupt

Spec == Init /\ [][Next]_vars

\* The timer's interrupt request stays latched in the interrupt controller,
\* with the highest priority, until interrupts are enabled, and code that is
\* interrupted gets on between two interrupts, at every level of nesting,
\* because a handler is far shorter than a tick.  A thread function need
\* never call printk.
ExecuteAt(t, n) == Execute /\ cpu = t /\ Handlers(stk[t]) = n

FairSpec ==
    /\ Spec
    /\ SF_vars(timer_callback)
    /\ \A t \in Proc, n \in 0 .. MaxNest : SF_vars(ExecuteAt(t, n))

(***************************************************************************)
(* Properties                                                              *)
(***************************************************************************)

Frames == [pc : PCs, arg : Proc \cup {NULL}]

Messages == {"running thread must not be waiting", "sem value can't be less than 0",
             "another thread is requiring", "lock hold by other thread",
             "not the last time to release", "already unblocked",
             "thread unblock:blocked thread already in ready list",
             "before V sema val must be 0", "after V sema must be 1"}

\* Types; the stack of a thread ends in its thread function, which never
\* returns, and no uchar ticks exceeds the thread's prio.
TypeOK ==
    /\ cpu \in Proc /\ current \in Proc
    /\ intr \in BOOLEAN
    /\ stk \in [Proc -> Seq(Frames)]
    /\ \A p \in Proc : Len(stk[p]) > 0 /\ stk[p][Len(stk[p])].pc = "body"
    /\ ready \in Seq(Proc) /\ waiters \in Seq(Proc)
    /\ state \in [Proc -> States]
    /\ ticks \in [Proc -> 0 .. 255]
    /\ \A p \in Proc : ticks[p] <= Prio[p]
    /\ holder \in Proc \cup {NULL}
    /\ repeat \in Nat /\ value \in 0 .. 255
    /\ burst \in 0 .. MaxBurst
    /\ failed \subseteq Messages
    /\ hit \in BOOLEAN

\* A quantum of zero is seen by nobody but the schedule() that the timer
\* handler calls right after the decrement: the uchar ticks never wraps to
\* 255, and the schedule() that thread_block calls finds ticks left and
\* returns without giving up the CPU.
QuantumLeft ==
    \A p \in Proc : ticks[p] = 0 =>
        /\ p = current
        /\ Head(stk[cpu]).pc = "sched"
        /\ stk[cpu][2].pc = "iret"

\* The thread that the scheduler has decided to run: between schedule()'s
\* list update and the assignment to current it is not yet current.
Chosen ==
    IF Has(stk[cpu], {"switch"})
    THEN stk[cpu][CHOOSE i \in DOMAIN stk[cpu] :
                     /\ stk[cpu][i].pc = "switch"
                     /\ \A j \in DOMAIN stk[cpu] : stk[cpu][j].pc = "switch" => i <= j].arg
    ELSE current

\* Until an assertion fails the ready list holds, once each, all threads but
\* the chosen one, however interrupts nest: schedule() neither loses nor
\* duplicates a thread.  (A panic inside schedule()'s printk loses the
\* thread already taken from the list.)
ReadyExact ==
    failed = {} =>
        /\ IsInjective(ready)
        /\ ToSet(ready) = {p \in Proc : state[p] # "CREATE"} \ {Chosen}

\* Until an assertion fails current names the thread whose stack the CPU is
\* on, except in switch_thread between its assignment and switch_to; and
\* what switch_to saves in p's context is p's own stack.
OwnStack ==
    failed = {} =>
        IF Has(stk[cpu], {"switch_to"})
        THEN \A i \in DOMAIN stk[cpu] :
                stk[cpu][i].pc = "switch_to" => stk[cpu][i].arg = cpu
        ELSE current = cpu

\* No two threads are writing to the console at once.
MutualExclusion ==
    \A p, q \in Proc : Has(stk[p], {"crit"}) /\ Has(stk[q], {"crit"}) => p = q

\* An assertion of sync.c or thread.c fails only after an interrupt handler
\* called printk over a thread that was inside the lock functions.
FailsOnlyIfHit == failed # {} => hit

\* A thread in the waiters list stays current: thread_block's schedule()
\* returns at once, so its PCB's only list node is not claimed by a second
\* list while another thread could follow it.
WaiterIsCurrent == \A i \in DOMAIN waiters : waiters[i] = current

\* Every thread gets the CPU again and again as long as no assertion fails.
EveryThreadRuns ==
    \A t \in Proc : (state[t] # "CREATE") ~> (cpu = t \/ failed # {})

\* A thread that has entered the lock functions leaves them, or an assertion
\* fails: there is no silent hang.
PrintEndsOrFails ==
    \A t \in Proc : Has(stk[t], LockPCs) ~> (~Has(stk[t], LockPCs) \/ failed # {})

\* Context switches and thread creation, nested interrupts included,
\* implement the abstract scheduler until an assertion fails.
RR == INSTANCE RoundRobin WITH
          Proc <- Proc, First <- Idle, run <- Chosen, queue <- ready

ImplementsRoundRobin == RR!RRInit /\ [][failed' = {} => RR!RRNext]_(RR!rrVars)
=============================================================================
