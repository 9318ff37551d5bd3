------------------------------ MODULE IoQueue ------------------------------
(***************************************************************************)
(* The keyboard buffer: the ring of src/driver/ioqueue.c, filled by the    *)
(* keyboard interrupt (src/driver/keyboard.c) and emptied by the threads   *)
(* f5 and f6 of src/test/kthread_test.c, which the timer may preempt at    *)
(* any point outside the interrupt handler.                                *)
(*                                                                         *)
(* The consumers' local_intr_save protects only their first test of the    *)
(* queue: the printk that follows returns with interrupts enabled (module  *)
(* Kernel), so ioq_getchar runs unprotected.  thread_block returns at once *)
(* (QuantumLeft of module Kernel).  An acquisition of the queue's lock     *)
(* that has to wait ends in an assertion failure (module Kernel): it is    *)
(* one failing step here.  So is a print that fails an assertion of the    *)
(* console's lock, which module Kernel shows to happen: it may happen to   *)
(* any thread at any time, in its own code, in a handler or in schedule(). *)
(***************************************************************************)
EXTENDS Naturals, Sequences, FiniteSets, SequencesExt

CONSTANTS Consumers,   \* the threads that call ioq_getchar
          Idle,        \* the boot thread
          NULL,
          buf_size,    \* slots of the ring (1024 in the code)
          MaxKeys,     \* bound: characters that reach kbd_handler's ioq_full
          MaxNest,     \* bound: keyboard handlers open on one stack
          MaxFails     \* bound: threads that prints may stop

Proc == Consumers \cup {Idle}

ASSUME IoQueueAssumption ==
    /\ IsFiniteSet(Consumers) /\ Idle \notin Consumers /\ NULL \notin Proc
    /\ buf_size \in Nat /\ buf_size > 1
    /\ MaxKeys \in Nat /\ MaxNest \in Nat /\ MaxFails \in Nat

VARIABLES
    head, tail, buf, consumer, holder,   \* kbd_buf
    current, ready, state,               \* the scheduler
    pc,        \* pc[c]: where consumer c is in f5 and ioq_getchar
    byte,      \* byte[c]: the local variable of ioq_getchar
    pos,       \* pos[c]: the value next_pos has returned to it
    clear,     \* clear[p]: wakeups on p's stack that have still to clear
               \* the waiter
    failed,    \* messages of the assertions that have failed
    dead,      \* threads that are in panic's last loop
    keys,      \* characters typed so far: the k-th character is k
    typed,     \* history: the characters accepted into the ring
    got,       \* history: the characters that ioq_getchar has returned
    raced      \* history: two consumers have been past their test at the
               \* same time; the other two histories end there

ringVars  == <<head, tail, buf>>
schedVars == <<current, ready, state>>
codeVars  == <<pc, byte, pos>>
vars == <<ringVars, schedVars, codeVars, consumer, holder, clear, failed, dead,
          keys, typed, got, raced>>

(***************************************************************************)
(* The ring                                                                *)
(***************************************************************************)
\* Mutant: the index does not wrap.
next_pos_nowrap(p) == p + 1

next_pos(p) == (p + 1) % buf_size
ioq_full    == next_pos(head) = tail
\* Mutant: the test for the empty ring forgets that head wraps.
ioq_empty_wrap == head <= tail

ioq_empty   == head = tail

\* ioqueue_init; the consumers exist and wait for the CPU.
Init ==
    /\ head = 0 /\ tail = 0 /\ buf = [i \in 0 .. buf_size - 1 |-> 0]
    /\ consumer = NULL /\ holder = NULL
    /\ current = Idle
    /\ ready \in {s \in [1 .. Cardinality(Consumers) -> Consumers] : IsInjective(s)}
    /\ state = [p \in Proc |-> IF p = Idle THEN "RUNNING" ELSE "READY"]
    /\ pc = [c \in Consumers |-> "top"]
    /\ byte = [c \in Consumers |-> 0]
    /\ pos = [c \in Consumers |-> 0]
    /\ clear = [p \in Proc |-> 0]
    /\ failed = {} /\ dead = {}
    /\ keys = 0 /\ typed = <<>> /\ got = <<>>
    /\ raced = FALSE

\* The running thread is also in the ready list: from here on its PCB is
\* linked twice and nothing more is modelled.
DoublyLinked == Contains(ready, current)

\* assert: panic never returns, nor do the handlers below it on the stack.
Fail(msg) ==
    /\ failed' = failed \cup {msg} /\ dead' = dead \cup {current}
    /\ clear' = [clear EXCEPT ![current] = 0]

(***************************************************************************)
(* A consumer c: f5 and ioq_getchar                                        *)
(***************************************************************************)

\* c is at l, has the CPU, and no interrupt handler is open on its stack.
Runs(c, l) ==
    /\ pc[c] = l
    /\ current = c /\ c \notin dead /\ clear[c] = 0
    /\ ~DoublyLinked

Goto(c, l) == pc' = [pc EXCEPT ![c] = l]

\* Mutant: ioq_getchar is called without the test.
SeeCharacter_untested(c) ==
    /\ Runs(c, "top")
    /\ Goto(c, "get")
    /\ raced' = (raced \/ \E d \in Consumers \ {c} : pc[d] # "top")
    /\ typed' = IF raced' THEN <<>> ELSE typed
    /\ got' = IF raced' THEN <<>> ELSE got
    /\ UNCHANGED <<ringVars, schedVars, byte, pos, consumer, holder, clear,
                   failed, dead, keys>>

\* local_intr_save; if(!ioq_empty(&kbd_buf)) printk(...): the printk enables
\* interrupts.
SeeCharacter(c) ==
    /\ Runs(c, "top")
    /\ ~ioq_empty
    /\ Goto(c, "get")
    /\ raced' = (raced \/ \E d \in Consumers \ {c} : pc[d] # "top")
    /\ typed' = IF raced' THEN <<>> ELSE typed
    /\ got' = IF raced' THEN <<>> ELSE got
    /\ UNCHANGED <<ringVars, schedVars, byte, pos, consumer, holder, clear,
                   failed, dead, keys>>

\* while(ioq_empty(ioq))
TestEmpty(c) ==
    /\ Runs(c, "get")
    /\ Goto(c, IF ioq_empty THEN "lock" ELSE "read")
    /\ UNCHANGED <<ringVars, schedVars, byte, pos, consumer, holder, clear,
                   failed, dead, keys, typed, got, raced>>

\* req_lock(&(ioq->lck))
LockQueue(c) ==
    /\ Runs(c, "lock")
    /\ IF holder = NULL
       THEN /\ holder' = c
            /\ Goto(c, "wait")
            /\ UNCHANGED <<failed, dead, clear>>
       ELSE /\ Fail("running thread must not be waiting")
            /\ UNCHANGED <<holder, pc>>
    /\ UNCHANGED <<ringVars, schedVars, byte, pos, consumer, keys, typed, got, raced>>

\* ioq_wait(&(ioq->consumer)): thread_block sets the state and returns.
ioq_wait(c) ==
    /\ Runs(c, "wait")
    /\ IF consumer = NULL
       THEN /\ consumer' = c
            /\ state' = [state EXCEPT ![c] = "BLOCKED"]
            /\ Goto(c, "unlock")
            /\ UNCHANGED <<failed, dead, clear>>
       ELSE /\ Fail("error")
            /\ UNCHANGED <<consumer, state, pc>>
    /\ UNCHANGED <<ringVars, current, ready, byte, pos, holder, keys, typed, got, raced>>

\* lock_release(&(ioq->lck))
UnlockQueue(c) ==
    /\ Runs(c, "unlock")
    /\ holder' = NULL
    /\ Goto(c, "get")
    /\ UNCHANGED <<ringVars, schedVars, byte, pos, consumer, clear, failed, dead,
                   keys, typed, got, raced>>

\* Mutant: the index is advanced before the slot is read.
ReadSlot_late(c) ==
    /\ Runs(c, "read")
    /\ byte' = [byte EXCEPT ![c] = buf[next_pos(tail)]]
    /\ Goto(c, "next")
    /\ UNCHANGED <<ringVars, schedVars, pos, consumer, holder, clear, failed, dead,
                   keys, typed, got, raced>>

\* byte = ioq->buf[ioq->tail]
ReadSlot(c) ==
    /\ Runs(c, "read")
    /\ byte' = [byte EXCEPT ![c] = buf[tail]]
    /\ Goto(c, "next")
    /\ UNCHANGED <<ringVars, schedVars, pos, consumer, holder, clear, failed, dead,
                   keys, typed, got, raced>>

\* next_pos(ioq->tail)
ReadTail(c) ==
    /\ Runs(c, "next")
    /\ pos' = [pos EXCEPT ![c] = next_pos(tail)]
    /\ Goto(c, "store")
    /\ UNCHANGED <<ringVars, schedVars, byte, consumer, holder, clear, failed, dead,
                   keys, typed, got, raced>>

\* ioq->tail = ...; return byte.  ioq->producer is NULL: its only writer is
\* ioq_putchar on a full queue, which kbd_handler never calls.  The locals
\* end with the call.
StoreTail(c) ==
    /\ Runs(c, "store")
    /\ tail' = pos[c]
    /\ got' = IF raced THEN got ELSE Append(got, byte[c])
    /\ Goto(c, "top")
    /\ byte' = [byte EXCEPT ![c] = 0] /\ pos' = [pos EXCEPT ![c] = 0]
    /\ UNCHANGED <<head, buf, schedVars, consumer, holder, clear,
                   failed, dead, keys, typed, raced>>

Consume(c) ==
    \/ SeeCharacter(c) \/ TestEmpty(c) \/ LockQueue(c) \/ ioq_wait(c)
    \/ UnlockQueue(c) \/ ReadSlot(c) \/ ReadTail(c) \/ StoreTail(c)

(***************************************************************************)
(* The keyboard interrupt, on the stack of the running thread              *)
(***************************************************************************)

\* thread_unblock(w) puts w at the front of the ready list, running or not.
thread_unblock(w) ==
    IF state[w] # "BLOCKED" \/ Contains(ready, w)
    THEN /\ Fail(IF state[w] # "BLOCKED" THEN "already unblocked"
                 ELSE "thread unblock:blocked thread already in ready list")
         /\ UNCHANGED <<ready, state>>
    ELSE /\ ready' = <<w>> \o ready
         /\ state' = [state EXCEPT ![w] = "READY"]
         /\ clear' = [clear EXCEPT ![current] = @ + 1]
         /\ UNCHANGED <<failed, dead>>

\* ioq_putchar(byte) on a ring that is not full: store, advance, and wake the
\* consumer up to thread_unblock's sti.
ioq_putchar(c) ==
    /\ buf' = [buf EXCEPT ![head] = c]
    /\ head' = next_pos(head)
    /\ typed' = IF raced THEN typed ELSE Append(typed, c)
    /\ IF consumer # NULL
       THEN thread_unblock(consumer)
       ELSE UNCHANGED <<ready, state, clear, failed, dead>>

\* kbd_handler with a printable character.  A full queue drops it.
kbd_handler ==
    /\ ~DoublyLinked
    /\ keys < MaxKeys
    /\ clear[current] < MaxNest
    /\ keys' = keys + 1
    /\ IF ioq_full
       THEN UNCHANGED <<ringVars, typed, ready, state, clear, failed, dead>>
       ELSE ioq_putchar(keys') /\ UNCHANGED tail
    /\ UNCHANGED <<current, codeVars, consumer, holder, got, raced>>

\* wakeup: *waiter = NULL, with interrupts enabled again.
wakeup_end ==
    /\ clear[current] > 0
    /\ clear' = [clear EXCEPT ![current] = @ - 1]
    /\ consumer' = NULL
    /\ UNCHANGED <<ringVars, schedVars, codeVars, holder, failed, dead, keys, typed, got, raced>>

\* The timer ends the quantum of the running thread: schedule().
schedule ==
    /\ ~DoublyLinked
    /\ ready # <<>>
    /\ current' = Head(ready)
    /\ ready' = Append(Tail(ready), current)
    /\ state' = [state EXCEPT ![current] = "READY", ![Head(ready)] = "RUNNING"]
    /\ UNCHANGED <<ringVars, codeVars, consumer, holder, clear, failed, dead,
                   keys, typed, got, raced>>

\* A print by the running thread or by a handler on its stack fails an
\* assertion of the console's lock.
printk_fails ==
    /\ ~DoublyLinked
    /\ Cardinality(dead) < MaxFails
    /\ Fail("console lock")
    /\ UNCHANGED <<ringVars, schedVars, codeVars, consumer, holder, keys, typed, got, raced>>

\* The print in schedule() does: by then the next thread has been taken from
\* the list and the running one has been added to it.
schedule_fails ==
    /\ ~DoublyLinked
    /\ Cardinality(dead) < MaxFails
    /\ ready # <<>>
    /\ ready' = Append(Tail(ready), current)
    /\ state' = [state EXCEPT ![current] = "READY", ![Head(ready)] = "RUNNING"]
    /\ Fail("console lock")
    /\ UNCHANGED <<ringVars, codeVars, current, consumer, holder, keys, typed, got, raced>>

Next ==
    \/ \E c \in Consumers : Consume(c)
    \/ kbd_handler \/ wakeup_end \/ schedule
    \/ printk_fails \/ schedule_fails

Spec == Init /\ [][Next]_vars

\* Quanta end, and a thread that gets the CPU again and again gets on.  What
\* a failed assertion leaves of this is no matter to EveryKeyDelivered.
FairSpec ==
    /\ Spec
    /\ WF_vars(schedule) /\ SF_vars(wakeup_end)
    /\ \A c \in Consumers : SF_vars(Consume(c))

(***************************************************************************)
(* Properties                                                              *)
(***************************************************************************)

Inside == {"get", "lock", "wait", "unlock", "read", "next", "store"}

Messages == {"running thread must not be waiting", "error", "already unblocked",
             "thread unblock:blocked thread already in ready list", "console lock"}

\* head and tail are always valid indices of buf, which ioq_putchar and
\* ioq_getchar use without a test; the other variables have their types.
TypeOK ==
    /\ head \in 0 .. buf_size - 1 /\ tail \in 0 .. buf_size - 1
    /\ buf \in [0 .. buf_size - 1 -> Nat]
    /\ consumer \in Consumers \cup {NULL} /\ holder \in Consumers \cup {NULL}
    /\ current \in Proc /\ ready \in Seq(Proc)
    /\ state \in [Proc -> {"RUNNING", "READY", "BLOCKED"}]
    /\ pc \in [Consumers -> Inside \cup {"top"}]
    /\ byte \in [Consumers -> Nat]
    /\ pos \in [Consumers -> 0 .. buf_size - 1]
    /\ clear \in [Proc -> Nat]
    /\ failed \subseteq Messages /\ dead \subseteq Proc
    /\ keys \in Nat /\ typed \in Seq(Nat) /\ got \in Seq(Nat)
    /\ raced \in BOOLEAN

\* Characters in the ring, and the slot of the k-th of them (from 0).
Used    == IF tail <= head THEN head - tail ELSE head + buf_size - tail
Slot(k) == IF tail + k < buf_size THEN tail + k ELSE tail + k - buf_size

\* As long as no two consumers are past their test of the queue together,
\* the characters returned, followed by the ones in the ring, are exactly
\* the ones accepted, in order: none is lost, repeated or overwritten by the
\* interrupt handler, also when the indices wrap and when the ring is full.
FifoUnlessRaced ==
    ~raced =>
        /\ Len(typed) = Len(got) + Used
        /\ \A k \in 1 .. Len(got) : got[k] = typed[k]
        /\ \A k \in 0 .. Used - 1 : buf[Slot(k)] = typed[Len(got) + k + 1]

\* As long as no two consumers are past their test together, no consumer
\* finds the ring empty: the waiting path of ioq_getchar, with its
\* assertions and its wakeup, is never taken.  Only the console's lock can
\* stop a thread, and only its failure in schedule() links one twice.
NoWaitUnlessRaced ==
    ~raced => /\ failed \subseteq {"console lock"} /\ consumer = NULL /\ holder = NULL
              /\ DoublyLinked => failed # {}
              /\ \A c \in Consumers : pc[c] \notin {"lock", "wait", "unlock"}

\* Every accepted character is returned in the end, unless consumers race or
\* an assertion fails.
EveryKeyDelivered ==
    \A k \in 1 .. MaxKeys :
        (Len(typed) >= k) ~> (Len(got) >= k \/ raced \/ failed # {})
=============================================================================
