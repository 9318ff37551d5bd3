----------------------------- MODULE ReadyList -----------------------------
(***************************************************************************)
(* kthread_create (src/thread/thread.c) against the timer interrupt        *)
(* (src/driver/timer.c, src/sched/sched.c) on the pointers of the ready    *)
(* list.  kthread_create links the new PCB with four plain stores while    *)
(* interrupts are enabled, and the boot thread that runs it is itself      *)
(* preempted when its quantum ends: the timer handler may run schedule()   *)
(* between any two of the stores.                                          *)
(*                                                                         *)
(* The handler itself runs with interrupts disabled up to the point where  *)
(* the list is consistent again, so one timer interrupt is one step here;  *)
(* what happens between schedule()'s list update and the context switch is *)
(* the subject of module Kernel.                                           *)
(***************************************************************************)
EXTENDS KList, SequencesExt

CONSTANTS Threads,       \* the PCBs kthread_test asks for
          Idle,          \* the boot thread, which becomes IDLE
          ReadyHead,     \* &proc_ready_list->node
          Prio           \* Prio[p]: the uchar prio of each thread

Proc == Threads \cup {Idle}

ASSUME ReadyListAssumption ==
    /\ Idle \notin Threads
    /\ ReadyHead \in Heads
    /\ Proc \subseteq Nodes
    /\ Prio \in [Proc -> 1 .. 255]

VARIABLES links,      \* next and prev of every list node
          current,    \* the running thread
          ticks,      \* what is left of each thread's quantum
          created,    \* threads whose kthread_create has returned
          creating,   \* the thread being linked, or NULL
          store,      \* the next of the four stores to perform, 1..4
          torn        \* history: schedule() has run after the first and
                      \* before the last store of a list_add_tail

readyVars == <<links, current, ticks, created, creating, store, torn>>

\* init_sched: an empty ready list; thread_idle: IDLE runs with a full
\* quantum and is not in the list.
ReadyInit ==
    /\ links = list_init([next |-> [x \in AllNodes |-> NULL],
                          prev |-> [x \in AllNodes |-> NULL]], ReadyHead)
    /\ current = Idle
    /\ ticks = [p \in Proc |-> IF p = Idle THEN Prio[Idle] ELSE 0]
    /\ created = {}
    /\ creating = NULL
    /\ store = 1
    /\ torn = FALSE

\* kthread_create up to the call of list_add_tail: the PCB is fresh, zeroed
\* memory and nobody else can reach it yet.
KthreadCreate(t) ==
    /\ current = Idle
    /\ creating = NULL
    /\ t \notin created
    /\ creating' = t
    /\ store' = 1
    /\ ticks' = [ticks EXCEPT ![t] = Prio[t]]
    /\ UNCHANGED <<links, current, created, torn>>

\* One store of list_add_tail(&proc_ready_list->node, &proc->node).
LinkStore ==
    /\ current = Idle
    /\ creating # NULL
    /\ links' = AddTailStore(store, links, ReadyHead, creating)
    /\ IF store < 4
       THEN /\ store' = store + 1
            /\ UNCHANGED <<created, creating>>
       ELSE /\ store' = 1
            /\ created' = created \cup {creating}
            /\ creating' = NULL
    /\ UNCHANGED <<current, ticks, torn>>

\* Mutants: the thread that ran is not put back, or is put back in front.
Schedule_drop ==
    IF list_empty(links, ReadyHead)
    THEN UNCHANGED <<links, current>>
    ELSE /\ current' = list_front(links, ReadyHead)
         /\ links' = list_pop(links, ReadyHead)

Schedule_front ==
    IF list_empty(links, ReadyHead)
    THEN UNCHANGED <<links, current>>
    ELSE /\ current' = list_front(links, ReadyHead)
         /\ links' = list_add_head(list_pop(links, ReadyHead), ReadyHead, current)

\* The list updates of schedule() for a thread whose quantum is over.
Schedule ==
    IF list_empty(links, ReadyHead)
    THEN UNCHANGED <<links, current>>
    ELSE /\ current' = list_front(links, ReadyHead)
         /\ links' = list_add_tail(list_pop(links, ReadyHead), ReadyHead, current)

\* timer_callback.  A front that is NULL or no PCB is a jump into memory that
\* is not a thread: nothing is modelled after it.
Timer ==
    /\ current \in Proc
    /\ LET left == (ticks[current] - 1) % 256
       IN  IF left # 0
           THEN /\ ticks' = [ticks EXCEPT ![current] = left]
                /\ UNCHANGED <<links, current, torn>>
           ELSE /\ ticks' = [ticks EXCEPT ![current] = Prio[current]]
                /\ Schedule
                /\ torn' = (torn \/ store > 1)
    /\ UNCHANGED <<created, creating, store>>

Boot == LinkStore \/ \E t \in Threads : KthreadCreate(t)

ReadyNext == Boot \/ Timer

ReadySpec == ReadyInit /\ [][ReadyNext]_readyVars

(***************************************************************************)
(* Properties                                                              *)
(***************************************************************************)

Ready == Elements(links, ReadyHead)

\* While no kthread_create is under way the ready list is sound and holds,
\* exactly once each, all the threads that exist except the running one, also
\* when the boot thread has been preempted between two kthread_create or just
\* before it links a PCB, and goes on with a list that the others have turned
\* meanwhile.  Only schedule() between two of the four stores breaks it: the
\* comment at thread.c:46 asks for interrupts to be masked there and the code
\* does not mask them.  Threads are then lost, or NULL is made the current one.
NoThreadLost ==
    ~torn /\ creating = NULL =>
        /\ Sound(links, ReadyHead)
        /\ IsInjective(Ready)
        /\ ToSet(Ready) = (created \cup {Idle}) \ {current}

\* The pointers and stores implement the abstract scheduler: a new thread
\* joins the queue with the first of its four stores, which makes it
\* reachable from the head, and the timer moves the front to the CPU; up to
\* a schedule() between the stores.
RR == INSTANCE RoundRobin WITH
          Proc <- Proc, First <- Idle, run <- current, queue <- Ready

ImplementsRoundRobin == RR!RRInit /\ [][~torn' => RR!RRNext]_(RR!rrVars)
=============================================================================
