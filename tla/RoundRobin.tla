---------------------------- MODULE RoundRobin ----------------------------
(***************************************************************************)
(* What the scheduler promises: one thread runs, the others wait in one    *)
(* first-in first-out queue, and the only thing that happens to them is    *)
(* that the thread at the front of the queue takes the CPU and the thread  *)
(* that had it goes to the back.  No thread is ever lost or duplicated.    *)
(* The modules ReadyList and Kernel implement this specification.          *)
(***************************************************************************)
EXTENDS Naturals, Sequences

CONSTANTS Proc,     \* every thread there may be
          First     \* the boot thread (IDLE)

VARIABLES run, queue

rrVars == <<run, queue>>

Queued == {queue[i] : i \in DOMAIN queue}

RRInit == run = First /\ queue = <<>>

\* kthread_create: a thread nobody has seen before joins at the back.
Create(t) ==
    /\ t \notin Queued \cup {run}
    /\ queue' = Append(queue, t)
    /\ UNCHANGED run

\* A quantum has expired and somebody is waiting.
Switch ==
    /\ queue # <<>>
    /\ run' = Head(queue)
    /\ queue' = Append(Tail(queue), run)

RRNext == Switch \/ \E t \in Proc : Create(t)

RRSpec == RRInit /\ [][RRNext]_rrVars

RRTypeOK == run \in Proc /\ queue \in Seq(Proc)

\* The running thread is not queued, and nobody is queued twice.
NoDuplicate ==
    /\ \A i \in DOMAIN queue : queue[i] # run
    /\ \A i, j \in DOMAIN queue : i # j => queue[i] # queue[j]
=============================================================================
