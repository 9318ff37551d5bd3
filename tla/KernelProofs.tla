---------------------------- MODULE KernelProofs ----------------------------
(***************************************************************************)
(* Proofs about modules Kernel and Boot, for every set of threads, every   *)
(* priority, every choice of the places that interrupts avoid and every    *)
(* bound.                                                                  *)
(*                                                                         *)
(* The quantum: schedule() is entered only with interrupts disabled, so    *)
(* its frame is always the top one of the stack the CPU is on, and no      *)
(* interrupt can see it.  A timer interrupt therefore finds every quantum  *)
(* above zero, the uchar decrement cannot wrap, and the zero it may leave  *)
(* is refilled by the very next step.                                      *)
(***************************************************************************)
EXTENDS Boot, CommonLemmas, FiniteSetTheorems

\* Every stack is a sequence of frames that ends in a thread function.
StackOK ==
    /\ stk \in [Proc -> Seq(Frames)]
    /\ \A p \in Proc : Len(stk[p]) > 0 /\ stk[p][Len(stk[p])].pc = "body"

\* schedule() is at the top of the CPU's stack, with interrupts disabled.
SchedTop ==
    \A p \in Proc : \A i \in 1 .. Len(stk[p]) :
        stk[p][i].pc = "sched" => i = 1 /\ p = cpu /\ ~intr

\* switch_thread is always called with a thread.
ArgOK ==
    \A p \in Proc : \A i \in 1 .. Len(stk[p]) :
        stk[p][i].pc = "switch" => stk[p][i].arg \in Proc

Base == TypeOK /\ SchedTop /\ ArgOK
IInv == Base /\ QuantumLeft

\* No frame of schedule() is left.
NoSched == \A p \in Proc : \A i \in 1 .. Len(stk[p]) : stk[p][i].pc # "sched"

\* The next step finds the semaphore taken: it may call schedule().
Blocking == pc \in {"down", "again"} /\ value = 0

\* What a step keeps that touches no quantum.
Kept == Base' /\ (QuantumLeft => QuantumLeft') /\ (NoSched' \/ Blocking)

\* Frames that a step other than a call of schedule() may push.
Good(s) ==
    /\ s \in Seq(Frames)
    /\ \A i \in 1 .. Len(s) : s[i].pc # "sched"
    /\ \A i \in 1 .. Len(s) : s[i].pc = "switch" => s[i].arg \in Proc

Plain == PCs \ {"sched", "switch"}

\* Two facts of arithmetic.
LEMMA OneOrMore == \A n \in Nat : n > 0 => n = 1 \/ n > 1
  OBVIOUS
LEMMA DecrementBelow == \A a, b \in 1 .. 255 : a <= b => a - 1 <= b
  OBVIOUS

\* A frame without arguments is well typed.
LEMMA AtType == ASSUME NEW l \in PCs PROVE At(l) \in Frames /\ At(l).pc = l
  BY DEF At, Frame, Frames

\* Return, Goto and Call push frames of the allowed kind.
LEMMA GoodShapes ==
    /\ Good(<<>>)
    /\ \A l \in Plain : Good(<<At(l)>>)
    /\ \A f, l \in Plain : Good(<<At(f), At(l)>>)
<1>1. Good(<<>>)
  BY DEF Good
<1>2. ASSUME NEW l \in Plain PROVE Good(<<At(l)>>)
  <2>1. At(l) \in Frames /\ At(l).pc = l
    BY AtType DEF Plain
  <2> QED BY <2>1 DEF Good, Plain
<1>3. ASSUME NEW f \in Plain, NEW l \in Plain PROVE Good(<<At(f), At(l)>>)
  <2>1. At(l) \in Frames /\ At(l).pc = l /\ At(f) \in Frames /\ At(f).pc = f
    BY AtType DEF Plain
  <2> QED BY <2>1 DEF Good, Plain
<1> QED BY <1>1, <1>2, <1>3

\* If u is k elements followed by all but the first element of t, the two end
\* with the same element (n and m are their lengths).
LEMMA LastKept ==
    ASSUME NEW t, NEW u, NEW k \in Nat, NEW n \in Nat, NEW m, n > 1, m = k + n - 1,
           \A i \in k + 1 .. m : u[i] = t[i - k + 1]
    PROVE  m > 0 /\ u[m] = t[n]
<1>1. m \in k + 1 .. m /\ m - k + 1 = n /\ m > 0
  OBVIOUS
<1>2. u[m] = t[m - k + 1]
  BY <1>1
<1> QED BY <1>1, <1>2

\* What Become(s) does to the stack of the CPU: s replaces the top frame.
LEMMA BecomeFrames ==
    ASSUME StackOK, cpu \in Proc, pc # "body", NEW s \in Seq(Frames), Become(s)
    PROVE  /\ stk' \in [Proc -> Seq(Frames)]
           /\ \A p \in Proc \ {cpu} : stk'[p] = stk[p]
           /\ Len(stk[cpu]) > 1
           /\ Len(stk'[cpu]) = Len(s) + Len(stk[cpu]) - 1
           /\ \A i \in 1 .. Len(s) : stk'[cpu][i] = s[i]
           /\ \A i \in Len(s) + 1 .. Len(stk'[cpu]) :
                 stk'[cpu][i] = stk[cpu][i - Len(s) + 1]
<1> DEFINE t == stk[cpu]
           u == s \o Tail(t)
<1>1. t \in Seq(Frames) /\ Len(t) \in Nat /\ Len(t) > 0 /\ t[Len(t)].pc = "body"
  BY DEF StackOK
<1>2. Len(t) > 1
  <2>1. t[1].pc # "body"
    BY <1>1 DEF pc
  <2> QED BY <1>1, <2>1
<1>3. /\ Tail(t) \in Seq(Frames) /\ Len(Tail(t)) = Len(t) - 1
      /\ \A i \in 1 .. Len(t) - 1 : Tail(t)[i] = t[i + 1]
  BY <1>1, <1>2
<1>4. /\ u \in Seq(Frames) /\ Len(u) = Len(s) + Len(t) - 1
      /\ \A i \in 1 .. Len(s) : u[i] = s[i]
      /\ \A i \in Len(s) + 1 .. Len(u) : u[i] = t[i - Len(s) + 1]
  <2> HIDE DEF t
  <2> QED BY <1>1, <1>2, <1>3
<1>5. stk' = [stk EXCEPT ![cpu] = u]
  BY DEF Become
<1> HIDE DEF u
<1>6. stk'[cpu] = u /\ \A p \in Proc \ {cpu} : stk'[p] = stk[p]
  BY <1>5 DEF StackOK
<1>7. stk' \in [Proc -> Seq(Frames)]
  BY <1>4, <1>5 DEF StackOK
<1> QED BY <1>2, <1>4, <1>6, <1>7

\* A step that replaces the top frame by good frames keeps the stacks well
\* formed and leaves no frame of schedule() behind.
LEMMA BecomeGood ==
    ASSUME StackOK, SchedTop, ArgOK, cpu \in Proc, pc # "body", NEW s, Good(s), Become(s)
    PROVE  /\ StackOK' /\ ArgOK'
           /\ \A p \in Proc : \A i \in 1 .. Len(stk'[p]) : stk'[p][i].pc # "sched"
<1>0. s \in Seq(Frames) /\ Len(s) \in Nat
  BY DEF Good
<1>1. /\ stk' \in [Proc -> Seq(Frames)]
      /\ \A p \in Proc \ {cpu} : stk'[p] = stk[p]
      /\ Len(stk[cpu]) > 1
      /\ Len(stk'[cpu]) = Len(s) + Len(stk[cpu]) - 1
      /\ \A i \in 1 .. Len(s) : stk'[cpu][i] = s[i]
      /\ \A i \in Len(s) + 1 .. Len(stk'[cpu]) : stk'[cpu][i] = stk[cpu][i - Len(s) + 1]
  BY <1>0, BecomeFrames
<1>2. Len(stk[cpu]) \in Nat /\ stk[cpu][Len(stk[cpu])].pc = "body"
  BY DEF StackOK
<1>3. /\ Len(stk'[cpu]) > 0
      /\ stk'[cpu][Len(stk'[cpu])] = stk[cpu][Len(stk[cpu])]
  BY <1>0, <1>1, <1>2, LastKept
<1>4. StackOK'
  BY <1>1, <1>2, <1>3 DEF StackOK
<1>5. ASSUME NEW i \in 1 .. Len(stk'[cpu])
      PROVE  /\ stk'[cpu][i].pc # "sched"
             /\ stk'[cpu][i].pc = "switch" => stk'[cpu][i].arg \in Proc
  <2>1. CASE i \in 1 .. Len(s)
    BY <1>1, <2>1 DEF Good
  <2>2. CASE i \in Len(s) + 1 .. Len(stk'[cpu])
    <3>1. i - Len(s) + 1 \in 2 .. Len(stk[cpu])
      BY <1>0, <1>1, <1>2, <2>2
    <3> QED BY <1>1, <1>2, <2>2, <3>1, SMTT(40) DEF SchedTop, ArgOK
  <2> QED BY <1>0, <1>1, <1>2, <2>1, <2>2
<1>6. ASSUME NEW p \in Proc, p # cpu, NEW i \in 1 .. Len(stk'[p])
      PROVE  /\ stk'[p][i].pc # "sched"
             /\ stk'[p][i].pc = "switch" => stk'[p][i].arg \in Proc
  BY <1>1, <1>6 DEF SchedTop, ArgOK
<1> QED BY <1>4, <1>5, <1>6 DEF ArgOK

(***************************************************************************)
(* The parts of the type invariant                                         *)
(***************************************************************************)
TicksOK == ticks \in [Proc -> 0 .. 255] /\ \A p \in Proc : ticks[p] <= Prio[p]

RestOK ==
    /\ cpu \in Proc /\ current \in Proc
    /\ intr \in BOOLEAN
    /\ ready \in Seq(Proc) /\ waiters \in Seq(Proc)
    /\ state \in [Proc -> States]
    /\ holder \in Proc \cup {NULL}
    /\ repeat \in Nat /\ value \in 0 .. 255
    /\ burst \in 0 .. MaxBurst
    /\ failed \subseteq Messages
    /\ hit \in BOOLEAN

\* The type invariant in three parts.
LEMMA TypeParts == TypeOK <=> StackOK /\ TicksOK /\ RestOK
  BY DEF TypeOK, StackOK, TicksOK, RestOK

\* The effect on the stacks of every step but a call of schedule().
GoodStep == \E s : Good(s) /\ Become(s)

\* Outside schedule() every quantum is positive; a step that neither calls
\* schedule() nor touches a quantum keeps it so.
LEMMA OrdinaryStep ==
    ASSUME Base, pc \notin {"body", "sched"}, GoodStep, UNCHANGED ticks
    PROVE  /\ StackOK' /\ TicksOK' /\ SchedTop' /\ ArgOK'
           /\ NoSched' /\ (QuantumLeft => QuantumLeft')
<1>1. PICK s : Good(s) /\ Become(s)
  BY DEF GoodStep
<1>2. StackOK /\ SchedTop /\ ArgOK /\ TicksOK /\ cpu \in Proc
  BY TypeParts DEF Base, RestOK
<1>3. /\ StackOK' /\ ArgOK'
      /\ \A p \in Proc : \A i \in 1 .. Len(stk'[p]) : stk'[p][i].pc # "sched"
  BY <1>1, <1>2, BecomeGood
<1>4. QuantumLeft => \A p \in Proc : ticks[p] # 0
  BY DEF QuantumLeft, pc
<1>5. NoSched'
  BY <1>3 DEF NoSched
<1> QED BY <1>2, <1>3, <1>4, <1>5 DEF SchedTop, TicksOK, QuantumLeft

\* Goto, Call and Return are good steps, and so is a failing assertion.
LEMMA GotoGood == ASSUME NEW l \in Plain, Goto(l) PROVE GoodStep
  BY GoodShapes DEF Goto, GoodStep
LEMMA CallGood == ASSUME NEW f \in Plain, NEW l \in Plain, Call(f, l) PROVE GoodStep
  BY GoodShapes DEF Call, GoodStep
LEMMA ReturnGood == ASSUME Return PROVE GoodStep
  BY GoodShapes DEF Return, GoodStep
LEMMA FailGood ==
    ASSUME NEW msg \in Messages, failed \subseteq Messages, Fail(msg)
    PROVE  GoodStep /\ failed' \subseteq Messages
<1>1. {"req", "panic", "overflow"} \subseteq Plain
  BY DEF Plain, PCs
<1>2. GoodStep
  <2>1. CASE Call("req", "panic")
    BY <1>1, <2>1, CallGood
  <2>2. CASE Goto("overflow")
    BY <1>1, <2>2, GotoGood
  <2> QED BY <2>1, <2>2, Zenon DEF Fail
<1> QED BY <1>2 DEF Fail

\* The initial state satisfies the inductive invariant.
LEMMA InitIInv == Init => IInv
<1> SUFFICES ASSUME Init PROVE IInv
  OBVIOUS
<1>1. At("body") \in Frames /\ At("body").pc = "body"
  BY AtType DEF PCs
<1>2. stk = [p \in Proc |-> <<At("body")>>]
  BY DEF Init, lock_init
<1>3. StackOK
  BY <1>1, <1>2 DEF StackOK
<1>4. \A p \in Proc : \A i \in 1 .. Len(stk[p]) : stk[p][i].pc = "body"
  BY <1>1, <1>2
<1>5. SchedTop /\ ArgOK
  BY <1>4 DEF SchedTop, ArgOK
<1>6. /\ ticks = [p \in Proc |-> Prio[p]] /\ Prio \in [Proc -> 1 .. 255]
  BY KernelAssumption DEF Init, lock_init
<1>7. TicksOK /\ QuantumLeft
  BY <1>6 DEF TicksOK, QuantumLeft
<1>8. RestOK
  <2>1. cpu \in Proc /\ current \in Proc /\ intr \in BOOLEAN /\ hit \in BOOLEAN
        /\ failed \subseteq Messages /\ holder \in Proc \cup {NULL}
    BY Zenon DEF Init, lock_init, Proc
  <2>2. state \in [Proc -> States]
    BY DEF Init, lock_init, States
  <2>3. ready \in Seq(Proc) /\ waiters \in Seq(Proc)
    BY EmptySeq DEF Init, lock_init
  <2>4. repeat \in Nat /\ value \in 0 .. 255 /\ burst \in 0 .. MaxBurst
    BY KernelAssumption DEF Init, lock_init
  <2> QED BY <2>1, <2>2, <2>3, <2>4 DEF RestOK
<1> QED BY <1>3, <1>5, <1>7, <1>8, TypeParts DEF IInv, Base

\* One case of the induction step: an ordinary step that keeps the rest of
\* the state well typed.
LEMMA OrdinaryIInv ==
    ASSUME Base, pc \notin {"body", "sched"}, GoodStep, UNCHANGED ticks, RestOK'
    PROVE  Kept
<1>1. /\ StackOK' /\ TicksOK' /\ SchedTop' /\ ArgOK'
      /\ NoSched' /\ (QuantumLeft => QuantumLeft')
  BY OrdinaryStep
<1>2. TypeOK'
  BY <1>1 DEF TypeOK, StackOK, TicksOK, RestOK
<1> QED BY <1>1, <1>2 DEF Kept, Base

\* req_lock, up to the test of the semaphore or the second entry.
LEMMA ReqLockIInv == ASSUME Base, req_lock PROVE Kept
<1>1. RestOK
  BY TypeParts DEF Base
<1>2. pc = "req" /\ UNCHANGED ticks
  BY DEF req_lock, threadVars
<1>3. GoodStep
  <2>1. {"down", "crit"} \subseteq Plain
    BY DEF Plain, PCs
  <2>2. CASE Goto("down")
    BY <2>1, <2>2, GotoGood
  <2>3. CASE Goto("crit")
    BY <2>1, <2>3, GotoGood
  <2> QED BY <2>2, <2>3, Zenon DEF req_lock
<1>4. repeat' = repeat \/ repeat' = repeat + 1
  BY Zenon DEF req_lock
<1>5. UNCHANGED <<cpu, current, intr, ready, waiters, state, holder, value, burst, failed, hit>>
  BY Zenon DEF req_lock, threadVars
<1>6. RestOK'
  BY <1>1, <1>4, <1>5 DEF RestOK
<1> QED BY <1>2, <1>3, <1>6, OrdinaryIInv

\* The steps that only move on and assign one variable of the lock.
LEMMA LockStepsIInv ==
    ASSUME Base,
           \/ thread_block_end \/ set_holder \/ set_repeat \/ console_done
           \/ clear_holder \/ clear_repeat
    PROVE  Kept
<1>1. RestOK
  BY TypeParts DEF Base
<1>2. {"again", "owned", "crit", "rel", "relrep", "up"} \subseteq Plain
  BY DEF Plain, PCs
<1>3. CASE thread_block_end
  <2>1. /\ pc = "blocked" /\ intr' = TRUE /\ Goto("again") /\ UNCHANGED ticks
        /\ UNCHANGED <<cpu, current, ready, waiters, state, holder, repeat, value, burst, failed, hit>>
    BY <1>3, Zenon DEF thread_block_end, threadVars, lockVars
  <2> QED BY <1>1, <1>2, <2>1, GotoGood, OrdinaryIInv DEF RestOK
<1>4. CASE set_holder
  <2>1. /\ pc = "gotsema" /\ holder' = current /\ Goto("owned") /\ UNCHANGED ticks
        /\ UNCHANGED <<cpu, current, intr, ready, waiters, state, repeat, value, burst, failed, hit>>
    BY <1>4, Zenon DEF set_holder, threadVars
  <2> QED BY <1>1, <1>2, <2>1, GotoGood, OrdinaryIInv DEF RestOK
<1>5. CASE set_repeat
  <2>1. /\ pc = "checked" /\ repeat' = 1 /\ Goto("crit") /\ UNCHANGED ticks
        /\ UNCHANGED <<cpu, current, intr, ready, waiters, state, holder, value, burst, failed, hit>>
    BY <1>5, Zenon DEF set_repeat, threadVars
  <2> QED BY <1>1, <1>2, <2>1, GotoGood, OrdinaryIInv DEF RestOK
<1>6. CASE console_done
  <2>1. /\ pc = "crit" /\ Goto("rel") /\ UNCHANGED ticks
        /\ UNCHANGED <<cpu, current, intr, ready, waiters, state, holder, repeat, value, burst,
                       failed, hit>>
    BY <1>6, Zenon DEF console_done, threadVars, lockVars
  <2> QED BY <1>1, <1>2, <2>1, GotoGood, OrdinaryIInv DEF RestOK
<1>7. CASE clear_holder
  <2>1. /\ pc = "relown" /\ holder' = NULL /\ Goto("relrep") /\ UNCHANGED ticks
        /\ UNCHANGED <<cpu, current, intr, ready, waiters, state, repeat, value, burst, failed, hit>>
    BY <1>7, Zenon DEF clear_holder, threadVars
  <2> QED BY <1>1, <1>2, <2>1, GotoGood, OrdinaryIInv DEF RestOK
<1>8. CASE clear_repeat
  <2>1. /\ pc = "relrep" /\ repeat' = 0 /\ Goto("up") /\ UNCHANGED ticks
        /\ UNCHANGED <<cpu, current, intr, ready, waiters, state, holder, value, burst, failed, hit>>
    BY <1>8, Zenon DEF clear_repeat, threadVars
  <2> QED BY <1>1, <1>2, <2>1, GotoGood, OrdinaryIInv DEF RestOK
<1> QED BY <1>3, <1>4, <1>5, <1>6, <1>7, <1>8

\* The steps that check one assertion and go on, return or fail.
LEMMA CheckStepsIInv ==
    ASSUME Base, check_repeat \/ check_holder \/ release_repeat
    PROVE  Kept
<1>1. RestOK
  BY TypeParts DEF Base
<1>2. {"checked", "relcnt", "relown"} \subseteq Plain
  BY DEF Plain, PCs
<1>3. /\ pc \in {"owned", "rel", "relcnt"}
      /\ UNCHANGED <<ticks, cpu, current, intr, ready, waiters, state, holder, value, burst, hit>>
  BY Zenon DEF check_repeat, check_holder, release_repeat, threadVars, lockVars
<1>4. \/ UNCHANGED failed /\ (Goto("checked") \/ Goto("relcnt") \/ Goto("relown") \/ Return)
      \/ \E msg \in {"another thread is requiring", "lock hold by other thread",
                     "not the last time to release"} : Fail(msg)
  BY Zenon DEF check_repeat, check_holder, release_repeat, Ok
<1>5. GoodStep /\ failed' \subseteq Messages
  <2>1. CASE UNCHANGED failed /\ (Goto("checked") \/ Goto("relcnt") \/ Goto("relown") \/ Return)
    BY <1>1, <1>2, <2>1, GotoGood, ReturnGood DEF RestOK
  <2>2. ASSUME NEW msg \in {"another thread is requiring", "lock hold by other thread",
                            "not the last time to release"},
               Fail(msg)
        PROVE  GoodStep /\ failed' \subseteq Messages
    <3>1. msg \in Messages /\ failed \subseteq Messages
      BY <1>1 DEF Messages, RestOK
    <3> QED BY <2>2, <3>1, FailGood
  <2> QED BY <1>4, <2>1, <2>2
<1>6. repeat' \in Nat
  <2>1. repeat' = repeat \/ (repeat > 1 /\ repeat' = repeat - 1)
    BY Zenon DEF check_repeat, check_holder, release_repeat, lockVars
  <2> QED BY <1>1, <2>1 DEF RestOK
<1>7. RestOK'
  BY <1>1, <1>3, <1>5, <1>6 DEF RestOK
<1> QED BY <1>3, <1>5, <1>7, OrdinaryIInv

\* sema_down: the three ways through one round of its loop.
LEMMA SemaDownIInv == ASSUME Base, sema_down PROVE Kept
<1>1. RestOK /\ StackOK /\ TicksOK
  BY TypeParts DEF Base
<1>2. /\ pc \in {"down", "again"}
      /\ UNCHANGED <<cpu, current, ready, ticks, holder, repeat, burst, hit>>
  BY Zenon DEF sema_down
<1>3. ASSUME value = 0, Contains(waiters, current) PROVE Kept
  <2>1. /\ Fail("running thread must not be waiting")
        /\ intr' = (intr /\ pc = "again")
        /\ UNCHANGED <<waiters, state, value>>
    BY <1>3, Zenon DEF sema_down
  <2>2. "running thread must not be waiting" \in Messages
    BY DEF Messages
  <2>3. GoodStep /\ failed' \subseteq Messages
    BY <1>1, <2>1, <2>2, FailGood DEF RestOK
  <2>4. intr' \in BOOLEAN
    BY <2>1, Zenon
  <2>5. RestOK'
    BY <1>1, <1>2, <2>1, <2>3, <2>4 DEF RestOK
  <2> QED BY <1>2, <2>3, <2>5, OrdinaryIInv
<1>4. ASSUME value # 0 PROVE Kept
  <2>1. /\ value' = value - 1 /\ intr' = TRUE
        /\ UNCHANGED <<waiters, state>>
        /\ IF value' = 0 THEN Ok(Goto("gotsema")) ELSE Fail("sem value can't be less than 0")
    BY <1>4, Zenon DEF sema_down
  <2>2. "sem value can't be less than 0" \in Messages /\ "gotsema" \in Plain
    BY DEF Messages, Plain, PCs
  <2>3. GoodStep /\ failed' \subseteq Messages
    <3>1. CASE Ok(Goto("gotsema"))
      BY <1>1, <2>2, <3>1, GotoGood DEF RestOK, Ok
    <3>2. CASE Fail("sem value can't be less than 0")
      BY <1>1, <2>2, <3>2, FailGood DEF RestOK
    <3> QED BY <2>1, <3>1, <3>2
  <2>4. value' \in 0 .. 255
    <3>1. value \in 0 .. 255 /\ value' = value - 1
      BY <1>1, <2>1, Zenon DEF RestOK
    <3> QED BY <1>4, <3>1
  <2>5. RestOK'
    BY <1>1, <1>2, <2>1, <2>3, <2>4 DEF RestOK
  <2> QED BY <1>2, <2>3, <2>5, OrdinaryIInv
<1>5. ASSUME value = 0, ~Contains(waiters, current) PROVE Kept
  <2>1. /\ waiters' = Append(waiters, current)
        /\ state' = [state EXCEPT ![current] = "BLOCKED"]
        /\ intr' = FALSE /\ UNCHANGED <<value, failed>>
        /\ Become(<<At("sched"), At("blocked")>>)
    BY <1>5, Zenon DEF sema_down, Ok, Call
  <2>2. RestOK'
    <3>1. waiters' \in Seq(Proc)
      BY <1>1, <2>1, AppendProperties DEF RestOK
    <3>2. state' \in [Proc -> States]
      BY <1>1, <2>1 DEF RestOK, States
    <3> QED BY <1>1, <1>2, <2>1, <3>1, <3>2 DEF RestOK
  <2>3. /\ At("sched") \in Frames /\ At("sched").pc = "sched"
        /\ At("blocked") \in Frames /\ At("blocked").pc = "blocked"
    BY AtType DEF PCs
  <2>4. /\ StackOK' /\ ArgOK'
        /\ \A p \in Proc : \A i \in 1 .. Len(stk'[p]) :
              stk'[p][i].pc = "sched" => i = 1 /\ p = cpu
    <3> DEFINE s == <<At("sched"), At("blocked")>>
    <3>1. /\ s \in Seq(Frames) /\ Len(s) = 2
          /\ s[1].pc = "sched" /\ s[2].pc = "blocked"
      BY <2>3
    <3>2. Become(s)
      BY <2>1
    <3> HIDE DEF s
    <3>3. pc # "body" /\ cpu \in Proc
      BY <1>1, <1>2 DEF RestOK
    <3>4. /\ stk' \in [Proc -> Seq(Frames)]
          /\ \A p \in Proc \ {cpu} : stk'[p] = stk[p]
          /\ Len(stk[cpu]) > 1
          /\ Len(stk'[cpu]) = Len(s) + Len(stk[cpu]) - 1
          /\ \A i \in 1 .. Len(s) : stk'[cpu][i] = s[i]
          /\ \A i \in Len(s) + 1 .. Len(stk'[cpu]) : stk'[cpu][i] = stk[cpu][i - Len(s) + 1]
      BY <1>1, <3>1, <3>2, <3>3, BecomeFrames
    <3>5. Len(stk[cpu]) \in Nat /\ stk[cpu][Len(stk[cpu])].pc = "body"
      BY <1>1, <3>3 DEF StackOK
    <3>6. Len(stk'[cpu]) > 0 /\ stk'[cpu][Len(stk'[cpu])] = stk[cpu][Len(stk[cpu])]
      <4>1. Len(s) \in Nat
        BY <3>1
      <4> QED BY <3>4, <3>5, <4>1, LastKept
    <3>7. StackOK'
      BY <1>1, <3>4, <3>5, <3>6 DEF StackOK
    <3>8. ASSUME NEW i \in 1 .. Len(stk'[cpu])
          PROVE  /\ stk'[cpu][i].pc = "sched" => i = 1
                 /\ stk'[cpu][i].pc = "switch" => stk'[cpu][i].arg \in Proc
      <4>1. CASE i = 1 \/ i = 2
        BY <3>1, <3>4, <4>1
      <4>2. CASE i \in 3 .. Len(stk'[cpu])
        <5>1. stk'[cpu][i] = stk[cpu][i - 1] /\ i - 1 \in 2 .. Len(stk[cpu])
          BY <3>1, <3>4, <3>5, <4>2
        <5> QED BY <3>3, <5>1 DEF Base, SchedTop, ArgOK
      <4> QED BY <3>1, <3>4, <3>5, <4>1, <4>2
    <3>9. ASSUME NEW p \in Proc, p # cpu, NEW i \in 1 .. Len(stk'[p])
          PROVE  /\ stk'[p][i].pc # "sched"
                 /\ stk'[p][i].pc = "switch" => stk'[p][i].arg \in Proc
      BY <3>4, <3>9 DEF Base, SchedTop, ArgOK
    <3> QED BY <3>7, <3>8, <3>9 DEF ArgOK
  <2>5. SchedTop'
    BY <1>2, <2>1, <2>4 DEF SchedTop
  <2>6. TicksOK' /\ (QuantumLeft => QuantumLeft')
    <3>1. QuantumLeft => \A p \in Proc : ticks[p] # 0
      BY <1>2 DEF QuantumLeft, pc
    <3> QED BY <1>1, <1>2, <3>1 DEF TicksOK, QuantumLeft
  <2>7. TypeOK'
    BY <2>2, <2>4, <2>6 DEF TypeOK, StackOK, TicksOK, RestOK
  <2>8. Blocking
    BY <1>2, <1>5 DEF Blocking
  <2> QED BY <2>4, <2>5, <2>6, <2>7, <2>8 DEF Kept, Base
<1> QED BY <1>3, <1>4, <1>5

\* sema_up, with thread_unblock.
LEMMA SemaUpIInv == ASSUME Base, sema_up PROVE Kept
<1>1. RestOK
  BY TypeParts DEF Base
<1>2. /\ pc \in {"up", "upinc"}
      /\ UNCHANGED <<cpu, current, ticks, holder, repeat, burst, hit>>
  BY Zenon DEF sema_up
<1>3. {"upinc"} \subseteq Plain
  BY DEF Plain, PCs
<1>4. ASSUME NEW msg \in Messages, Fail(msg) PROVE GoodStep /\ failed' \subseteq Messages
  BY <1>1, <1>4, FailGood DEF RestOK
<1>5. /\ "before V sema val must be 0" \in Messages /\ "after V sema must be 1" \in Messages
      /\ "already unblocked" \in Messages
      /\ "thread unblock:blocked thread already in ready list" \in Messages
  BY DEF Messages
<1>6. CASE pc = "up" /\ value # 0
  <2>1. /\ Fail("before V sema val must be 0") /\ intr' = FALSE
        /\ UNCHANGED <<value, waiters, ready, state>>
    BY <1>6, Zenon DEF sema_up
  <2>2. GoodStep /\ failed' \subseteq Messages
    BY <1>4, <1>5, <2>1
  <2>3. RestOK'
    BY <1>1, <1>2, <2>1, <2>2 DEF RestOK
  <2> QED BY <1>2, <2>2, <2>3, OrdinaryIInv
<1>7. CASE pc = "up" /\ value = 0 /\ waiters # <<>>
  <2>1. /\ waiters' = Tail(waiters) /\ UNCHANGED value
        /\ thread_unblock(Head(waiters))
    BY <1>7, Zenon DEF sema_up
  <2>2. Head(waiters) \in Proc /\ waiters' \in Seq(Proc)
    BY <1>1, <1>7, <2>1 DEF RestOK
  <2>3. \/ /\ \/ Fail("already unblocked")
              \/ Fail("thread unblock:blocked thread already in ready list")
           /\ intr' = FALSE /\ UNCHANGED <<ready, state>>
        \/ /\ ready' = <<Head(waiters)>> \o ready
           /\ state' = [state EXCEPT ![Head(waiters)] = "READY"]
           /\ intr' = TRUE /\ Goto("upinc") /\ UNCHANGED failed
    BY <2>1, Zenon DEF thread_unblock, Ok
  <2>4. GoodStep /\ failed' \subseteq Messages
    <3>1. CASE Goto("upinc") /\ UNCHANGED failed
      BY <1>1, <1>3, <3>1, GotoGood DEF RestOK
    <3> QED BY <1>4, <1>5, <2>3, <3>1
  <2>5. ready' \in Seq(Proc) /\ state' \in [Proc -> States] /\ intr' \in BOOLEAN
    <3>1. <<Head(waiters)>> \o ready \in Seq(Proc)
      BY <1>1, <2>2 DEF RestOK
    <3>2. [state EXCEPT ![Head(waiters)] = "READY"] \in [Proc -> States]
      BY <1>1, <2>2 DEF RestOK, States
    <3>3. ready \in Seq(Proc) /\ state \in [Proc -> States]
      BY <1>1 DEF RestOK
    <3> QED BY <2>3, <3>1, <3>2, <3>3, Zenon
  <2>6. RestOK'
    BY <1>1, <1>2, <2>1, <2>2, <2>4, <2>5 DEF RestOK
  <2> QED BY <1>2, <2>4, <2>6, OrdinaryIInv
<1>8. CASE pc = "upinc" \/ (value = 0 /\ waiters = <<>>)
  <2>0. ~(pc = "up" /\ value # 0) /\ ~(pc = "up" /\ waiters # <<>>)
    BY <1>8
  <2>1. /\ value' = (value + 1) % 256 /\ intr' = TRUE
        /\ UNCHANGED <<waiters, ready, state>>
        /\ IF value' = 1 THEN Ok(Return) ELSE Fail("after V sema must be 1")
    BY <2>0, Zenon DEF sema_up
  <2>2. GoodStep /\ failed' \subseteq Messages
    <3>1. CASE Ok(Return)
      BY <1>1, <3>1, ReturnGood DEF RestOK, Ok
    <3>2. CASE Fail("after V sema must be 1")
      BY <1>4, <1>5, <3>2
    <3> QED BY <2>1, <3>1, <3>2
  <2>3. value' \in 0 .. 255
    <3>1. value \in 0 .. 255 /\ value' = (value + 1) % 256
      BY <1>1, <2>1, Zenon DEF RestOK
    <3> QED BY <3>1
  <2>4. RestOK'
    BY <1>1, <1>2, <2>1, <2>2, <2>3 DEF RestOK
  <2> QED BY <1>2, <2>2, <2>4, OrdinaryIInv
<1> QED BY <1>2, <1>6, <1>7, <1>8

\* schedule(): it leaves every quantum positive, whether it returns at once,
\* refills the quantum, or goes on to switch_thread.
LEMMA ScheduleBase == ASSUME Base, schedule PROVE Base' /\ NoSched'
<1>1. RestOK /\ StackOK /\ TicksOK /\ SchedTop /\ ArgOK
  BY TypeParts DEF Base
<1>2. /\ pc = "sched"
      /\ UNCHANGED <<cpu, current, intr, waiters, holder, repeat, value, burst, failed>>
      /\ hit' = (hit \/ (ticks[current] = 0 /\ ready # <<>> /\ Has(Tail(stk[cpu]), LockPCs)))
  BY Zenon DEF schedule, lockVars
<1>3. hit' \in BOOLEAN
  BY <1>1, <1>2, Zenon DEF RestOK
<1>4. Prio \in [Proc -> 1 .. 255] /\ current \in Proc
  BY <1>1, KernelAssumption DEF RestOK
<1>5. TicksOK'
  <2>1. CASE ticks[current] # 0
    <3>1. ticks' = ticks
      BY <2>1, Zenon DEF schedule
    <3> QED BY <1>1, <3>1 DEF TicksOK
  <2>2. CASE ticks[current] = 0
    <3>1. ticks' = [ticks EXCEPT ![current] = Prio[current]]
      BY <2>2, Zenon DEF schedule
    <3> QED BY <1>1, <1>4, <3>1 DEF TicksOK
  <2> QED BY <2>1, <2>2
<1>6. ready' \in Seq(Proc) /\ state' \in [Proc -> States] /\ GoodStep
  <2>1. CASE Return /\ UNCHANGED <<ready, state>>
    BY <1>1, <2>1, ReturnGood DEF RestOK
  <2>2. CASE /\ ready # <<>>
             /\ ready' = Append(Tail(ready), current)
             /\ state' = [state EXCEPT ![current] = "READY", ![Head(ready)] = "RUNNING"]
             /\ Become(<<At("req"), Frame("switch", Head(ready))>>)
    <3>1. ready \in Seq(Proc) /\ Head(ready) \in Proc
      BY <1>1, <2>2 DEF RestOK
    <3>2. ready' \in Seq(Proc)
      BY <1>4, <2>2, <3>1, RotateElements
    <3>3. state' \in [Proc -> States]
      BY <1>1, <1>4, <2>2, <3>1 DEF RestOK, States
    <3>4. At("req") \in Frames /\ At("req").pc = "req"
      BY AtType DEF PCs
    <3>5. /\ Frame("switch", Head(ready)) \in Frames
          /\ Frame("switch", Head(ready)).pc = "switch"
          /\ Frame("switch", Head(ready)).arg \in Proc
      BY <3>1 DEF Frame, Frames, PCs
    <3>6. Good(<<At("req"), Frame("switch", Head(ready))>>)
      BY <3>4, <3>5 DEF Good
    <3> QED BY <2>2, <3>2, <3>3, <3>6 DEF GoodStep
  <2> QED BY <2>1, <2>2, Zenon DEF schedule
<1>7. PICK s : Good(s) /\ Become(s)
  BY <1>6 DEF GoodStep
<1>8. cpu \in Proc /\ pc # "body"
  BY <1>1, <1>2 DEF RestOK
<1>9. /\ StackOK' /\ ArgOK'
      /\ \A p \in Proc : \A i \in 1 .. Len(stk'[p]) : stk'[p][i].pc # "sched"
  BY <1>1, <1>7, <1>8, BecomeGood
<1>10. SchedTop' /\ NoSched'
  BY <1>9 DEF SchedTop, NoSched
<1>11. RestOK'
  BY <1>1, <1>2, <1>3, <1>6 DEF RestOK
<1>12. TypeOK'
  BY <1>5, <1>9, <1>11 DEF TypeOK, StackOK, TicksOK, RestOK
<1> QED BY <1>9, <1>10, <1>12 DEF Base

LEMMA ScheduleIInv == ASSUME IInv, schedule PROVE IInv'
<1>1. TicksOK /\ current \in Proc /\ Prio \in [Proc -> 1 .. 255]
  BY TypeParts, KernelAssumption DEF IInv, Base, RestOK
<1>2. \A p \in Proc : ticks'[p] # 0
  <2>1. CASE ticks[current] # 0
    <3>1. ticks' = ticks
      BY <2>1, Zenon DEF schedule
    <3> QED BY <2>1, <3>1 DEF IInv, QuantumLeft
  <2>2. CASE ticks[current] = 0
    <3>1. ticks' = [ticks EXCEPT ![current] = Prio[current]]
      BY <2>2, Zenon DEF schedule
    <3> QED BY <1>1, <3>1 DEF IInv, TicksOK, QuantumLeft
  <2> QED BY <2>1, <2>2
<1>3. Base'
  BY ScheduleBase DEF IInv
<1>4. QuantumLeft'
  BY <1>2 DEF QuantumLeft
<1> QED BY <1>3, <1>4 DEF IInv

\* switch_thread and switch_to.
LEMMA SwitchIInv ==
    ASSUME Base, switch_thread \/ switch_to \/ switch_end
    PROVE  Kept
<1>1. RestOK /\ StackOK /\ ArgOK
  BY TypeParts DEF Base
<1>2. CASE switch_thread
  <2>1. /\ pc = "switch"
        /\ UNCHANGED <<cpu, ready, ticks, waiters, holder, repeat, value, intr, burst, failed, hit>>
    BY <1>2, Zenon DEF switch_thread, lockVars
  <2>2. arg \in Proc
    <3>1. /\ cpu \in Proc /\ stk[cpu] \in Seq(Frames) /\ Len(stk[cpu]) \in Nat
          /\ Len(stk[cpu]) > 0
      BY <1>1 DEF RestOK, StackOK
    <3>2. Head(stk[cpu]) = stk[cpu][1] /\ 1 \in 1 .. Len(stk[cpu])
      BY <3>1
    <3> QED BY <1>1, <2>1, <3>1, <3>2 DEF ArgOK, pc, arg
  <2>3. CASE current # arg
    <3>1. /\ state' = [state EXCEPT ![current] = "READY"] /\ current' = arg
          /\ Become(<<Frame("switch_to", current)>>)
      BY <1>2, <2>3, Zenon DEF switch_thread
    <3>2. Frame("switch_to", current) \in Frames /\ Frame("switch_to", current).pc = "switch_to"
      BY <1>1 DEF Frame, Frames, PCs, RestOK
    <3>3. Good(<<Frame("switch_to", current)>>)
      BY <3>2 DEF Good
    <3>4. GoodStep
      BY <3>1, <3>3 DEF GoodStep
    <3>5. RestOK'
      BY <1>1, <2>1, <2>2, <3>1 DEF RestOK, States
    <3> QED BY <2>1, <3>4, <3>5, OrdinaryIInv
  <2>4. CASE current = arg
    <3>1. Return /\ UNCHANGED <<current, state>>
      BY <1>2, <2>4, Zenon DEF switch_thread
    <3>2. RestOK'
      BY <1>1, <2>1, <3>1 DEF RestOK
    <3> QED BY <2>1, <3>1, <3>2, ReturnGood, OrdinaryIInv
  <2> QED BY <2>3, <2>4
<1>3. CASE switch_to
  <2>1. /\ pc = "switch_to" /\ Goto("resumed") /\ cpu' = current
        /\ intr' = (Head(stk[current]).pc # "resumed")
        /\ UNCHANGED <<current, ready, state, ticks, waiters, holder, repeat, value, burst, failed, hit>>
    BY <1>3, Zenon DEF switch_to, lockVars
  <2>2. "resumed" \in Plain
    BY DEF Plain, PCs
  <2>3. intr' \in BOOLEAN
    BY <2>1, Zenon
  <2>4. RestOK'
    BY <1>1, <2>1, <2>3 DEF RestOK
  <2> QED BY <2>1, <2>2, <2>4, GotoGood, OrdinaryIInv
<1>4. CASE switch_end
  <2>1. /\ pc = "resumed" /\ intr' = TRUE /\ Return
        /\ state' = [state EXCEPT ![current] = "RUNNING"]
        /\ UNCHANGED <<cpu, current, ready, ticks, waiters, holder, repeat, value, burst, failed, hit>>
    BY <1>4, Zenon DEF switch_end, lockVars
  <2>2. RestOK'
    BY <1>1, <2>1 DEF RestOK, States
  <2> QED BY <2>1, <2>2, ReturnGood, OrdinaryIInv
<1> QED BY <1>2, <1>3, <1>4

\* The end of a handler, and the two further uses of printk by panic.
LEMMA IretPanicIInv == ASSUME Base, iret \/ panic PROVE Kept
<1>1. RestOK
  BY TypeParts DEF Base
<1>2. CASE iret
  <2>1. /\ pc = "iret" /\ intr' = TRUE /\ Return /\ UNCHANGED ticks
        /\ UNCHANGED <<cpu, current, ready, state, waiters, holder, repeat, value, burst, failed, hit>>
    BY <1>2, Zenon DEF iret, threadVars, lockVars
  <2>2. RestOK'
    BY <1>1, <2>1 DEF RestOK
  <2> QED BY <2>1, <2>2, ReturnGood, OrdinaryIInv
<1>3. CASE panic
  <2>1. /\ pc = "panic" /\ Call("req", "spin") /\ UNCHANGED ticks
        /\ UNCHANGED <<cpu, current, intr, ready, state, waiters, holder, repeat, value, burst,
                       failed, hit>>
    BY <1>3, Zenon DEF panic, threadVars, lockVars
  <2>2. "req" \in Plain /\ "spin" \in Plain
    BY DEF Plain, PCs
  <2>3. RestOK'
    BY <1>1, <2>1 DEF RestOK
  <2> QED BY <2>1, <2>2, <2>3, CallGood, OrdinaryIInv
<1> QED BY <1>2, <1>3

\* The boot thread creates a thread; a thread function calls printk.
LEMMA BodyStepsIInv ==
    ASSUME Base, printk \/ \E new \in Threads : kthread_create(new)
    PROVE  Kept
<1>1. RestOK /\ StackOK /\ TicksOK /\ SchedTop /\ ArgOK
  BY TypeParts DEF Base
<1>2. pc = "body" /\ UNCHANGED ticks
  BY Zenon DEF printk, kthread_create, threadVars
<1>3. QuantumLeft => \A p \in Proc : ticks[p] # 0
  BY <1>2 DEF QuantumLeft, pc
<1>4. CASE printk
  <2> DEFINE t == stk[cpu]
             s == <<At("req"), At("body")>>
             u == s \o Tail(t)
  <2>1. /\ stk' = [stk EXCEPT ![cpu] = u]
        /\ UNCHANGED <<cpu, current, ready, state, waiters, holder, repeat, value, intr, burst,
                       failed, hit>>
    BY <1>4, Zenon DEF printk, Call, Become, threadVars, lockVars
  <2>2. cpu \in Proc /\ t \in Seq(Frames) /\ Len(t) \in Nat /\ Len(t) > 0
        /\ t[Len(t)].pc = "body"
    BY <1>1 DEF RestOK, StackOK
  <2>3. At("req") \in Frames /\ At("req").pc = "req"
        /\ At("body") \in Frames /\ At("body").pc = "body"
    BY AtType DEF PCs
  <2>4. s \in Seq(Frames) /\ Len(s) = 2 /\ s[1].pc = "req" /\ s[2].pc = "body"
    BY <2>3
  <2>5. /\ Tail(t) \in Seq(Frames) /\ Len(Tail(t)) = Len(t) - 1
        /\ \A i \in 1 .. Len(t) - 1 : Tail(t)[i] = t[i + 1]
    BY <2>2
  <2> HIDE DEF t
  <2>6. /\ u \in Seq(Frames) /\ Len(u) = Len(t) + 1
        /\ u[1] = s[1] /\ u[2] = s[2]
        /\ \A i \in 3 .. Len(u) : u[i] = t[i - 1]
    <3>1. /\ u \in Seq(Frames) /\ Len(u) = Len(Tail(t)) + 2
          /\ u[1] = At("req") /\ u[2] = At("body")
          /\ \A i \in 3 .. Len(Tail(t)) + 2 : u[i] = Tail(t)[i - 2]
      BY <2>3, <2>5, PushTwo
    <3>2. s[1] = At("req") /\ s[2] = At("body")
      OBVIOUS
    <3> HIDE DEF u, s
    <3>3. Len(u) = Len(t) + 1 /\ u[1] = s[1] /\ u[2] = s[2]
      BY <2>2, <2>5, <3>1, <3>2
    <3>4. ASSUME NEW i \in 3 .. Len(u) PROVE u[i] = t[i - 1]
      <4>1. i \in 3 .. Len(Tail(t)) + 2 /\ i - 2 \in 1 .. Len(t) - 1 /\ (i - 2) + 1 = i - 1
        BY <2>2, <2>5, <3>1, <3>4
      <4>2. u[i] = Tail(t)[i - 2] /\ Tail(t)[i - 2] = t[(i - 2) + 1]
        BY <2>5, <3>1, <4>1, Zenon
      <4> QED BY <4>1, <4>2
    <3> QED BY <3>1, <3>3, <3>4
  <2> HIDE DEF s
  <2> HIDE DEF u
  <2>7. u[Len(u)].pc = "body"
    <3>1. CASE Len(t) = 1
      BY <2>4, <2>6, <3>1
    <3>2. CASE Len(t) > 1
      BY <2>2, <2>6, <3>2
    <3>3. Len(t) = 1 \/ Len(t) > 1
      <4>1. Len(t) \in Nat /\ Len(t) > 0
        BY <2>2, Zenon
      <4> QED BY <4>1, OneOrMore, Zenon
    <3> QED BY <3>1, <3>2, <3>3
  <2>8. stk'[cpu] = u /\ \A p \in Proc \ {cpu} : stk'[p] = stk[p]
    BY <1>1, <2>1, <2>2 DEF StackOK
  <2>9. StackOK'
    <3>1. stk' \in [Proc -> Seq(Frames)]
      BY <1>1, <2>1, <2>6 DEF StackOK
    <3>2. Len(u) > 0
      BY <2>2, <2>6
    <3> QED BY <1>1, <2>7, <2>8, <3>1, <3>2 DEF StackOK
  <2>10. ASSUME NEW i \in 1 .. Len(u)
         PROVE  u[i].pc # "sched" /\ (u[i].pc = "switch" => u[i].arg \in Proc)
    <3>1. CASE i = 1 \/ i = 2
      BY <2>4, <2>6, <3>1
    <3>2. CASE i \in 3 .. Len(u)
      <4>1. u[i] = t[i - 1] /\ i - 1 \in 2 .. Len(t)
        BY <2>2, <2>6, <3>2
      <4> QED BY <1>1, <2>2, <4>1 DEF SchedTop, ArgOK, t
    <3> QED BY <2>2, <2>6, <2>10, <3>1, <3>2
  <2>11. ASSUME NEW p \in Proc, p # cpu, NEW i \in 1 .. Len(stk'[p])
         PROVE  /\ stk'[p][i].pc # "sched"
                /\ stk'[p][i].pc = "switch" => stk'[p][i].arg \in Proc
    BY <1>1, <2>8, <2>11 DEF SchedTop, ArgOK
  <2>12. SchedTop' /\ ArgOK'
    BY <2>8, <2>10, <2>11 DEF SchedTop, ArgOK
  <2>13. TypeOK'
    BY <1>1, <1>2, <2>1, <2>9 DEF TypeOK, StackOK, TicksOK, RestOK
  <2>14. QuantumLeft => QuantumLeft'
    BY <1>2, <1>3 DEF QuantumLeft
  <2>15. NoSched'
    BY <2>8, <2>10, <2>11 DEF NoSched
  <2> QED BY <2>12, <2>13, <2>14, <2>15 DEF Kept, Base
<1>5. ASSUME NEW t \in Threads, kthread_create(t) PROVE Kept
  <2>1. /\ state' = [state EXCEPT ![t] = "READY"] /\ ready' = Append(ready, t)
        /\ UNCHANGED <<cpu, current, intr, stk, waiters, holder, repeat, value, burst, failed, hit>>
    BY <1>5, Zenon DEF kthread_create, lockVars
  <2>2. t \in Proc
    BY DEF Proc
  <2>3. ready' \in Seq(Proc)
    BY <1>1, <2>1, <2>2, AppendProperties DEF RestOK
  <2>4. TypeOK'
    BY <1>1, <1>2, <2>1, <2>2, <2>3 DEF TypeOK, StackOK, TicksOK, RestOK, States
  <2>5. SchedTop' /\ ArgOK' /\ (QuantumLeft => QuantumLeft')
    BY <1>1, <1>2, <1>3, <2>1 DEF SchedTop, ArgOK, QuantumLeft
  <2>6. NoSched'
    <3>1. stk[cpu] \in Seq(Frames) /\ Len(stk[cpu]) > 0 /\ stk[cpu][1].pc # "sched"
      BY <1>1, <1>2 DEF RestOK, StackOK, pc
    <3> QED BY <1>1, <2>1, <3>1 DEF NoSched, SchedTop
  <2> QED BY <2>4, <2>5, <2>6 DEF Kept, Base
<1> QED BY <1>4, <1>5

\* What Interrupt(l) does to the stack of the CPU: two frames on top.
LEMMA InterruptFrames ==
    ASSUME StackOK, cpu \in Proc, NEW l \in PCs, Interrupt(l)
    PROVE  /\ StackOK'
           /\ \A p \in Proc \ {cpu} : stk'[p] = stk[p]
           /\ Len(stk'[cpu]) = Len(stk[cpu]) + 2 /\ Len(stk[cpu]) \in Nat
           /\ Head(stk'[cpu]) = stk'[cpu][1]
           /\ stk'[cpu][1].pc = l /\ stk'[cpu][2].pc = "iret"
           /\ \A i \in 3 .. Len(stk'[cpu]) : stk'[cpu][i] = stk[cpu][i - 2]
<1> DEFINE t == stk[cpu]
           s == <<At(l), At("iret")>>
           u == s \o t
<1>1. t \in Seq(Frames) /\ Len(t) \in Nat /\ Len(t) > 0 /\ t[Len(t)].pc = "body"
  BY DEF StackOK
<1>2. At(l) \in Frames /\ At(l).pc = l /\ At("iret") \in Frames /\ At("iret").pc = "iret"
  BY AtType DEF PCs
<1>3. s \in Seq(Frames) /\ Len(s) = 2 /\ s[1].pc = l /\ s[2].pc = "iret"
  BY <1>2
<1>4. stk' = [stk EXCEPT ![cpu] = u]
  BY DEF Interrupt
<1> HIDE DEF t
<1>5. /\ u \in Seq(Frames) /\ Len(u) = Len(t) + 2
      /\ u[1] = s[1] /\ u[2] = s[2]
      /\ \A i \in 3 .. Len(u) : u[i] = t[i - 2]
  <2>1. /\ u \in Seq(Frames) /\ Len(u) = Len(t) + 2
        /\ u[1] = At(l) /\ u[2] = At("iret")
        /\ \A i \in 3 .. Len(t) + 2 : u[i] = t[i - 2]
    BY <1>1, <1>2, PushTwo
  <2>2. s[1] = At(l) /\ s[2] = At("iret")
    OBVIOUS
  <2> QED BY <2>1, <2>2, Zenon
<1> HIDE DEF s
<1> HIDE DEF u
<1>6. u[Len(u)].pc = "body" /\ Len(u) > 0 /\ Head(u) = u[1]
  BY <1>1, <1>5
<1>7. stk'[cpu] = u /\ \A p \in Proc \ {cpu} : stk'[p] = stk[p]
  BY <1>4 DEF StackOK
<1>8. stk' \in [Proc -> Seq(Frames)]
  BY <1>4, <1>5 DEF StackOK
<1>9. StackOK'
  BY <1>6, <1>7, <1>8 DEF StackOK
<1> QED BY <1>1, <1>3, <1>5, <1>6, <1>7, <1>9 DEF t

\* The two interrupts.  They are taken with interrupts enabled, so no frame
\* of schedule() exists and every quantum is positive.
LEMMA InterruptStack ==
    ASSUME Base, intr, NEW l \in {"sched", "req"}, Interrupt(l), UNCHANGED cpu
    PROVE  /\ StackOK' /\ SchedTop' /\ ArgOK'
           /\ Head(stk'[cpu]).pc = l /\ stk'[cpu][2].pc = "iret"
<1>1. RestOK /\ StackOK /\ TicksOK /\ SchedTop /\ ArgOK
  BY TypeParts DEF Base
<1>2. intr /\ cpu \in Proc /\ current \in Proc
  BY <1>1, Zenon DEF RestOK
<1>3. \A p \in Proc : \A i \in 1 .. Len(stk[p]) : stk[p][i].pc # "sched"
  BY <1>1, <1>2 DEF SchedTop
<1>4. l \in PCs
  BY DEF PCs
<1>5. /\ StackOK'
      /\ \A p \in Proc \ {cpu} : stk'[p] = stk[p]
      /\ Len(stk'[cpu]) = Len(stk[cpu]) + 2 /\ Len(stk[cpu]) \in Nat
      /\ Head(stk'[cpu]) = stk'[cpu][1]
      /\ stk'[cpu][1].pc = l /\ stk'[cpu][2].pc = "iret"
      /\ \A i \in 3 .. Len(stk'[cpu]) : stk'[cpu][i] = stk[cpu][i - 2]
  BY <1>1, <1>2, <1>4, InterruptFrames
<1>6. intr' = FALSE
  BY DEF Interrupt
<1>7. ASSUME NEW i \in 1 .. Len(stk'[cpu])
      PROVE  /\ stk'[cpu][i].pc = "sched" => i = 1
             /\ stk'[cpu][i].pc = "switch" => stk'[cpu][i].arg \in Proc
  <2>1. CASE i = 1 \/ i = 2
    BY <1>5, <2>1
  <2>2. CASE i \in 3 .. Len(stk'[cpu])
    <3>1. stk'[cpu][i] = stk[cpu][i - 2] /\ i - 2 \in 1 .. Len(stk[cpu])
      BY <1>5, <2>2
    <3> QED BY <1>1, <1>2, <1>3, <3>1 DEF ArgOK
  <2> QED BY <1>5, <1>7, <2>1, <2>2
<1>8. ASSUME NEW p \in Proc, p # cpu, NEW i \in 1 .. Len(stk'[p])
      PROVE  /\ stk'[p][i].pc # "sched"
             /\ stk'[p][i].pc = "switch" => stk'[p][i].arg \in Proc
  BY <1>1, <1>3, <1>5, <1>8 DEF ArgOK
<1>9. SchedTop' /\ ArgOK'
  BY <1>6, <1>7, <1>8 DEF SchedTop, ArgOK
<1> QED BY <1>5, <1>9

\* The timer.
LEMMA TimerIInv == ASSUME IInv, timer_callback PROVE IInv'
<1>1. RestOK /\ StackOK /\ TicksOK /\ SchedTop /\ ArgOK /\ Base
  BY TypeParts DEF IInv, Base
<1>2. intr /\ cpu \in Proc /\ current \in Proc
  BY <1>1, Zenon DEF timer_callback, Interruptible, RestOK
<1>3. \A p \in Proc : \A i \in 1 .. Len(stk[p]) : stk[p][i].pc # "sched"
  BY <1>1, <1>2 DEF SchedTop
<1>4. \A p \in Proc : ticks[p] # 0
  <2>1. Len(stk[cpu]) > 0 /\ Len(stk[cpu]) \in Nat /\ stk[cpu] \in Seq(Frames)
    BY <1>1, <1>2 DEF StackOK
  <2>2. Head(stk[cpu]).pc # "sched"
    BY <1>2, <1>3, <2>1
  <2> QED BY <2>2 DEF IInv, QuantumLeft
<1>5. /\ ticks' = [ticks EXCEPT ![current] = (@ - 1) % 256] /\ Interrupt("sched")
      /\ burst' = IF Switching THEN burst + 1 ELSE 0
      /\ Switching => burst < MaxBurst
      /\ UNCHANGED <<cpu, current, ready, state, waiters, holder, repeat, value, failed, hit>>
  BY Zenon DEF timer_callback, lockVars
<1>6. ticks[current] \in 1 .. 255
  BY <1>1, <1>2, <1>4 DEF TicksOK
<1>7. (ticks[current] - 1) % 256 = ticks[current] - 1
  BY <1>6
<1>8. ticks' = [ticks EXCEPT ![current] = ticks[current] - 1]
  BY <1>5, <1>7, Zenon
<1>9. TicksOK' /\ \A p \in Proc : ticks'[p] = 0 => p = current
  <2>1. Prio \in [Proc -> 1 .. 255]
    BY KernelAssumption
  <2>2. /\ ticks \in [Proc -> 0 .. 255] /\ \A p \in Proc : ticks[p] <= Prio[p]
        /\ current \in Proc
    BY <1>1, <1>2 DEF TicksOK
  <2>3. ticks' \in [Proc -> 0 .. 255]
    BY <1>6, <1>8, <2>2
  <2>4. ASSUME NEW p \in Proc
        PROVE  ticks'[p] <= Prio[p] /\ (ticks'[p] = 0 => p = current)
    <3>1. CASE p = current
      <4>1. ticks'[p] = ticks[current] - 1
        BY <1>8, <2>2, <3>1
      <4>2. ticks[current] <= Prio[p] /\ Prio[p] \in 1 .. 255
        BY <2>1, <2>2, <3>1, Zenon
      <4>3. ticks'[p] <= Prio[p]
        BY <1>6, <4>1, <4>2, DecrementBelow, Zenon
      <4> QED BY <3>1, <4>3
    <3>2. CASE p # current
      BY <1>4, <1>8, <2>2, <3>2
    <3> QED BY <3>1, <3>2
  <2> QED BY <2>3, <2>4 DEF TicksOK
<1>10. /\ StackOK' /\ SchedTop' /\ ArgOK'
      /\ Head(stk'[cpu]).pc = "sched" /\ stk'[cpu][2].pc = "iret"
  BY <1>1, <1>2, <1>5, InterruptStack
<1>11. QuantumLeft'
  BY <1>5, <1>9, <1>10 DEF QuantumLeft
<1>12. burst' \in 0 .. MaxBurst
  <2>1. CASE Switching
    <3>1. burst' = burst + 1 /\ burst < MaxBurst /\ burst \in 0 .. MaxBurst
      BY <1>1, <1>5, <2>1, Zenon DEF RestOK
    <3> QED BY <3>1, KernelAssumption
  <2>2. CASE ~Switching
    <3>1. burst' = 0
      BY <1>5, <2>2, Zenon
    <3> QED BY <3>1, KernelAssumption
  <2> QED BY <2>1, <2>2
<1>13. intr' \in BOOLEAN
  BY <1>5, Zenon DEF Interrupt
<1>14. RestOK'
  <2>1. UNCHANGED <<cpu, current, ready, state, waiters, holder, repeat, value, failed, hit>>
    BY <1>5, Zenon
  <2> QED BY <1>1, <1>12, <1>13, <2>1 DEF RestOK
<1>15. TypeOK'
  BY <1>9, <1>10, <1>14 DEF TypeOK, StackOK, TicksOK, RestOK
<1> QED BY <1>10, <1>11, <1>15 DEF IInv, Base

\* A handler that only prints.
LEMMA PrintingIInv == ASSUME Base, printing_interrupt PROVE Kept
<1>1. RestOK /\ StackOK /\ TicksOK /\ SchedTop /\ ArgOK
  BY TypeParts DEF Base
<1>2. intr /\ cpu \in Proc /\ current \in Proc
  BY <1>1, Zenon DEF printing_interrupt, Interruptible, RestOK
<1>3. \A p \in Proc : \A i \in 1 .. Len(stk[p]) : stk[p][i].pc # "sched"
  BY <1>1, <1>2 DEF SchedTop
<1>4. QuantumLeft => \A p \in Proc : ticks[p] # 0
  <2>1. Len(stk[cpu]) > 0 /\ Len(stk[cpu]) \in Nat /\ stk[cpu] \in Seq(Frames)
    BY <1>1, <1>2 DEF StackOK
  <2>2. Head(stk[cpu]).pc # "sched"
    BY <1>2, <1>3, <2>1
  <2> QED BY <2>2 DEF QuantumLeft
<1>5. /\ Interrupt("req") /\ hit' = (hit \/ Has(stk[cpu], LockPCs))
      /\ UNCHANGED <<cpu, current, ready, state, ticks, waiters, holder, repeat, value, burst,
                     failed>>
  BY Zenon DEF printing_interrupt, threadVars, lockVars
<1>6. StackOK' /\ SchedTop' /\ ArgOK'
  BY <1>2, <1>5, InterruptStack
<1>7. intr' \in BOOLEAN /\ hit' \in BOOLEAN
  BY <1>1, <1>5, Zenon DEF Interrupt, RestOK
<1>8. RestOK'
  <2>1. UNCHANGED <<cpu, current, ready, state, ticks, waiters, holder, repeat, value, burst,
                    failed>>
    BY <1>5, Zenon
  <2> QED BY <1>1, <1>7, <2>1 DEF RestOK
<1>9. TicksOK' /\ (QuantumLeft => QuantumLeft')
  BY <1>1, <1>4, <1>5 DEF TicksOK, QuantumLeft
<1>10. TypeOK'
  BY <1>6, <1>8, <1>9 DEF TypeOK, StackOK, TicksOK, RestOK
<1>11. NoSched'
  <2>1. /\ Head(stk'[cpu]).pc = "req" /\ stk'[cpu] \in Seq(Frames) /\ Len(stk'[cpu]) > 0
        /\ UNCHANGED cpu
    BY <1>2, <1>5, <1>6, InterruptStack DEF StackOK
  <2>2. stk'[cpu][1].pc # "sched"
    BY <2>1
  <2> QED BY <1>6, <2>1, <2>2 DEF NoSched, SchedTop
<1> QED BY <1>6, <1>9, <1>10, <1>11 DEF Kept, Base

\* Every step keeps the inductive invariant.
LEMMA NextIInv == IInv /\ [Next]_vars => IInv'
<1> SUFFICES ASSUME IInv, [Next]_vars PROVE IInv'
  OBVIOUS
<1>0. Base /\ (Kept => IInv')
  BY DEF IInv, Kept
<1>1. CASE Execute
  BY <1>0, <1>1, ReqLockIInv, SemaDownIInv, LockStepsIInv, CheckStepsIInv, SemaUpIInv, ScheduleIInv,
     SwitchIInv, IretPanicIInv DEF Execute
<1>2. CASE printk \/ \E t \in Threads : kthread_create(t)
  BY <1>0, <1>2, BodyStepsIInv
<1>3. CASE timer_callback \/ printing_interrupt
  BY <1>0, <1>3, TimerIInv, PrintingIInv
<1>4. CASE UNCHANGED vars
  BY <1>4 DEF vars, threadVars, lockVars, IInv, Base, TypeOK, SchedTop, ArgOK, QuantumLeft
<1> QED BY <1>1, <1>2, <1>3, <1>4 DEF Next

\* The inductive invariant holds in every reachable state.
LEMMA Invariance == Spec => []IInv
<1>1. Init => IInv
  BY InitIInv
<1>2. IInv /\ [Next]_vars => IInv'
  BY NextIInv
<1> QED BY <1>1, <1>2, PTL DEF Spec

\* The kernel's variables and stacks stay well typed: no step returns from a
\* thread function and no quantum exceeds the priority it is refilled from.
THEOREM TypeCorrect == Spec => []TypeOK
<1>1. IInv => TypeOK
  BY DEF IInv, Base, Base
<1> QED BY <1>1, Invariance, PTL

\* A quantum of zero is seen only by the schedule() of the timer interrupt
\* that produced it, however interrupts nest and whatever the priorities.
THEOREM QuantumCorrect == Spec => []QuantumLeft
<1>1. IInv => QuantumLeft
  BY DEF IInv, Base
<1> QED BY <1>1, Invariance, PTL

(***************************************************************************)
(* The console lock.  As long as no interrupt handler has called printk    *)
(* over the lock functions, the assertions of sync.c and thread.c hold and *)
(* one thread at a time writes to the screen.                              *)
(*                                                                         *)
(* The argument: at most one frame of the lock functions exists, it is on  *)
(* the stack of the CPU, and above it there is nothing but the timer       *)
(* handler and its schedule(), which returns at once.  The lock variables  *)
(* are then those of a sequential program, given by the place of that one  *)
(* frame.                                                                  *)
(***************************************************************************)

\* No frame of stack s is in the lock functions.
NoLock(s) == \A i \in 1 .. Len(s) : s[i].pc \notin LockPCs

\* Stack s has one frame in the lock functions, it stands at l and above it
\* there are only the frames of a timer interrupt.
LockedAt(s, l) ==
    \E k \in 1 .. Len(s) :
        /\ s[k].pc = l
        /\ \A i \in 1 .. k - 1 : s[i].pc \in {"sched", "iret"}
        /\ \A i \in k + 1 .. Len(s) : s[i].pc \notin LockPCs

\* The lock as the one thread in the lock functions sees it at place l.
LockAt(l) ==
    \/ l = "down" /\ lock_init
    \/ l = "gotsema" /\ holder = NULL /\ repeat = 0 /\ value = 0
    \/ l \in {"owned", "checked"} /\ holder = current /\ repeat = 0 /\ value = 0
    \/ l \in {"crit", "rel", "relcnt", "relown"} /\ holder = current /\ repeat = 1 /\ value = 0
    \/ l = "relrep" /\ holder = NULL /\ repeat = 1 /\ value = 0
    \/ l = "up" /\ holder = NULL /\ repeat = 0 /\ value = 0

\* The stack of the CPU and the lock agree.
LockState ==
    \/ NoLock(stk[cpu]) /\ lock_init
    \/ \E l \in LockPCs : LockedAt(stk[cpu], l) /\ LockAt(l)

LockInv ==
    ~hit =>
        /\ failed = {} /\ waiters = <<>>
        /\ \A p \in Proc \ {cpu} : NoLock(stk[p])
        /\ LockState

(***************************************************************************)
(* Stacks                                                                  *)
(***************************************************************************)

\* A lock frame at the top is the only one.
LEMMA TopLock ==
    ASSUME NEW t \in Seq(Frames), NEW l, LockedAt(t, l), Head(t).pc \in LockPCs
    PROVE  Head(t).pc = l /\ NoLock(Tail(t))
<1>1. PICK k \in 1 .. Len(t) :
          /\ t[k].pc = l
          /\ \A i \in 1 .. k - 1 : t[i].pc \in {"sched", "iret"}
          /\ \A i \in k + 1 .. Len(t) : t[i].pc \notin LockPCs
  BY DEF LockedAt
<1>2. Len(t) \in Nat /\ Head(t) = t[1]
  BY <1>1
<1>3. k = 1
  <2>1. "sched" \notin LockPCs /\ "iret" \notin LockPCs
    BY DEF LockPCs
  <2> QED BY <1>1, <1>2, <2>1
<1>4. /\ Len(Tail(t)) = Len(t) - 1
      /\ \A i \in 1 .. Len(Tail(t)) : Tail(t)[i] = t[i + 1]
  BY <1>1
<1> QED BY <1>1, <1>2, <1>3, <1>4 DEF NoLock

\* A frame that covers the lock frame belongs to a timer interrupt.
LEMMA TopOther ==
    ASSUME NEW t \in Seq(Frames), NEW l, LockedAt(t, l), Head(t).pc \notin LockPCs,
           l \in LockPCs
    PROVE  Head(t).pc \in {"sched", "iret"} /\ LockedAt(Tail(t), l)
<1>1. PICK k \in 1 .. Len(t) :
          /\ t[k].pc = l
          /\ \A i \in 1 .. k - 1 : t[i].pc \in {"sched", "iret"}
          /\ \A i \in k + 1 .. Len(t) : t[i].pc \notin LockPCs
  BY DEF LockedAt
<1>2. Len(t) \in Nat /\ Head(t) = t[1] /\ k > 1
  BY <1>1
<1>3. /\ Len(Tail(t)) = Len(t) - 1
      /\ \A i \in 1 .. Len(Tail(t)) : Tail(t)[i] = t[i + 1]
  BY <1>1
<1>4. k - 1 \in 1 .. Len(Tail(t)) /\ Tail(t)[k - 1].pc = l
  BY <1>1, <1>2, <1>3
<1>5. ASSUME NEW i \in 1 .. (k - 1) - 1
      PROVE  Tail(t)[i].pc \in {"sched", "iret"}
  <2>1. i \in 1 .. Len(Tail(t)) /\ i + 1 \in 1 .. k - 1
    BY <1>2, <1>3
  <2>2. Tail(t)[i] = t[i + 1]
    BY <1>3, <2>1
  <2> QED BY <1>1, <2>1, <2>2
<1>6. ASSUME NEW i \in (k - 1) + 1 .. Len(Tail(t))
      PROVE  Tail(t)[i].pc \notin LockPCs
  <2>1. i \in 1 .. Len(Tail(t)) /\ i + 1 \in k + 1 .. Len(t)
    BY <1>2, <1>3
  <2>2. Tail(t)[i] = t[i + 1]
    BY <1>3, <2>1
  <2> QED BY <1>1, <2>1, <2>2
<1>7. LockedAt(Tail(t), l)
  BY <1>4, <1>5, <1>6 DEF LockedAt
<1> QED BY <1>1, <1>2, <1>7

\* What is left of a stack without lock frames has none.
LEMMA NoLockTail ==
    ASSUME NEW t \in Seq(Frames), t # <<>>, NoLock(t)
    PROVE  NoLock(Tail(t)) /\ Head(t).pc \notin LockPCs
<1>1. /\ Len(t) \in Nat /\ Len(t) > 0 /\ Head(t) = t[1]
      /\ Len(Tail(t)) = Len(t) - 1
      /\ \A i \in 1 .. Len(Tail(t)) : Tail(t)[i] = t[i + 1]
  OBVIOUS
<1> QED BY <1>1 DEF NoLock

\* Frames in front of a stack without lock frames.
LEMMA PutOther ==
    ASSUME NEW s \in Seq(Frames), NEW r \in Seq(Frames), NoLock(s), NoLock(r)
    PROVE  NoLock(s \o r)
<1>1. /\ Len(s) \in Nat /\ Len(r) \in Nat /\ Len(s \o r) = Len(s) + Len(r)
      /\ \A i \in 1 .. Len(s) : (s \o r)[i] = s[i]
      /\ \A i \in Len(s) + 1 .. Len(s) + Len(r) : (s \o r)[i] = r[i - Len(s)]
  OBVIOUS
<1> QED BY <1>1 DEF NoLock

LEMMA PutLock ==
    ASSUME NEW r \in Seq(Frames), NoLock(r), NEW l \in PCs
    PROVE  LockedAt(<<At(l)>> \o r, l)
<1> DEFINE u == <<At(l)>> \o r
<1>1. At(l) \in Frames /\ At(l).pc = l
  BY AtType
<1>2. /\ Len(r) \in Nat /\ Len(u) = Len(r) + 1 /\ u[1] = At(l)
      /\ \A i \in 2 .. Len(r) + 1 : u[i] = r[i - 1]
  BY <1>1, PushOne
<1> HIDE DEF u
<1>3. \A i \in 2 .. Len(u) : u[i].pc \notin LockPCs
  BY <1>2 DEF NoLock
<1>4. LockedAt(u, l)
  <2>1. 1 \in 1 .. Len(u) /\ u[1].pc = l
    BY <1>1, <1>2
  <2> QED BY <1>3, <2>1 DEF LockedAt
<1> QED BY <1>4 DEF u

\* A timer interrupt over the lock frame.
LEMMA Covered ==
    ASSUME NEW t \in Seq(Frames), NEW l, LockedAt(t, l)
    PROVE  LockedAt(<<At("sched"), At("iret")>> \o t, l)
<1> DEFINE u == <<At("sched"), At("iret")>> \o t
<1>1. PICK k \in 1 .. Len(t) :
          /\ t[k].pc = l
          /\ \A i \in 1 .. k - 1 : t[i].pc \in {"sched", "iret"}
          /\ \A i \in k + 1 .. Len(t) : t[i].pc \notin LockPCs
  BY DEF LockedAt
<1>2. /\ At("sched") \in Frames /\ At("sched").pc = "sched"
      /\ At("iret") \in Frames /\ At("iret").pc = "iret"
  BY AtType DEF PCs
<1>3. /\ Len(u) = Len(t) + 2 /\ Len(t) \in Nat
      /\ u[1] = At("sched") /\ u[2] = At("iret")
      /\ \A i \in 3 .. Len(t) + 2 : u[i] = t[i - 2]
  BY <1>2, PushTwo
<1> HIDE DEF u
<1>4. k + 2 \in 1 .. Len(u) /\ u[k + 2].pc = l
  BY <1>1, <1>3
<1>5. \A i \in 1 .. (k + 2) - 1 : u[i].pc \in {"sched", "iret"}
  BY <1>1, <1>2, <1>3
<1>6. \A i \in (k + 2) + 1 .. Len(u) : u[i].pc \notin LockPCs
  BY <1>1, <1>3
<1>7. LockedAt(u, l)
  BY <1>4, <1>5, <1>6 DEF LockedAt
<1> QED BY <1>7 DEF u

(***************************************************************************)
(* Steps                                                                   *)
(***************************************************************************)

LEMMA IInvTypes == IInv => TypeOK
BY DEF IInv, Base

\* The stacks after Become(s).
LEMMA NewStack ==
    ASSUME TypeOK, NEW s, Become(s)
    PROVE  /\ stk'[cpu] = s \o Tail(stk[cpu])
           /\ \A p \in Proc \ {cpu} : stk'[p] = stk[p]
           /\ stk[cpu] \in Seq(Frames) /\ stk[cpu] # <<>> /\ Tail(stk[cpu]) \in Seq(Frames)
<1>1. cpu \in Proc /\ StackOK
  BY TypeParts DEF RestOK
<1>2. stk[cpu] \in Seq(Frames) /\ stk[cpu] # <<>>
  BY <1>1 DEF StackOK
<1>3. Tail(stk[cpu]) \in Seq(Frames)
  BY <1>2
<1>4. stk \in [Proc -> Seq(Frames)]
  BY <1>1 DEF StackOK
<1>5. stk'[cpu] = s \o Tail(stk[cpu]) /\ \A p \in Proc \ {cpu} : stk'[p] = stk[p]
  BY <1>1, <1>4, Zenon DEF Become
<1> QED BY <1>2, <1>3, <1>5

\* A thread about to run code of the lock functions is alone in them.
LEMMA Inside ==
    ASSUME TypeOK, LockInv, ~hit, pc \in LockPCs
    PROVE  LockAt(pc) /\ NoLock(Tail(stk[cpu]))
<1>1. stk[cpu] \in Seq(Frames) /\ stk[cpu] # <<>>
  BY TypeParts DEF RestOK, StackOK
<1>2. ~NoLock(stk[cpu])
  BY <1>1, NoLockTail DEF pc
<1>3. PICK l \in LockPCs : LockedAt(stk[cpu], l) /\ LockAt(l)
  BY <1>2 DEF LockInv, LockState
<1>4. pc = l /\ NoLock(Tail(stk[cpu]))
  BY <1>1, <1>3, TopLock DEF pc
<1> QED BY <1>3, <1>4

\* Other code than that of the timer interrupt runs with the lock free.
LEMMA Outside ==
    ASSUME TypeOK, LockInv, ~hit, pc \notin LockPCs, pc \notin {"sched", "iret"}
    PROVE  lock_init /\ NoLock(stk[cpu]) /\ NoLock(Tail(stk[cpu]))
<1>1. stk[cpu] \in Seq(Frames) /\ stk[cpu] # <<>>
  BY TypeParts DEF RestOK, StackOK
<1>2. ASSUME NEW l \in LockPCs, LockedAt(stk[cpu], l) PROVE FALSE
  BY <1>1, <1>2, TopOther DEF pc
<1>3. NoLock(stk[cpu]) /\ lock_init
  BY <1>2 DEF LockInv, LockState
<1> QED BY <1>1, <1>3, NoLockTail

\* A step to place l of the lock functions.
LEMMA ToLock ==
    ASSUME TypeOK, LockInv, ~hit, NoLock(Tail(stk[cpu])), NEW l \in LockPCs, Goto(l),
           LockAt(l)', UNCHANGED <<cpu, failed, waiters, hit>>
    PROVE  LockInv'
<1>1. Become(<<At(l)>>)
  BY DEF Goto
<1>2. /\ stk'[cpu] = <<At(l)>> \o Tail(stk[cpu]) /\ Tail(stk[cpu]) \in Seq(Frames)
      /\ \A p \in Proc \ {cpu} : stk'[p] = stk[p]
  BY <1>1, NewStack
<1>3. l \in PCs
  BY DEF LockPCs, PCs
<1>4. LockedAt(stk'[cpu], l)
  BY <1>2, <1>3, PutLock
<1>5. LockState'
  BY <1>4 DEF LockState
<1>6. \A p \in Proc \ {cpu} : NoLock(stk'[p])
  BY <1>2 DEF LockInv
<1>7. failed = {} /\ waiters = <<>>
  BY DEF LockInv
<1> QED BY <1>5, <1>6, <1>7 DEF LockInv

\* A step that leaves no lock frame on the stack of the CPU, and the lock free.
LEMMA ToFree ==
    ASSUME TypeOK, LockInv, ~hit, NoLock(Tail(stk[cpu])), NEW s \in Seq(Frames), NoLock(s),
           Become(s), lock_init', cpu' \in Proc, UNCHANGED failed
    PROVE  LockInv'
<1>1. /\ stk'[cpu] = s \o Tail(stk[cpu]) /\ Tail(stk[cpu]) \in Seq(Frames)
      /\ \A p \in Proc \ {cpu} : stk'[p] = stk[p]
  BY NewStack
<1>2. NoLock(stk'[cpu])
  BY <1>1, PutOther
<1>3. \A p \in Proc : NoLock(stk'[p])
  BY <1>1, <1>2 DEF LockInv
<1>4. failed = {} /\ waiters' = <<>>
  BY DEF LockInv, lock_init
<1>5. LockState'
  BY <1>3 DEF LockState
<1> QED BY <1>3, <1>4, <1>5 DEF LockInv

\* The timer handler or its schedule() returns.
LEMMA Uncover ==
    ASSUME TypeOK, LockInv, ~hit, pc \in {"sched", "iret"}, Return,
           UNCHANGED <<cpu, current, holder, repeat, value, waiters, failed>>
    PROVE  LockInv'
<1>1. Become(<<>>)
  BY DEF Return
<1>2. /\ stk'[cpu] = <<>> \o Tail(stk[cpu]) /\ Tail(stk[cpu]) \in Seq(Frames)
      /\ stk[cpu] \in Seq(Frames) /\ stk[cpu] # <<>>
      /\ \A p \in Proc \ {cpu} : stk'[p] = stk[p]
  BY <1>1, NewStack
<1>3. stk'[cpu] = Tail(stk[cpu])
  BY <1>2
<1>4. LockState'
  <2>1. CASE NoLock(stk[cpu]) /\ lock_init
    BY <1>2, <1>3, <2>1, NoLockTail DEF LockState, lock_init
  <2>2. ASSUME NEW l \in LockPCs, LockedAt(stk[cpu], l), LockAt(l)
        PROVE  LockState'
    <3>1. LockedAt(stk'[cpu], l)
      <4>1. Head(stk[cpu]).pc \notin LockPCs
        BY DEF pc, LockPCs
      <4> QED BY <1>2, <1>3, <2>2, <4>1, TopOther
    <3>2. LockAt(l)'
      BY <2>2 DEF LockAt, lock_init
    <3> QED BY <3>1, <3>2 DEF LockState
  <2> QED BY <2>1, <2>2 DEF LockInv, LockState
<1> QED BY <1>2, <1>4 DEF LockInv

\* No lock frames are put on the stack by calls outside the lock functions.
LEMMA NoLockShapes ==
    /\ <<>> \in Seq(Frames) /\ NoLock(<<>>)
    /\ \A l \in PCs \ LockPCs : <<At(l)>> \in Seq(Frames) /\ NoLock(<<At(l)>>)
    /\ \A f, l \in PCs \ LockPCs : <<At(f), At(l)>> \in Seq(Frames) /\ NoLock(<<At(f), At(l)>>)
    /\ \A f, l \in PCs \ LockPCs : \A x \in Proc :
          /\ <<Frame(l, x)>> \in Seq(Frames) /\ NoLock(<<Frame(l, x)>>)
          /\ <<At(f), Frame(l, x)>> \in Seq(Frames) /\ NoLock(<<At(f), Frame(l, x)>>)
<1>1. <<>> \in Seq(Frames) /\ NoLock(<<>>)
  BY DEF NoLock
<1>2. ASSUME NEW l \in PCs \ LockPCs
      PROVE  <<At(l)>> \in Seq(Frames) /\ NoLock(<<At(l)>>)
  BY AtType DEF NoLock
<1>3. ASSUME NEW f \in PCs \ LockPCs, NEW l \in PCs \ LockPCs
      PROVE  <<At(f), At(l)>> \in Seq(Frames) /\ NoLock(<<At(f), At(l)>>)
  BY AtType DEF NoLock
<1>4. ASSUME NEW f \in PCs \ LockPCs, NEW l \in PCs \ LockPCs, NEW x \in Proc
      PROVE  /\ <<Frame(l, x)>> \in Seq(Frames) /\ NoLock(<<Frame(l, x)>>)
             /\ <<At(f), Frame(l, x)>> \in Seq(Frames) /\ NoLock(<<At(f), Frame(l, x)>>)
  <2>1. Frame(l, x) \in Frames /\ Frame(l, x).pc = l
    BY DEF Frame, Frames
  <2>2. At(f) \in Frames /\ At(f).pc = f
    BY AtType
  <2> QED BY <2>1, <2>2 DEF NoLock
<1> QED BY <1>1, <1>2, <1>3, <1>4

\* The initial state satisfies the invariant.
LEMMA InitLockInv == Init => LockInv
<1> SUFFICES ASSUME Init PROVE LockInv
  OBVIOUS
<1>1. stk = [p \in Proc |-> <<At("body")>>] /\ cpu = Idle /\ lock_init /\ failed = {}
  BY DEF Init
<1>2. "body" \in PCs \ LockPCs /\ Idle \in Proc
  BY DEF PCs, LockPCs, Proc
<1>3. \A p \in Proc : NoLock(stk[p])
  BY <1>1, <1>2, NoLockShapes
<1> QED BY <1>1, <1>2, <1>3 DEF LockInv, LockState, lock_init

\* req_lock and its semaphore: the lock is free for the only thread in it.
LEMMA AcquireLockInv ==
    ASSUME TypeOK, LockInv, ~hit,
           \/ req_lock \/ sema_down \/ thread_block_end \/ set_holder
           \/ check_repeat \/ set_repeat
    PROVE  LockInv'
<1>1. current \in Proc /\ NULL \notin Proc /\ cpu \in Proc
  BY TypeParts, KernelAssumption DEF RestOK
<1>2. {"down", "gotsema", "owned", "checked", "crit"} \subseteq LockPCs
  BY DEF LockPCs
<1>3. CASE req_lock
  <2>1. /\ pc = "req" /\ UNCHANGED <<cpu, current, holder, value, waiters, failed, hit>>
        /\ holder # current => Goto("down") /\ UNCHANGED repeat
    BY <1>3, Zenon DEF req_lock, threadVars
  <2>2. pc \notin LockPCs /\ pc \notin {"sched", "iret"}
    BY <2>1 DEF LockPCs
  <2>3. lock_init /\ NoLock(Tail(stk[cpu]))
    BY <2>2, Outside
  <2>4. Goto("down") /\ UNCHANGED repeat
    BY <1>1, <2>1, <2>3 DEF lock_init
  <2>5. LockAt("down")'
    BY <2>1, <2>3, <2>4 DEF LockAt, lock_init
  <2> QED BY <1>2, <2>1, <2>3, <2>4, <2>5, ToLock
<1>4. CASE sema_down
  <2>1. /\ pc \in {"down", "again"} /\ UNCHANGED <<cpu, current, holder, repeat, hit>>
        /\ value # 0 => /\ value' = value - 1 /\ UNCHANGED waiters
                        /\ IF value' = 0 THEN Ok(Goto("gotsema"))
                                         ELSE Fail("sem value can't be less than 0")
    BY <1>4, Zenon DEF sema_down
  <2>2. LockAt(pc) /\ NoLock(Tail(stk[cpu]))
    <3>1. pc \in LockPCs
      BY <2>1 DEF LockPCs
    <3> QED BY <3>1, Inside
  <2>3. holder = NULL /\ repeat = 0 /\ value = 1
    BY <2>1, <2>2 DEF LockAt, lock_init
  <2>4. value' = 0 /\ UNCHANGED <<waiters, failed>> /\ Goto("gotsema")
    BY <2>1, <2>3 DEF Ok
  <2>5. LockAt("gotsema")'
    BY <2>1, <2>3, <2>4 DEF LockAt
  <2> QED BY <1>2, <2>1, <2>2, <2>4, <2>5, ToLock
<1>5. CASE thread_block_end
  <2>1. pc = "blocked"
    BY <1>5 DEF thread_block_end
  <2>2. LockAt(pc)
    <3>1. pc \in LockPCs
      BY <2>1 DEF LockPCs
    <3> QED BY <3>1, Inside
  <2> QED BY <2>1, <2>2 DEF LockAt
<1>6. CASE set_holder
  <2>1. /\ pc = "gotsema" /\ holder' = current /\ Goto("owned")
        /\ UNCHANGED <<cpu, current, repeat, value, waiters, failed, hit>>
    BY <1>6, Zenon DEF set_holder, threadVars
  <2>2. LockAt(pc) /\ NoLock(Tail(stk[cpu]))
    <3>1. pc \in LockPCs
      BY <2>1 DEF LockPCs
    <3> QED BY <3>1, Inside
  <2>3. LockAt("owned")'
    BY <2>1, <2>2 DEF LockAt
  <2> QED BY <1>2, <2>1, <2>2, <2>3, ToLock
<1>7. CASE check_repeat
  <2>1. /\ pc = "owned" /\ UNCHANGED <<cpu, current, holder, repeat, value, waiters, hit>>
        /\ repeat = 0 => Goto("checked") /\ UNCHANGED failed
    BY <1>7, Zenon DEF check_repeat, threadVars, lockVars, Ok
  <2>2. LockAt(pc) /\ NoLock(Tail(stk[cpu]))
    <3>1. pc \in LockPCs
      BY <2>1 DEF LockPCs
    <3> QED BY <3>1, Inside
  <2>3. repeat = 0 /\ LockAt("checked")'
    BY <2>1, <2>2 DEF LockAt
  <2> QED BY <1>2, <2>1, <2>2, <2>3, ToLock
<1>8. CASE set_repeat
  <2>1. /\ pc = "checked" /\ repeat' = 1 /\ Goto("crit")
        /\ UNCHANGED <<cpu, current, holder, value, waiters, failed, hit>>
    BY <1>8, Zenon DEF set_repeat, threadVars
  <2>2. LockAt(pc) /\ NoLock(Tail(stk[cpu]))
    <3>1. pc \in LockPCs
      BY <2>1 DEF LockPCs
    <3> QED BY <3>1, Inside
  <2>3. LockAt("crit")'
    BY <2>1, <2>2 DEF LockAt
  <2> QED BY <1>2, <2>1, <2>2, <2>3, ToLock
<1> QED BY <1>3, <1>4, <1>5, <1>6, <1>7, <1>8

\* lock_release: every assertion finds what req_lock left.
LEMMA ReleaseLockInv ==
    ASSUME TypeOK, LockInv, ~hit,
           \/ console_done \/ check_holder \/ release_repeat \/ clear_holder
           \/ clear_repeat \/ sema_up
    PROVE  LockInv'
<1>1. cpu \in Proc
  BY TypeParts DEF RestOK
<1>2. {"rel", "relcnt", "relown", "relrep", "up"} \subseteq LockPCs
  BY DEF LockPCs
<1>3. CASE console_done
  <2>1. /\ pc = "crit" /\ Goto("rel")
        /\ UNCHANGED <<cpu, current, holder, repeat, value, waiters, failed, hit>>
    BY <1>3, Zenon DEF console_done, threadVars, lockVars
  <2>2. LockAt(pc) /\ NoLock(Tail(stk[cpu]))
    <3>1. pc \in LockPCs
      BY <2>1 DEF LockPCs
    <3> QED BY <3>1, Inside
  <2>3. LockAt("rel")'
    BY <2>1, <2>2 DEF LockAt
  <2> QED BY <1>2, <2>1, <2>2, <2>3, ToLock
<1>4. CASE check_holder
  <2>1. /\ pc = "rel" /\ UNCHANGED <<cpu, current, holder, repeat, value, waiters, hit>>
        /\ holder = current => Goto("relcnt") /\ UNCHANGED failed
    BY <1>4, Zenon DEF check_holder, threadVars, lockVars, Ok
  <2>2. LockAt(pc) /\ NoLock(Tail(stk[cpu]))
    <3>1. pc \in LockPCs
      BY <2>1 DEF LockPCs
    <3> QED BY <3>1, Inside
  <2>3. holder = current /\ LockAt("relcnt")'
    BY <2>1, <2>2 DEF LockAt
  <2> QED BY <1>2, <2>1, <2>2, <2>3, ToLock
<1>5. CASE release_repeat
  <2>1. /\ pc = "relcnt" /\ UNCHANGED <<cpu, current, holder, value, waiters, hit>>
        /\ ~(repeat > 1) => /\ UNCHANGED repeat
                            /\ repeat = 1 => Goto("relown") /\ UNCHANGED failed
    BY <1>5, Zenon DEF release_repeat, threadVars, Ok
  <2>2. LockAt(pc) /\ NoLock(Tail(stk[cpu]))
    <3>1. pc \in LockPCs
      BY <2>1 DEF LockPCs
    <3> QED BY <3>1, Inside
  <2>3. repeat = 1 /\ ~(repeat > 1)
    BY <2>1, <2>2 DEF LockAt
  <2>4. LockAt("relown")'
    BY <2>1, <2>2, <2>3 DEF LockAt
  <2> QED BY <1>2, <2>1, <2>2, <2>3, <2>4, ToLock
<1>6. CASE clear_holder
  <2>1. /\ pc = "relown" /\ holder' = NULL /\ Goto("relrep")
        /\ UNCHANGED <<cpu, current, repeat, value, waiters, failed, hit>>
    BY <1>6, Zenon DEF clear_holder, threadVars
  <2>2. LockAt(pc) /\ NoLock(Tail(stk[cpu]))
    <3>1. pc \in LockPCs
      BY <2>1 DEF LockPCs
    <3> QED BY <3>1, Inside
  <2>3. LockAt("relrep")'
    BY <2>1, <2>2 DEF LockAt
  <2> QED BY <1>2, <2>1, <2>2, <2>3, ToLock
<1>7. CASE clear_repeat
  <2>1. /\ pc = "relrep" /\ repeat' = 0 /\ Goto("up")
        /\ UNCHANGED <<cpu, current, holder, value, waiters, failed, hit>>
    BY <1>7, Zenon DEF clear_repeat, threadVars
  <2>2. LockAt(pc) /\ NoLock(Tail(stk[cpu]))
    <3>1. pc \in LockPCs
      BY <2>1 DEF LockPCs
    <3> QED BY <3>1, Inside
  <2>3. LockAt("up")'
    BY <2>1, <2>2 DEF LockAt
  <2> QED BY <1>2, <2>1, <2>2, <2>3, ToLock
<1>8. CASE sema_up
  <2>1. pc \in {"up", "upinc"} /\ UNCHANGED <<cpu, current, holder, repeat, hit>>
    BY <1>8, Zenon DEF sema_up
  <2>2. LockAt(pc) /\ NoLock(Tail(stk[cpu])) /\ waiters = <<>>
    <3>1. pc \in LockPCs
      BY <2>1 DEF LockPCs
    <3> QED BY <3>1, Inside DEF LockInv
  <2>3. pc = "up" /\ holder = NULL /\ repeat = 0 /\ value = 0
    BY <2>1, <2>2 DEF LockAt
  <2>4. /\ value' = (value + 1) % 256 /\ UNCHANGED waiters
        /\ value' = 1 => Return /\ UNCHANGED failed
    BY <1>8, <2>2, <2>3, Zenon DEF sema_up, Ok
  <2>5. value' = 1
    BY <2>3, <2>4
  <2>6. lock_init'
    BY <2>1, <2>2, <2>3, <2>4, <2>5 DEF lock_init
  <2>7. Become(<<>>)
    BY <2>4, <2>5 DEF Return
  <2> QED BY <1>1, <2>1, <2>2, <2>4, <2>5, <2>6, <2>7, ToFree, NoLockShapes
<1> QED BY <1>3, <1>4, <1>5, <1>6, <1>7, <1>8

\* schedule() over a lock frame returns, or its printk is a hit.
LEMMA ScheduleLockInv ==
    ASSUME TypeOK, LockInv, ~hit', schedule
    PROVE  LockInv'
<1>1. /\ pc = "sched"
      /\ UNCHANGED <<cpu, current, holder, repeat, value, waiters, failed>>
      /\ hit' = (hit \/ (ticks[current] = 0 /\ ready # <<>> /\ Has(Tail(stk[cpu]), LockPCs)))
  BY Zenon DEF schedule, lockVars
<1>2. ~hit
  BY <1>1
<1>3. CASE Return
  BY <1>1, <1>2, <1>3, Uncover
<1>4. CASE /\ ticks[current] = 0 /\ ready # <<>>
           /\ Become(<<At("req"), Frame("switch", Head(ready))>>)
  <2>1. ~Has(Tail(stk[cpu]), LockPCs)
    BY <1>1, <1>4
  <2>2. stk[cpu] \in Seq(Frames) /\ stk[cpu] # <<>> /\ Head(ready) \in Proc /\ cpu \in Proc
    BY <1>4, TypeParts DEF RestOK, StackOK
  <2>3. NoLock(Tail(stk[cpu]))
    <3>1. Tail(stk[cpu]) \in Seq(Frames)
      BY <2>2
    <3>2. DOMAIN Tail(stk[cpu]) = 1 .. Len(Tail(stk[cpu]))
      BY <3>1
    <3> QED BY <2>1, <3>2 DEF NoLock, Has
  <2>4. lock_init
    <3>1. ASSUME NEW l \in LockPCs, LockedAt(stk[cpu], l) PROVE FALSE
      <4>1. Head(stk[cpu]).pc \notin LockPCs
        BY <1>1 DEF pc, LockPCs
      <4>2. LockedAt(Tail(stk[cpu]), l)
        BY <2>2, <3>1, <4>1, TopOther
      <4> QED BY <2>3, <4>2 DEF LockedAt, NoLock
    <3> QED BY <1>2, <3>1 DEF LockInv, LockState
  <2>5. "req" \in PCs \ LockPCs /\ "switch" \in PCs \ LockPCs
    BY DEF PCs, LockPCs
  <2>6. lock_init'
    BY <1>1, <2>4 DEF lock_init
  <2> QED BY <1>1, <1>2, <1>4, <2>2, <2>3, <2>5, <2>6, ToFree, NoLockShapes
<1>5. Return \/ (/\ ticks[current] = 0 /\ ready # <<>>
                 /\ Become(<<At("req"), Frame("switch", Head(ready))>>))
  BY Zenon DEF schedule
<1> QED BY <1>3, <1>4, <1>5

\* Steps of code outside the lock functions.
LEMMA OutsideLockInv ==
    ASSUME TypeOK, LockInv, ~hit,
           \/ switch_thread \/ switch_to \/ switch_end \/ panic \/ printk
    PROVE  LockInv'
<1>1. current \in Proc /\ cpu \in Proc
  BY TypeParts DEF RestOK
<1>2. /\ pc \in {"switch", "switch_to", "resumed", "panic", "body"}
      /\ UNCHANGED <<holder, repeat, value, waiters, failed>> /\ cpu' \in {cpu, current}
  BY Zenon DEF switch_thread, switch_to, switch_end, panic, printk, threadVars, lockVars
<1>3. lock_init /\ NoLock(Tail(stk[cpu]))
  <2>1. pc \notin LockPCs /\ pc \notin {"sched", "iret"}
    BY <1>2 DEF LockPCs
  <2> QED BY <2>1, Outside
<1>4. \/ Become(<<Frame("switch_to", current)>>) \/ Become(<<>>) \/ Become(<<At("resumed")>>)
      \/ Become(<<At("req"), At("spin")>>) \/ Become(<<At("req"), At("body")>>)
  BY Zenon DEF switch_thread, switch_to, switch_end, panic, printk, Goto, Call, Return
<1>5. {"switch_to", "resumed", "req", "spin", "body"} \subseteq PCs \ LockPCs
  BY DEF PCs, LockPCs
<1>6. PICK s \in Seq(Frames) : NoLock(s) /\ Become(s)
  BY <1>1, <1>4, <1>5, NoLockShapes
<1>7. lock_init'
  BY <1>2, <1>3 DEF lock_init
<1> QED BY <1>1, <1>2, <1>3, <1>6, <1>7, ToFree

\* Interrupts and their end.
LEMMA InterruptLockInv ==
    ASSUME TypeOK, LockInv, ~hit', timer_callback \/ printing_interrupt \/ iret
    PROVE  LockInv'
<1>1. cpu \in Proc /\ stk \in [Proc -> Seq(Frames)]
  BY TypeParts DEF RestOK, StackOK
<1>2. UNCHANGED <<cpu, current, holder, repeat, value, waiters, failed>> /\ ~hit
  <2>1. UNCHANGED <<cpu, current, holder, repeat, value, waiters, failed>>
    BY Zenon DEF timer_callback, printing_interrupt, iret, threadVars, lockVars
  <2>2. ~hit
    BY Zenon DEF timer_callback, printing_interrupt, iret
  <2> QED BY <2>1, <2>2
<1>3. CASE iret
  <2>1. pc = "iret" /\ Return
    BY <1>3 DEF iret
  <2> QED BY <1>2, <2>1, Uncover
<1>4. ASSUME NEW l \in {"sched", "req"}, Interrupt(l), NoLock(stk[cpu]), lock_init
      PROVE  LockInv'
  <2>1. stk' = [stk EXCEPT ![cpu] = <<At(l), At("iret")>> \o stk[cpu]]
    BY <1>4 DEF Interrupt
  <2>2. /\ stk'[cpu] = <<At(l), At("iret")>> \o stk[cpu]
        /\ \A p \in Proc \ {cpu} : stk'[p] = stk[p]
    BY <1>1, <2>1, Zenon
  <2>3. l \in PCs \ LockPCs /\ "iret" \in PCs \ LockPCs
    BY DEF PCs, LockPCs
  <2>4. NoLock(stk'[cpu])
    BY <1>1, <1>4, <2>2, <2>3, NoLockShapes, PutOther
  <2>5. lock_init'
    BY <1>2, <1>4 DEF lock_init
  <2> QED BY <1>2, <2>2, <2>4, <2>5 DEF LockInv, LockState
<1>5. CASE printing_interrupt
  <2>1. Interrupt("req") /\ ~Has(stk[cpu], LockPCs)
    BY <1>5 DEF printing_interrupt
  <2>2. NoLock(stk[cpu])
    <3>1. DOMAIN stk[cpu] = 1 .. Len(stk[cpu])
      BY <1>1
    <3> QED BY <2>1, <3>1 DEF NoLock, Has
  <2>3. lock_init
    BY <1>2, <2>2 DEF LockInv, LockState, LockedAt, NoLock
  <2> QED BY <1>4, <2>1, <2>2, <2>3
<1>6. CASE timer_callback
  <2>1. Interrupt("sched")
    BY <1>6 DEF timer_callback
  <2>2. CASE NoLock(stk[cpu]) /\ lock_init
    BY <1>4, <2>1, <2>2
  <2>3. ASSUME NEW l \in LockPCs, LockedAt(stk[cpu], l), LockAt(l) PROVE LockInv'
    <3>1. stk' = [stk EXCEPT ![cpu] = <<At("sched"), At("iret")>> \o stk[cpu]]
      BY <2>1 DEF Interrupt
    <3>2. /\ stk'[cpu] = <<At("sched"), At("iret")>> \o stk[cpu]
          /\ \A p \in Proc \ {cpu} : stk'[p] = stk[p]
      BY <1>1, <3>1, Zenon
    <3>3. LockedAt(stk'[cpu], l)
      BY <1>1, <2>3, <3>2, Covered
    <3>4. LockAt(l)'
      BY <1>2, <2>3 DEF LockAt, lock_init
    <3>5. LockState'
      BY <1>2, <3>3, <3>4 DEF LockState
    <3> QED BY <1>2, <3>2, <3>5 DEF LockInv
  <2> QED BY <1>2, <2>2, <2>3 DEF LockInv, LockState
<1> QED BY <1>3, <1>5, <1>6

\* Every step keeps the invariant.
LEMMA NextLockInv == TypeOK /\ LockInv /\ [Next]_vars => LockInv'
<1> SUFFICES ASSUME TypeOK, LockInv, [Next]_vars, ~hit' PROVE LockInv'
  BY DEF LockInv
<1>1. ~hit
  BY Zenon DEF Next, Execute, vars, threadVars, lockVars, req_lock, sema_down, thread_block_end,
     set_holder, check_repeat, set_repeat, console_done, check_holder, release_repeat,
     clear_holder, clear_repeat, sema_up, schedule, switch_thread, switch_to, switch_end, iret,
     panic, printk, kthread_create, timer_callback, printing_interrupt
<1>2. CASE Execute
  BY <1>1, <1>2, AcquireLockInv, ReleaseLockInv, ScheduleLockInv, OutsideLockInv,
     InterruptLockInv DEF Execute
<1>3. CASE printk
  BY <1>1, <1>3, OutsideLockInv
<1>4. ASSUME NEW t \in Threads, kthread_create(t) PROVE LockInv'
  BY <1>1, <1>4 DEF kthread_create, lockVars, LockInv, LockState, LockAt, lock_init
<1>5. CASE timer_callback \/ printing_interrupt
  BY <1>5, InterruptLockInv
<1>6. CASE UNCHANGED vars
  BY <1>6 DEF vars, threadVars, lockVars, LockInv, LockState, LockAt, lock_init
<1> QED BY <1>2, <1>3, <1>4, <1>5, <1>6 DEF Next

\* The invariant of the lock holds in every reachable state.
LEMMA LockInvariance == Spec => []LockInv
<1>1. Init => LockInv
  BY InitLockInv
<1>2. IInv /\ LockInv /\ [Next]_vars => LockInv'
  BY IInvTypes, NextLockInv
<1> QED BY <1>1, <1>2, Invariance, PTL DEF Spec

\* No assertion of sync.c or thread.c fails before an interrupt handler has
\* called printk over a thread that was inside the lock functions, whatever
\* the threads, their priorities and the nesting of interrupts.
THEOREM AssertionsHold == Spec => []FailsOnlyIfHit
<1>1. IInv /\ LockInv => FailsOnlyIfHit
  BY DEF LockInv, FailsOnlyIfHit
<1> QED BY <1>1, Invariance, LockInvariance, PTL

\* Until such an interrupt, no two threads are inside console_putc_color at
\* once, with no assumption on where interrupts land.
THEOREM ExclusiveUnlessHit == Spec => [](hit \/ MutualExclusion)
<1>1. IInv /\ LockInv => hit \/ MutualExclusion
  <2> SUFFICES ASSUME IInv, LockInv, ~hit, NEW p \in Proc, NEW q \in Proc,
                      Has(stk[p], {"crit"}), Has(stk[q], {"crit"})
               PROVE  p = q
    BY DEF MutualExclusion
  <2>1. ASSUME NEW r \in Proc, Has(stk[r], {"crit"}) PROVE r = cpu
    <3>1. DOMAIN stk[r] = 1 .. Len(stk[r])
      BY TypeParts DEF IInv, Base, StackOK
    <3>2. ~NoLock(stk[r])
      BY <2>1, <3>1 DEF Has, NoLock, LockPCs
    <3> QED BY <3>2 DEF LockInv
  <2> QED BY <2>1
<1> QED BY <1>1, Invariance, LockInvariance, PTL

(***************************************************************************)
(* Thread switches, for every priority that a switch does not exhaust.     *)
(*                                                                         *)
(* The argument: a thread begins a switch with a full quantum and is       *)
(* interrupted at most MaxBurst times before it is switched out; the next  *)
(* thread still has what it kept from its own last switch.  So the         *)
(* schedule() of an interrupt that lands inside a switch finds ticks left  *)
(* and returns: switches do not nest, and one frame tells which of its     *)
(* stages the switch is in.                                                *)
(***************************************************************************)
\* A quantum is longer than the interrupts that land in two switches.
ShortSwitch == \A p \in Proc : Prio[p] > 2 * MaxBurst

\* The places of a switch, and those of a panic.
SwitchPCs == {"switch", "switch_to", "resumed"}
PanicPCs  == {"panic", "spin", "overflow"}

\* No frame of stack s is in a switch; frame f is the only one that is.
Calm(s) == \A i \in 1 .. Len(s) : s[i].pc \notin SwitchPCs

SwitchAt(s, f) ==
    \E k \in 1 .. Len(s) :
        /\ s[k] = f
        /\ \A i \in 1 .. Len(s) : i # k => s[i].pc \notin SwitchPCs

\* What the switch whose frame is f knows: who is current, and how much of
\* the quanta of the two threads the switch may have used.
Stage(f) ==
    \/ /\ f.pc = "switch" /\ current = cpu
       /\ Prio[current] <= ticks[current] + burst
    \/ /\ f.pc = "switch_to" /\ f.arg = cpu /\ current # cpu
       /\ Prio[current] <= ticks[current] + burst + MaxBurst
    \/ /\ f.pc = "resumed" /\ current = cpu
       /\ Prio[current] <= ticks[current] + burst + MaxBurst

SwitchState ==
    \/ Calm(stk[cpu]) /\ current = cpu /\ (ticks[current] = 0 => burst = 0)
    \/ \E f \in Frames : SwitchAt(stk[cpu], f) /\ Stage(f)

\* A thread that is not running was saved in switch_to, or has not run yet.
Parked ==
    \A p \in Proc \ {cpu} :
        Calm(Tail(stk[p])) /\ Head(stk[p]).pc \notin {"switch", "switch_to"}

\* A thread that is not current has lost no more than one switch of its
\* quantum.
Rested == \A p \in Proc \ {current} : Prio[p] <= ticks[p] + MaxBurst

NoPanic == \A p \in Proc : \A i \in 1 .. Len(stk[p]) : stk[p][i].pc \notin PanicPCs

SwitchInv == failed = {} => NoPanic /\ Parked /\ Rested /\ SwitchState

(***************************************************************************)
(* Stacks                                                                  *)
(***************************************************************************)

\* Frames that a step outside a switch may push.
Inert(s) ==
    /\ s \in Seq(Frames)
    /\ \A i \in 1 .. Len(s) : s[i].pc \notin SwitchPCs /\ s[i].pc \notin PanicPCs

\* The top frame is the frame of the switch.
LEMMA SwitchTop ==
    ASSUME NEW t \in Seq(Frames), NEW f, SwitchAt(t, f), Head(t).pc \in SwitchPCs
    PROVE  Head(t) = f /\ Calm(Tail(t))
<1>1. PICK k \in 1 .. Len(t) :
          t[k] = f /\ \A i \in 1 .. Len(t) : i # k => t[i].pc \notin SwitchPCs
  BY DEF SwitchAt
<1>2. /\ Len(t) \in Nat /\ Head(t) = t[1]
      /\ Len(Tail(t)) = Len(t) - 1
      /\ \A i \in 1 .. Len(Tail(t)) : Tail(t)[i] = t[i + 1]
  BY <1>1
<1>3. k = 1
  BY <1>1, <1>2
<1> QED BY <1>1, <1>2, <1>3 DEF Calm

\* A stack without a switch.
LEMMA CalmTop ==
    ASSUME NEW t \in Seq(Frames), t # <<>>, Calm(t)
    PROVE  Calm(Tail(t)) /\ Head(t).pc \notin SwitchPCs
<1>1. /\ Len(t) \in Nat /\ Len(t) > 0 /\ Head(t) = t[1]
      /\ Len(Tail(t)) = Len(t) - 1
      /\ \A i \in 1 .. Len(Tail(t)) : Tail(t)[i] = t[i + 1]
  OBVIOUS
<1> QED BY <1>1 DEF Calm

\* Frames s in front of the frames r.
LEMMA CalmOn ==
    ASSUME NEW s, Inert(s), NEW r \in Seq(Frames), Calm(r)
    PROVE  Calm(s \o r)
<1>1. /\ Len(s) \in Nat /\ Len(r) \in Nat /\ Len(s \o r) = Len(s) + Len(r)
      /\ \A i \in 1 .. Len(s) : (s \o r)[i] = s[i]
      /\ \A i \in Len(s) + 1 .. Len(s) + Len(r) : (s \o r)[i] = r[i - Len(s)]
  BY DEF Inert
<1> QED BY <1>1 DEF Calm, Inert

LEMMA SwitchOn ==
    ASSUME NEW s, Inert(s), NEW r \in Seq(Frames), NEW f, SwitchAt(r, f)
    PROVE  SwitchAt(s \o r, f)
<1> DEFINE u == s \o r
<1>1. PICK k \in 1 .. Len(r) :
          r[k] = f /\ \A i \in 1 .. Len(r) : i # k => r[i].pc \notin SwitchPCs
  BY DEF SwitchAt
<1>2. /\ Len(s) \in Nat /\ Len(r) \in Nat /\ Len(u) = Len(s) + Len(r)
      /\ \A i \in 1 .. Len(s) : u[i] = s[i]
      /\ \A i \in Len(s) + 1 .. Len(s) + Len(r) : u[i] = r[i - Len(s)]
  BY DEF Inert
<1> HIDE DEF u
<1>3. k + Len(s) \in 1 .. Len(u) /\ u[k + Len(s)] = f
  BY <1>1, <1>2
<1>4. ASSUME NEW i \in 1 .. Len(u), i # k + Len(s) PROVE u[i].pc \notin SwitchPCs
  <2>1. CASE i \in 1 .. Len(s)
    BY <1>2, <2>1 DEF Inert
  <2>2. CASE i \in Len(s) + 1 .. Len(s) + Len(r)
    <3>1. i - Len(s) \in 1 .. Len(r) /\ i - Len(s) # k /\ u[i] = r[i - Len(s)]
      BY <1>1, <1>2, <1>4, <2>2
    <3> QED BY <1>1, <3>1
  <2> QED BY <1>2, <2>1, <2>2
<1>5. SwitchAt(u, f)
  BY <1>3, <1>4 DEF SwitchAt
<1> QED BY <1>5 DEF u

\* Under a top frame that is not in a switch the switch stays.
LEMMA SwitchUnder ==
    ASSUME NEW t \in Seq(Frames), NEW f, SwitchAt(t, f), f.pc \in SwitchPCs,
           Head(t).pc \notin SwitchPCs
    PROVE  SwitchAt(Tail(t), f)
<1>1. PICK k \in 1 .. Len(t) :
          t[k] = f /\ \A i \in 1 .. Len(t) : i # k => t[i].pc \notin SwitchPCs
  BY DEF SwitchAt
<1>2. /\ Len(t) \in Nat /\ Head(t) = t[1]
      /\ Len(Tail(t)) = Len(t) - 1
      /\ \A i \in 1 .. Len(Tail(t)) : Tail(t)[i] = t[i + 1]
  BY <1>1
<1>3. k > 1 /\ k - 1 \in 1 .. Len(Tail(t)) /\ Tail(t)[k - 1] = f
  BY <1>1, <1>2
<1>4. ASSUME NEW i \in 1 .. Len(Tail(t)), i # k - 1 PROVE Tail(t)[i].pc \notin SwitchPCs
  <2>1. i + 1 \in 1 .. Len(t) /\ i + 1 # k
    BY <1>2, <1>4
  <2> QED BY <1>1, <1>2, <2>1
<1> QED BY <1>3, <1>4 DEF SwitchAt

\* A switch frame put on a calm stack.
LEMMA SwitchPut ==
    ASSUME NEW r \in Seq(Frames), Calm(r), NEW f \in Frames
    PROVE  SwitchAt(<<f>> \o r, f)
<1> DEFINE u == <<f>> \o r
<1>1. /\ Len(r) \in Nat /\ Len(u) = Len(r) + 1 /\ u[1] = f
      /\ \A i \in 2 .. Len(r) + 1 : u[i] = r[i - 1]
  BY PushOne
<1> HIDE DEF u
<1>2. 1 \in 1 .. Len(u) /\ \A i \in 1 .. Len(u) : i # 1 => u[i].pc \notin SwitchPCs
  BY <1>1 DEF Calm
<1>3. SwitchAt(u, f)
  BY <1>1, <1>2 DEF SwitchAt
<1> QED BY <1>3 DEF u

LEMMA SwitchPutTwo ==
    ASSUME NEW r \in Seq(Frames), Calm(r), NEW f \in Frames, NEW g \in Frames,
           g.pc \notin SwitchPCs
    PROVE  SwitchAt(<<g, f>> \o r, f)
<1> DEFINE u == <<g, f>> \o r
<1>1. /\ Len(r) \in Nat /\ Len(u) = Len(r) + 2 /\ u[1] = g /\ u[2] = f
      /\ \A i \in 3 .. Len(r) + 2 : u[i] = r[i - 2]
  BY PushTwo
<1> HIDE DEF u
<1>2. 2 \in 1 .. Len(u) /\ \A i \in 1 .. Len(u) : i # 2 => u[i].pc \notin SwitchPCs
  BY <1>1 DEF Calm
<1>3. SwitchAt(u, f)
  BY <1>1, <1>2 DEF SwitchAt
<1> QED BY <1>3 DEF u

\* A stack has a switch or has none, and not both.
LEMMA CalmOrSwitch ==
    ASSUME NEW t, NEW f, SwitchAt(t, f), f.pc \in SwitchPCs
    PROVE  ~Calm(t)
  BY DEF SwitchAt, Calm

\* Frames without a panic in front of a stack without one.
LEMMA NoPanicOn ==
    ASSUME NEW s \in Seq(Frames), NEW t \in Seq(Frames), t # <<>>,
           \A i \in 1 .. Len(s) : s[i].pc \notin PanicPCs,
           \A i \in 1 .. Len(t) : t[i].pc \notin PanicPCs
    PROVE  /\ \A i \in 1 .. Len(s \o Tail(t)) : (s \o Tail(t))[i].pc \notin PanicPCs
           /\ \A i \in 1 .. Len(s \o t) : (s \o t)[i].pc \notin PanicPCs
<1>1. /\ Len(t) \in Nat /\ Len(s) \in Nat /\ Len(t) > 0
      /\ Len(s \o Tail(t)) = Len(s) + Len(t) - 1
      /\ \A i \in 1 .. Len(s) : (s \o Tail(t))[i] = s[i]
      /\ \A i \in Len(s) + 1 .. Len(s) + Len(t) - 1 : (s \o Tail(t))[i] = t[i - Len(s) + 1]
  <2>1. /\ Tail(t) \in Seq(Frames) /\ Len(Tail(t)) = Len(t) - 1
        /\ \A i \in 1 .. Len(t) - 1 : Tail(t)[i] = t[i + 1]
    OBVIOUS
  <2> QED BY <2>1
<1>2. /\ Len(s \o t) = Len(s) + Len(t)
      /\ \A i \in 1 .. Len(s) : (s \o t)[i] = s[i]
      /\ \A i \in Len(s) + 1 .. Len(s) + Len(t) : (s \o t)[i] = t[i - Len(s)]
  OBVIOUS
<1> QED BY <1>1, <1>2

\* A saved stack: a switch at the top or none.
LEMMA CalmRest ==
    ASSUME NEW t \in Seq(Frames), t # <<>>, Calm(Tail(t))
    PROVE  /\ Head(t).pc \in SwitchPCs => SwitchAt(t, Head(t))
           /\ Head(t).pc \notin SwitchPCs => Calm(t)
<1>1. /\ Len(t) \in Nat /\ Len(t) > 0 /\ Head(t) = t[1]
      /\ Len(Tail(t)) = Len(t) - 1
      /\ \A i \in 1 .. Len(t) - 1 : Tail(t)[i] = t[i + 1]
  OBVIOUS
<1>2. \A i \in 2 .. Len(t) : t[i].pc \notin SwitchPCs
  <2> TAKE i \in 2 .. Len(t)
  <2>1. i - 1 \in 1 .. Len(t) - 1 /\ (i - 1) + 1 = i
    BY <1>1
  <2>2. Tail(t)[i - 1] = t[i]
    BY <1>1, <2>1
  <2> QED BY <1>1, <2>1, <2>2 DEF Calm
<1>3. 1 \in 1 .. Len(t)
  BY <1>1
<1> QED BY <1>1, <1>2, <1>3 DEF SwitchAt, Calm

(***************************************************************************)
(* Steps                                                                   *)
(***************************************************************************)

\* What the invariants say of the stack of the CPU and of the quanta.
LEMMA SwitchFacts ==
    ASSUME IInv
    PROVE  /\ cpu \in Proc /\ current \in Proc /\ StackOK
           /\ stk \in [Proc -> Seq(Frames)]
           /\ \A p \in Proc : stk[p] \in Seq(Frames) /\ stk[p] # <<>>
           /\ Head(stk[cpu]) \in Frames
           /\ ticks \in [Proc -> 0 .. 255] /\ Prio \in [Proc -> 1 .. 255]
           /\ burst \in 0 .. MaxBurst /\ MaxBurst \in Nat
           /\ pc # "sched" => \A p \in Proc : ticks[p] # 0
<1>1. cpu \in Proc /\ current \in Proc /\ StackOK /\ stk \in [Proc -> Seq(Frames)]
  BY TypeParts DEF IInv, Base, RestOK, StackOK
<1>2. ASSUME NEW p \in Proc PROVE stk[p] \in Seq(Frames) /\ stk[p] # <<>>
  BY <1>1 DEF StackOK
<1>3. ticks \in [Proc -> 0 .. 255] /\ Prio \in [Proc -> 1 .. 255]
      /\ burst \in 0 .. MaxBurst /\ MaxBurst \in Nat
  BY TypeParts, KernelAssumption DEF IInv, Base, RestOK, TicksOK
<1>4. pc # "sched" => \A p \in Proc : ticks[p] # 0
  BY DEF IInv, Base, QuantumLeft, pc
<1>5. Head(stk[cpu]) \in Frames
  BY <1>1, <1>2
<1> QED BY <1>1, <1>2, <1>3, <1>4, <1>5

\* Facts of arithmetic on quanta.
LEMMA Budgets ==
    /\ \A a \in Nat : a <= a + 0
    /\ \A a, b, c, m \in Nat : a <= b + c /\ c <= m => a <= b + m
    /\ \A a, b, c, m \in Nat : a <= b + m => a <= b + c + m
    /\ \A a, b, c \in Nat : b # 0 /\ a <= b + c => a <= (b - 1) + (c + 1)
    /\ \A a, b, c, m \in Nat : b # 0 /\ a <= b + c + m => a <= (b - 1) + (c + 1) + m
  OBVIOUS

LEMMA BudgetTypes ==
    ASSUME IInv
    PROVE  /\ \A p \in Proc : Prio[p] \in Nat /\ ticks[p] \in Nat
           /\ burst \in Nat /\ burst <= MaxBurst /\ MaxBurst \in Nat
<1>1. /\ ticks \in [Proc -> 0 .. 255] /\ Prio \in [Proc -> 1 .. 255]
      /\ burst \in 0 .. MaxBurst /\ MaxBurst \in Nat
  BY SwitchFacts
<1>2. ASSUME NEW p \in Proc PROVE Prio[p] \in Nat /\ ticks[p] \in Nat
  <2>1. Prio[p] \in 1 .. 255 /\ ticks[p] \in 0 .. 255
    BY <1>1
  <2> QED BY <2>1
<1>3. burst \in Nat /\ burst <= MaxBurst
  BY <1>1
<1> QED BY <1>1, <1>2, <1>3

\* The frames of a switch.
LEMMA FrameType ==
    ASSUME NEW l \in PCs, NEW x \in Proc
    PROVE  Frame(l, x) \in Frames /\ Frame(l, x).pc = l /\ Frame(l, x).arg = x
  BY DEF Frame, Frames

LEMMA StagePC == ASSUME NEW f, Stage(f) PROVE f.pc \in SwitchPCs
  BY DEF Stage, SwitchPCs

\* Pushing inert frames, in place of the top one or on it, changes neither
\* the switch nor the other stacks.
LEMMA InertStack ==
    ASSUME IInv, NoPanic, Parked, NEW s, Inert(s), UNCHANGED cpu,
           \/ pc \notin SwitchPCs /\ Become(s)
           \/ stk' = [stk EXCEPT ![cpu] = s \o stk[cpu]]
    PROVE  /\ NoPanic' /\ Parked'
           /\ Calm(stk[cpu]) => Calm(stk'[cpu])
           /\ \A f \in Frames : SwitchAt(stk[cpu], f) /\ f.pc \in SwitchPCs => SwitchAt(stk'[cpu], f)
<1> DEFINE t == stk[cpu]
<1>1. /\ cpu \in Proc /\ t \in Seq(Frames) /\ t # <<>> /\ stk \in [Proc -> Seq(Frames)]
      /\ \A p \in Proc : stk[p] \in Seq(Frames) /\ stk[p] # <<>>
  BY SwitchFacts
<1>2. /\ (stk'[cpu] = s \o Tail(t) /\ pc \notin SwitchPCs) \/ stk'[cpu] = s \o t
      /\ \A p \in Proc \ {cpu} : stk'[p] = stk[p]
  BY <1>1, IInvTypes, NewStack, Zenon
<1>3. s \in Seq(Frames) /\ \A i \in 1 .. Len(s) : s[i].pc \notin PanicPCs
  BY DEF Inert
<1>4. NoPanic'
  <2>1. \A i \in 1 .. Len(t) : t[i].pc \notin PanicPCs
    BY <1>1 DEF NoPanic
  <2>2. \A i \in 1 .. Len(stk'[cpu]) : stk'[cpu][i].pc \notin PanicPCs
    BY <1>1, <1>2, <1>3, <2>1, NoPanicOn
  <2> QED BY <1>2, <2>2 DEF NoPanic
<1>5. Parked'
  BY <1>2 DEF Parked
<1>6. Tail(t) \in Seq(Frames)
  BY <1>1
<1>7. ASSUME Calm(t) PROVE Calm(stk'[cpu])
  <2>1. Calm(Tail(t))
    BY <1>1, <1>7, CalmTop
  <2>2. Calm(s \o t) /\ Calm(s \o Tail(t))
    BY <1>1, <1>6, <1>7, <2>1, CalmOn
  <2> QED BY <1>2, <2>2
<1>8. ASSUME NEW f \in Frames, SwitchAt(t, f), f.pc \in SwitchPCs
      PROVE  SwitchAt(stk'[cpu], f)
  <2>1. CASE stk'[cpu] = s \o t
    BY <1>1, <1>8, <2>1, SwitchOn
  <2>2. CASE stk'[cpu] = s \o Tail(t) /\ pc \notin SwitchPCs
    <3>1. SwitchAt(Tail(t), f)
      BY <1>1, <1>8, <2>2, SwitchUnder DEF pc
    <3> QED BY <1>6, <2>2, <3>1, SwitchOn
  <2> QED BY <1>2, <2>1, <2>2
<1> QED BY <1>4, <1>5, <1>7, <1>8

\* Steps outside schedule() and its switch.
LEMMA InertStep ==
    ASSUME IInv, SwitchInv, failed = {}, NEW s, Inert(s), pc \notin SwitchPCs, Become(s),
           UNCHANGED <<cpu, current, ticks, burst>>
    PROVE  SwitchInv'
<1>1. NoPanic /\ Parked /\ Rested /\ SwitchState
  BY DEF SwitchInv
<1>2. /\ NoPanic' /\ Parked'
      /\ Calm(stk[cpu]) => Calm(stk'[cpu])
      /\ \A f \in Frames : SwitchAt(stk[cpu], f) /\ f.pc \in SwitchPCs => SwitchAt(stk'[cpu], f)
  BY <1>1, InertStack
<1>3. Rested'
  BY <1>1 DEF Rested
<1>4. SwitchState'
  <2>1. CASE Calm(stk[cpu]) /\ current = cpu /\ (ticks[current] = 0 => burst = 0)
    BY <1>2, <2>1 DEF SwitchState
  <2>2. ASSUME NEW f \in Frames, SwitchAt(stk[cpu], f), Stage(f) PROVE SwitchState'
    <3>1. Stage(f)' /\ f.pc \in SwitchPCs
      BY <2>2, StagePC DEF Stage
    <3>2. SwitchAt(stk'[cpu], f)
      BY <1>2, <2>2, <3>1
    <3> QED BY <3>1, <3>2 DEF SwitchState
  <2> QED BY <1>1, <2>1, <2>2 DEF SwitchState
<1> QED BY <1>2, <1>3, <1>4 DEF SwitchInv

\* Goto, Call and Return push inert frames.
LEMMA InertShapes ==
    LET L == PCs \ (SwitchPCs \cup PanicPCs) IN
    /\ Inert(<<>>)
    /\ \A l \in L : Inert(<<At(l)>>)
    /\ \A f, l \in L : Inert(<<At(f), At(l)>>)
<1> DEFINE L == PCs \ (SwitchPCs \cup PanicPCs)
<1>1. Inert(<<>>)
  BY DEF Inert
<1>2. ASSUME NEW l \in L PROVE Inert(<<At(l)>>)
  BY AtType DEF Inert
<1>3. ASSUME NEW f \in L, NEW l \in L PROVE Inert(<<At(f), At(l)>>)
  <2>1. /\ At(f) \in Frames /\ At(f).pc = f /\ At(l) \in Frames /\ At(l).pc = l
    BY AtType
  <2> QED BY <2>1 DEF Inert
<1> QED BY <1>1, <1>2, <1>3

\* The initial state satisfies the invariant.
LEMMA InitSwitchInv == Init => SwitchInv
<1> SUFFICES ASSUME Init PROVE SwitchInv
  OBVIOUS
<1>1. /\ stk = [p \in Proc |-> <<At("body")>>] /\ cpu = Idle /\ current = Idle
      /\ ticks = [p \in Proc |-> Prio[p]] /\ burst = 0
  BY DEF Init
<1>2. Idle \in Proc /\ Prio \in [Proc -> 1 .. 255] /\ MaxBurst \in Nat
  BY KernelAssumption DEF Proc
<1>3. At("body") \in Frames /\ At("body").pc = "body"
  BY AtType DEF PCs
<1>4. ASSUME NEW p \in Proc
      PROVE  /\ stk[p] \in Seq(Frames) /\ stk[p] # <<>> /\ Head(stk[p]).pc = "body"
             /\ Len(stk[p]) = 1 /\ \A i \in 1 .. Len(stk[p]) : stk[p][i].pc = "body"
  BY <1>1, <1>3
<1>5. "body" \notin SwitchPCs /\ "body" \notin PanicPCs
  BY DEF SwitchPCs, PanicPCs
<1>6. \A p \in Proc : Calm(stk[p]) /\ Calm(Tail(stk[p]))
  BY <1>4, <1>5, CalmTop DEF Calm
<1>7. NoPanic /\ Parked
  BY <1>4, <1>5, <1>6 DEF NoPanic, Parked
<1>8. Rested
  BY <1>1, <1>2 DEF Rested
<1>9. SwitchState
  BY <1>1, <1>2, <1>6 DEF SwitchState
<1> QED BY <1>7, <1>8, <1>9 DEF SwitchInv

LockSteps ==
    \/ req_lock \/ sema_down \/ thread_block_end \/ set_holder \/ check_repeat
    \/ set_repeat \/ console_done \/ check_holder \/ release_repeat \/ clear_holder
    \/ clear_repeat \/ sema_up \/ iret \/ panic \/ printk

\* The lock functions, the thread functions and the ends of handlers push
\* inert frames until an assertion fails.
LEMMA LockInert ==
    ASSUME IInv, SwitchInv, failed' = {},
           LockSteps
    PROVE  /\ failed = {} /\ pc \notin SwitchPCs /\ \E s : Inert(s) /\ Become(s)
           /\ UNCHANGED <<cpu, current, ticks, burst>>
<1> DEFINE L == PCs \ (SwitchPCs \cup PanicPCs)
<1>1. UNCHANGED <<cpu, current, ticks, burst>>
  BY Zenon DEF LockSteps, req_lock, sema_down, thread_block_end, set_holder, check_repeat, set_repeat,
     console_done, check_holder, release_repeat, clear_holder, clear_repeat, sema_up, iret,
     panic, printk, threadVars
<1>2. pc \in {"req", "down", "again", "blocked", "gotsema", "owned", "checked", "crit", "rel",
              "relcnt", "relown", "relrep", "up", "upinc", "iret", "panic", "body"}
  BY Zenon DEF LockSteps, req_lock, sema_down, thread_block_end, set_holder, check_repeat, set_repeat,
     console_done, check_holder, release_repeat, clear_holder, clear_repeat, sema_up, iret,
     panic, printk
<1>3. pc \notin SwitchPCs
  BY <1>2 DEF SwitchPCs
<1>4. ASSUME NEW msg, Fail(msg) PROVE FALSE
  BY <1>4 DEF Fail
<1>5. \/ UNCHANGED failed /\ \E l \in {"down", "crit", "gotsema", "again", "owned", "checked",
                                      "rel", "relcnt", "relown", "relrep", "up", "upinc"} : Goto(l)
      \/ UNCHANGED failed /\ Return
      \/ UNCHANGED failed /\ Call("sched", "blocked")
      \/ UNCHANGED failed /\ Call("req", "body")
      \/ panic
  <2>1. CASE sema_up
    BY <1>4, <2>1, Zenon DEF sema_up, thread_unblock, Ok
  <2>2. CASE sema_down \/ check_repeat \/ check_holder \/ release_repeat
    BY <1>4, <2>2, Zenon DEF sema_down, check_repeat, check_holder, release_repeat, Ok
  <2>3. CASE \/ req_lock \/ thread_block_end \/ set_holder \/ set_repeat \/ console_done
             \/ clear_holder \/ clear_repeat \/ iret \/ printk
    BY <2>3, Zenon DEF req_lock, thread_block_end, set_holder, set_repeat, console_done,
       clear_holder, clear_repeat, iret, printk
  <2> QED BY <2>1, <2>2, <2>3 DEF LockSteps
<1>6. CASE panic
  <2>1. failed = {} /\ pc = "panic"
    BY <1>6 DEF panic
  <2>2. stk[cpu] \in Seq(Frames) /\ stk[cpu] # <<>> /\ cpu \in Proc
    BY SwitchFacts
  <2>3. Head(stk[cpu]) = stk[cpu][1] /\ 1 \in 1 .. Len(stk[cpu])
    BY <2>2
  <2> QED BY <2>1, <2>2, <2>3 DEF SwitchInv, NoPanic, pc, PanicPCs
<1>7. CASE ~panic
  <2>1. failed = {}
    BY <1>5, <1>7
  <2>2. {"down", "crit", "gotsema", "again", "owned", "checked", "rel", "relcnt", "relown",
         "relrep", "up", "upinc", "sched", "blocked", "req", "body"} \subseteq L
    BY DEF PCs, SwitchPCs, PanicPCs
  <2>3. PICK s : Inert(s) /\ Become(s)
    <3>1. CASE \E l \in {"down", "crit", "gotsema", "again", "owned", "checked",
                         "rel", "relcnt", "relown", "relrep", "up", "upinc"} : Goto(l)
      BY <2>2, <3>1, InertShapes DEF Goto
    <3>2. CASE Return
      BY <3>2, InertShapes DEF Return
    <3>3. CASE Call("sched", "blocked") \/ Call("req", "body")
      BY <2>2, <3>3, InertShapes DEF Call
    <3> QED BY <1>5, <1>7, <3>1, <3>2, <3>3
  <2> QED BY <1>1, <1>3, <2>1, <2>3
<1> QED BY <1>6, <1>7

\* They leave the switch as it is.
LEMMA LockSwitchInv ==
    ASSUME IInv, SwitchInv, failed' = {}, LockSteps
    PROVE  SwitchInv'
  BY LockInert, InertStep

\* The quantum of the current thread does not run out during a switch.
LEMMA SwitchHasTicks ==
    ASSUME IInv, SwitchInv, failed = {}, ShortSwitch, ticks[current] = 0
    PROVE  Calm(stk[cpu]) /\ current = cpu /\ burst = 0
<1>1. SwitchState
  BY DEF SwitchInv
<1>2. ASSUME NEW f \in Frames, Stage(f) PROVE FALSE
  <2>1. /\ current \in Proc /\ Prio \in [Proc -> 1 .. 255]
        /\ burst \in 0 .. MaxBurst /\ MaxBurst \in Nat
    BY SwitchFacts
  <2>2. Prio[current] \in 1 .. 255 /\ Prio[current] > 2 * MaxBurst
    BY <2>1 DEF ShortSwitch
  <2>3. \/ Prio[current] <= ticks[current] + burst
        \/ Prio[current] <= ticks[current] + burst + MaxBurst
    BY <1>2 DEF Stage
  <2> QED BY <2>1, <2>2, <2>3
<1> QED BY <1>1, <1>2 DEF SwitchState

\* schedule(): returns, or begins a switch where there was none.
LEMMA ScheduleSwitchInv ==
    ASSUME IInv, SwitchInv, failed' = {}, ShortSwitch, schedule
    PROVE  SwitchInv'
<1>1. pc = "sched" /\ UNCHANGED <<cpu, current, burst, failed>>
  BY Zenon DEF schedule
<1>2. failed = {} /\ NoPanic /\ Parked /\ Rested /\ SwitchState
  BY <1>1 DEF SwitchInv
<1>3. /\ cpu \in Proc /\ current \in Proc /\ stk[cpu] \in Seq(Frames) /\ stk[cpu] # <<>>
      /\ ticks \in [Proc -> 0 .. 255] /\ Prio \in [Proc -> 1 .. 255]
      /\ burst \in 0 .. MaxBurst /\ MaxBurst \in Nat
  BY SwitchFacts
<1>4. pc \notin SwitchPCs
  BY <1>1 DEF SwitchPCs
<1>5. CASE ticks[current] # 0
  <2>1. Become(<<>>) /\ UNCHANGED ticks
    BY <1>5, Zenon DEF schedule, Return
  <2> QED BY <1>1, <1>2, <1>4, <2>1, InertShapes, InertStep
<1>6. CASE ticks[current] = 0
  <2>1. ticks' = [ticks EXCEPT ![current] = Prio[current]]
    BY <1>6, Zenon DEF schedule
  <2>2. ticks'[current] = Prio[current] /\ \A p \in Proc \ {current} : ticks'[p] = ticks[p]
    BY <1>3, <2>1
  <2>3. Rested'
    BY <1>1, <1>2, <2>2 DEF Rested
  <2>4. Calm(stk[cpu]) /\ current = cpu /\ burst = 0
    BY <1>2, <1>6, SwitchHasTicks
  <2>5. CASE Become(<<>>)
    <3>1. NoPanic' /\ Parked' /\ Calm(stk'[cpu])
      BY <1>1, <1>2, <1>4, <2>4, <2>5, InertShapes, InertStack
    <3>2. SwitchState'
      BY <1>1, <2>4, <3>1 DEF SwitchState
    <3> QED BY <2>3, <3>1, <3>2 DEF SwitchInv
  <2>6. CASE ready # <<>> /\ Become(<<At("req"), Frame("switch", Head(ready))>>)
    <3>1. Head(ready) \in Proc
      BY <2>6, TypeParts DEF IInv, Base, RestOK
    <3>2. PICK g \in Frames, f \in Frames :
              /\ g = At("req") /\ g.pc = "req"
              /\ f = Frame("switch", Head(ready)) /\ f.pc = "switch"
      <4>1. "req" \in PCs /\ "switch" \in PCs
        BY DEF PCs
      <4>2. At("req") \in Frames /\ At("req").pc = "req"
        BY <4>1, AtType
      <4>3. Frame("switch", Head(ready)) \in Frames /\ Frame("switch", Head(ready)).pc = "switch"
        BY <3>1, <4>1, FrameType
      <4> QED BY <4>2, <4>3, Zenon
    <3>3. <<g, f>> \in Seq(Frames) /\ \A i \in 1 .. Len(<<g, f>>) : <<g, f>>[i].pc \notin PanicPCs
      BY <3>2 DEF PanicPCs
    <3>4. /\ stk'[cpu] = <<g, f>> \o Tail(stk[cpu]) /\ Tail(stk[cpu]) \in Seq(Frames)
          /\ \A p \in Proc \ {cpu} : stk'[p] = stk[p]
      BY <2>6, <3>2, IInvTypes, NewStack
    <3>5. NoPanic'
      <4>1. \A i \in 1 .. Len(stk'[cpu]) : stk'[cpu][i].pc \notin PanicPCs
        BY <1>2, <1>3, <3>3, <3>4, NoPanicOn DEF NoPanic
      <4> QED BY <1>2, <3>4, <4>1 DEF NoPanic
    <3>6. Parked'
      BY <1>1, <1>2, <3>4 DEF Parked
    <3>7. SwitchAt(stk'[cpu], f)
      <4>1. Calm(Tail(stk[cpu])) /\ g.pc \notin SwitchPCs
        BY <1>3, <2>4, <3>2, CalmTop DEF SwitchPCs
      <4> QED BY <3>2, <3>4, <4>1, SwitchPutTwo
    <3>8. Stage(f)'
      <4>1. Prio[current] \in 1 .. 255
        BY <1>3
      <4>2. Prio[current] <= ticks'[current] + burst
        <5>1. Prio[current] \in Nat
          BY <1>3, BudgetTypes
        <5> QED BY <2>2, <2>4, <5>1, Budgets, Zenon
      <4> QED BY <1>1, <2>4, <3>2, <4>2 DEF Stage
    <3>9. SwitchState'
      BY <1>1, <3>2, <3>7, <3>8 DEF SwitchState
    <3> QED BY <2>3, <3>5, <3>6, <3>9 DEF SwitchInv
  <2> QED BY <1>6, <2>5, <2>6, Zenon DEF schedule, Return
<1> QED BY <1>5, <1>6

\* The frame of the running switch is at the top.
LEMMA SwitchRuns ==
    ASSUME IInv, SwitchInv, failed = {}, pc \in SwitchPCs
    PROVE  Stage(Head(stk[cpu])) /\ Calm(Tail(stk[cpu]))
<1>1. stk[cpu] \in Seq(Frames) /\ stk[cpu] # <<>>
  BY SwitchFacts
<1>2. ~Calm(stk[cpu])
  BY <1>1, CalmTop DEF pc
<1>3. PICK f \in Frames : SwitchAt(stk[cpu], f) /\ Stage(f)
  BY <1>2 DEF SwitchInv, SwitchState
<1>4. Head(stk[cpu]) = f /\ Calm(Tail(stk[cpu]))
  BY <1>1, <1>3, SwitchTop DEF pc
<1> QED BY <1>3, <1>4

\* The stages of a switch.
LEMMA StagesSwitchInv ==
    ASSUME IInv, SwitchInv, failed' = {}, switch_thread \/ switch_to \/ switch_end
    PROVE  SwitchInv'
<1> DEFINE t == stk[cpu]
           h == Head(t)
<1>1. /\ pc \in SwitchPCs /\ h.pc = pc /\ h.arg = arg
      /\ UNCHANGED <<ticks, burst, failed>> /\ failed = {}
  BY Zenon DEF switch_thread, switch_to, switch_end, pc, arg, SwitchPCs
<1>2. Stage(h) /\ Calm(Tail(t)) /\ NoPanic /\ Parked /\ Rested
  BY <1>1, SwitchRuns DEF SwitchInv
<1>3. /\ cpu \in Proc /\ current \in Proc /\ stk \in [Proc -> Seq(Frames)]
      /\ \A p \in Proc : stk[p] \in Seq(Frames) /\ stk[p] # <<>>
      /\ ticks \in [Proc -> 0 .. 255] /\ Prio \in [Proc -> 1 .. 255]
      /\ burst \in 0 .. MaxBurst /\ MaxBurst \in Nat
  BY SwitchFacts
<1>4. \A p \in Proc : ticks[p] # 0
  <2>1. pc # "sched"
    BY <1>1 DEF SwitchPCs
  <2> QED BY <2>1, SwitchFacts
<1>5. ASSUME NEW s \in Seq(Frames), Become(s), \A i \in 1 .. Len(s) : s[i].pc \notin PanicPCs
      PROVE  /\ stk'[cpu] = s \o Tail(t) /\ Tail(t) \in Seq(Frames)
             /\ \A p \in Proc \ {cpu} : stk'[p] = stk[p]
             /\ NoPanic'
  <2>1. /\ stk'[cpu] = s \o Tail(t) /\ Tail(t) \in Seq(Frames)
        /\ \A p \in Proc \ {cpu} : stk'[p] = stk[p]
    BY <1>5, IInvTypes, NewStack
  <2>2. \A i \in 1 .. Len(stk'[cpu]) : stk'[cpu][i].pc \notin PanicPCs
    BY <1>2, <1>3, <1>5, <2>1, NoPanicOn DEF NoPanic
  <2> QED BY <1>2, <2>1, <2>2 DEF NoPanic
<1>6. ASSUME Become(<<>>), UNCHANGED <<cpu, current>>, current = cpu PROVE SwitchInv'
  <2>0. <<>> \in Seq(Frames) /\ \A i \in 1 .. Len(<<>>) : <<>>[i].pc \notin PanicPCs
    OBVIOUS
  <2>1. /\ stk'[cpu] = <<>> \o Tail(t) /\ Tail(t) \in Seq(Frames)
        /\ \A p \in Proc \ {cpu} : stk'[p] = stk[p]
        /\ NoPanic'
    BY <1>5, <1>6, <2>0
  <2>2. stk'[cpu] = Tail(t)
    BY <2>1
  <2>3. NoPanic'
    BY <2>1
  <2>4. Parked' /\ Rested'
    BY <1>1, <1>2, <1>6, <2>1 DEF Parked, Rested
  <2>5. SwitchState'
    BY <1>1, <1>2, <1>3, <1>4, <1>6, <2>2 DEF SwitchState
  <2> QED BY <2>3, <2>4, <2>5 DEF SwitchInv
<1>7. CASE switch_end
  <2>1. pc = "resumed" /\ Become(<<>>) /\ UNCHANGED <<cpu, current>>
    BY <1>7, Zenon DEF switch_end, Return
  <2>2. current = cpu
    BY <1>1, <1>2, <2>1 DEF Stage
  <2> QED BY <1>6, <2>1, <2>2
<1>8. CASE switch_thread
  <2>1. pc = "switch" /\ UNCHANGED cpu
    BY <1>8, Zenon DEF switch_thread
  <2>2. current = cpu /\ Prio[current] <= ticks[current] + burst
    BY <1>1, <1>2, <2>1 DEF Stage
  <2>3. CASE current = arg
    <3>1. Become(<<>>) /\ UNCHANGED current
      BY <1>8, <2>3, Zenon DEF switch_thread, Return
    <3> QED BY <1>6, <2>1, <2>2, <3>1
  <2>4. CASE current # arg
    <3>1. current' = arg /\ Become(<<Frame("switch_to", current)>>)
      BY <1>8, <2>4, Zenon DEF switch_thread
    <3>2. PICK f \in Frames : f = Frame("switch_to", current) /\ f.pc = "switch_to" /\ f.arg = cpu
      <4>1. "switch_to" \in PCs
        BY DEF PCs
      <4> QED BY <1>3, <2>2, <4>1, FrameType, Zenon
    <3>3. <<f>> \in Seq(Frames) /\ \A i \in 1 .. Len(<<f>>) : <<f>>[i].pc \notin PanicPCs
      BY <3>2 DEF PanicPCs
    <3>4. /\ stk'[cpu] = <<f>> \o Tail(t) /\ Tail(t) \in Seq(Frames)
          /\ \A p \in Proc \ {cpu} : stk'[p] = stk[p]
          /\ NoPanic'
      BY <1>5, <3>1, <3>2, <3>3
    <3>5. arg \in Proc
      <4>1. h = t[1] /\ 1 \in 1 .. Len(t)
        BY <1>3
      <4> QED BY <1>1, <1>3, <2>1, <4>1 DEF IInv, Base, ArgOK
    <3>6. Parked'
      BY <1>2, <2>1, <3>4 DEF Parked
    <3>7. Rested'
      <4> SUFFICES ASSUME NEW p \in Proc \ {arg} PROVE Prio[p] <= ticks[p] + MaxBurst
        BY <1>1, <3>1 DEF Rested
      <4>1. CASE p = current
        <5>1. Prio[p] \in Nat /\ ticks[p] \in Nat /\ burst \in Nat /\ burst <= MaxBurst
          BY BudgetTypes
        <5> QED BY <1>3, <2>2, <4>1, <5>1, Budgets, Zenon
      <4>2. CASE p # current
        BY <1>2, <4>2 DEF Rested
      <4> QED BY <4>1, <4>2
    <3>8. Stage(f)'
      <4>1. Prio[arg] <= ticks[arg] + MaxBurst
        BY <1>2, <2>4, <3>5 DEF Rested
      <4>2. Prio[arg] \in Nat /\ ticks[arg] \in Nat /\ burst \in Nat
        BY <3>5, BudgetTypes
      <4>3. Prio[arg] <= ticks[arg] + burst + MaxBurst
        BY <1>3, <4>1, <4>2, Budgets, Zenon
      <4> QED BY <1>1, <2>1, <2>2, <2>4, <3>1, <3>2, <4>3 DEF Stage
    <3>9. SwitchState'
      <4>1. SwitchAt(stk'[cpu], f)
        BY <1>2, <3>2, <3>4, SwitchPut
      <4> QED BY <2>1, <3>2, <3>8, <4>1 DEF SwitchState
    <3> QED BY <3>4, <3>6, <3>7, <3>9 DEF SwitchInv
  <2> QED BY <2>3, <2>4
<1>9. CASE switch_to
  <2> DEFINE f == At("resumed")
             n == stk[current]
  <2>1. /\ pc = "switch_to" /\ Become(<<f>>) /\ cpu' = current /\ UNCHANGED current
    BY <1>9, Zenon DEF switch_to, Goto
  <2>2. current # cpu /\ Prio[current] <= ticks[current] + burst + MaxBurst
    BY <1>1, <1>2, <2>1 DEF Stage
  <2>3. f \in Frames /\ f.pc = "resumed"
    BY AtType DEF PCs
  <2> HIDE DEF f
  <2>4. <<f>> \in Seq(Frames) /\ \A i \in 1 .. Len(<<f>>) : <<f>>[i].pc \notin PanicPCs
    BY <2>3 DEF PanicPCs
  <2>5. /\ stk'[cpu] = <<f>> \o Tail(t) /\ Tail(t) \in Seq(Frames)
        /\ \A p \in Proc \ {cpu} : stk'[p] = stk[p]
        /\ NoPanic'
    BY <1>5, <2>1, <2>4
  <2>6. Head(stk'[cpu]) = f /\ Tail(stk'[cpu]) = Tail(t)
    BY <2>3, <2>5
  <2>7. Parked'
    <3> SUFFICES ASSUME NEW p \in Proc \ {current}
                 PROVE  /\ Calm(Tail(stk'[p]))
                        /\ Head(stk'[p]).pc \notin {"switch", "switch_to"}
      BY <2>1 DEF Parked
    <3>1. CASE p = cpu
      BY <1>2, <2>3, <2>6, <3>1
    <3>2. CASE p # cpu
      BY <1>2, <2>5, <3>2 DEF Parked
    <3> QED BY <3>1, <3>2
  <2>8. Rested'
    BY <1>1, <1>2, <2>1 DEF Rested
  <2>9. SwitchState'
    <3>1. /\ stk'[current] = n /\ n \in Seq(Frames) /\ n # <<>>
          /\ Calm(Tail(n)) /\ Head(n).pc \notin {"switch", "switch_to"}
      BY <1>2, <1>3, <2>2, <2>5 DEF Parked
    <3>2. CASE Head(n).pc \in SwitchPCs
      <4>1. PICK g \in Frames : g = Head(n) /\ g.pc = "resumed"
        BY <3>1, <3>2 DEF SwitchPCs
      <4>2. SwitchAt(stk'[current], g)
        BY <3>1, <3>2, <4>1, CalmRest
      <4>3. Stage(g)'
        BY <1>1, <2>1, <2>2, <4>1 DEF Stage
      <4> QED BY <2>1, <4>2, <4>3 DEF SwitchState
    <3>3. CASE Head(n).pc \notin SwitchPCs
      <4>1. Calm(n)
        BY <3>1, <3>3, CalmRest
      <4> QED BY <1>1, <1>3, <1>4, <2>1, <3>1, <4>1 DEF SwitchState
    <3> QED BY <3>2, <3>3
  <2> QED BY <2>5, <2>7, <2>8, <2>9 DEF SwitchInv
<1> QED BY <1>7, <1>8, <1>9

\* Switching is what the model counts the interrupts of.
LEMMA SwitchingMeans ==
    ASSUME IInv, NoPanic
    PROVE  /\ Calm(stk[cpu]) => ~Switching
           /\ \A f \in Frames : SwitchAt(stk[cpu], f) /\ f.pc \in SwitchPCs => Switching
<1>1. cpu \in Proc /\ stk[cpu] \in Seq(Frames)
  BY SwitchFacts
<1>2. DOMAIN stk[cpu] = 1 .. Len(stk[cpu]) /\ Len(stk[cpu]) \in Nat
  BY <1>1
<1>3. Open(stk[cpu]) = 1 .. Len(stk[cpu])
  <2>1. ASSUME NEW i \in 1 .. Len(stk[cpu]), NEW j \in 1 .. i PROVE stk[cpu][j].pc # "spin"
    <3>1. j \in 1 .. Len(stk[cpu])
      BY <1>2, <2>1
    <3> QED BY <1>1, <3>1 DEF NoPanic, PanicPCs
  <2> QED BY <1>2, <2>1 DEF Open
<1>4. Switching <=> \E i \in 1 .. Len(stk[cpu]) : stk[cpu][i].pc \in SwitchPCs
  BY <1>3 DEF Switching, SwitchPCs
<1>5. Calm(stk[cpu]) => ~Switching
  BY <1>4 DEF Calm
<1>6. ASSUME NEW f \in Frames, SwitchAt(stk[cpu], f), f.pc \in SwitchPCs PROVE Switching
  BY <1>4, <1>6 DEF SwitchAt
<1> QED BY <1>5, <1>6

\* Interrupts.  One in a switch takes a tick from the quantum and adds one to
\* the count.
LEMMA InterruptSwitchInv ==
    ASSUME IInv, SwitchInv, failed' = {}, timer_callback \/ printing_interrupt
    PROVE  SwitchInv'
<1>1. UNCHANGED <<cpu, current, failed>> /\ intr
  BY Zenon DEF timer_callback, printing_interrupt, threadVars, Interruptible
<1>2. failed = {} /\ NoPanic /\ Parked /\ Rested /\ SwitchState
  BY <1>1 DEF SwitchInv
<1>3. /\ cpu \in Proc /\ current \in Proc /\ stk[cpu] \in Seq(Frames) /\ stk[cpu] # <<>>
      /\ ticks \in [Proc -> 0 .. 255]
  BY SwitchFacts
<1>4. \A p \in Proc : ticks[p] # 0
  <2>1. stk[cpu][1] = Head(stk[cpu]) /\ 1 \in 1 .. Len(stk[cpu])
    BY <1>3
  <2>2. pc # "sched"
    BY <1>1, <1>3, <2>1 DEF IInv, Base, SchedTop, pc
  <2> QED BY <2>2, SwitchFacts
<1>5. ASSUME NEW l \in {"sched", "req"}, Interrupt(l)
      PROVE  /\ NoPanic' /\ Parked'
             /\ Calm(stk[cpu]) => Calm(stk'[cpu])
             /\ \A f \in Frames : SwitchAt(stk[cpu], f) /\ f.pc \in SwitchPCs
                                     => SwitchAt(stk'[cpu], f)
  <2>1. stk' = [stk EXCEPT ![cpu] = <<At(l), At("iret")>> \o stk[cpu]]
    BY <1>5 DEF Interrupt
  <2>2. Inert(<<At(l), At("iret")>>)
    <3>1. {l, "iret"} \subseteq PCs \ (SwitchPCs \cup PanicPCs)
      BY DEF PCs, SwitchPCs, PanicPCs
    <3> QED BY <3>1, InertShapes
  <2> QED BY <1>1, <1>2, <2>1, <2>2, InertStack
<1>6. CASE printing_interrupt
  <2>1. Interrupt("req") /\ UNCHANGED <<ticks, burst>>
    BY <1>6, Zenon DEF printing_interrupt, threadVars
  <2>2. Rested'
    BY <1>1, <1>2, <2>1 DEF Rested
  <2>3. SwitchState'
    <3>1. CASE Calm(stk[cpu]) /\ current = cpu /\ (ticks[current] = 0 => burst = 0)
      BY <1>1, <1>5, <2>1, <3>1 DEF SwitchState
    <3>2. ASSUME NEW f \in Frames, SwitchAt(stk[cpu], f), Stage(f) PROVE SwitchState'
      <4>1. Stage(f)' /\ f.pc \in SwitchPCs
        BY <1>1, <2>1, <3>2, StagePC DEF Stage
      <4> QED BY <1>1, <1>5, <2>1, <3>2, <4>1 DEF SwitchState
    <3> QED BY <1>2, <3>1, <3>2 DEF SwitchState
  <2> QED BY <1>5, <2>1, <2>2, <2>3 DEF SwitchInv
<1>7. CASE timer_callback
  <2>1. /\ Interrupt("sched") /\ burst' = IF Switching THEN burst + 1 ELSE 0
        /\ ticks' = [ticks EXCEPT ![current] = (@ - 1) % 256]
    BY <1>7, Zenon DEF timer_callback
  <2>2. ticks'[current] = ticks[current] - 1 /\ \A p \in Proc \ {current} : ticks'[p] = ticks[p]
    <3>1. ticks[current] \in 1 .. 255
      BY <1>3, <1>4
    <3>2. (ticks[current] - 1) % 256 = ticks[current] - 1
      BY <3>1
    <3> QED BY <1>3, <2>1, <3>2
  <2>3. Rested'
    BY <1>1, <1>2, <2>2 DEF Rested
  <2>4. SwitchState'
    <3>1. CASE Calm(stk[cpu]) /\ current = cpu
      <4>1. burst' = 0
        BY <1>2, <2>1, <3>1, SwitchingMeans
      <4> QED BY <1>1, <1>5, <2>1, <3>1, <4>1 DEF SwitchState
    <3>2. ASSUME NEW f \in Frames, SwitchAt(stk[cpu], f), Stage(f) PROVE SwitchState'
      <4>1. f.pc \in SwitchPCs
        BY <3>2, StagePC
      <4>2. burst' = burst + 1
        BY <1>2, <2>1, <3>2, <4>1, SwitchingMeans
      <4>3. /\ Prio[current] \in Nat /\ ticks[current] \in Nat /\ burst \in Nat
            /\ MaxBurst \in Nat /\ ticks[current] # 0
        BY <1>3, <1>4, BudgetTypes
      <4>4. /\ Prio[current] <= ticks[current] + burst
                  => Prio[current] <= ticks'[current] + burst'
            /\ Prio[current] <= ticks[current] + burst + MaxBurst
                  => Prio[current] <= ticks'[current] + burst' + MaxBurst
        BY <2>2, <4>2, <4>3, Budgets, Zenon
      <4>5. Stage(f)'
        BY <1>1, <3>2, <4>4 DEF Stage
      <4> QED BY <1>1, <1>5, <2>1, <3>2, <4>1, <4>5 DEF SwitchState
    <3> QED BY <1>2, <3>1, <3>2 DEF SwitchState
  <2> QED BY <1>5, <2>1, <2>3, <2>4 DEF SwitchInv
<1> QED BY <1>6, <1>7

\* Every step keeps the invariant.
LEMMA NextSwitchInv == ShortSwitch /\ IInv /\ SwitchInv /\ [Next]_vars => SwitchInv'
<1> SUFFICES ASSUME ShortSwitch, IInv, SwitchInv, [Next]_vars, failed' = {} PROVE SwitchInv'
  BY DEF SwitchInv
<1>1. CASE Execute
  BY <1>1, LockSwitchInv, ScheduleSwitchInv, StagesSwitchInv DEF Execute, LockSteps
<1>2. CASE printk
  BY <1>2, LockSwitchInv DEF LockSteps
<1>3. ASSUME NEW t \in Threads, kthread_create(t) PROVE SwitchInv'
  BY <1>3 DEF kthread_create, SwitchInv, NoPanic, Parked, Rested, SwitchState, Stage
<1>4. CASE timer_callback \/ printing_interrupt
  BY <1>4, InterruptSwitchInv
<1>5. CASE UNCHANGED vars
  BY <1>5 DEF vars, threadVars, SwitchInv, NoPanic, Parked, Rested, SwitchState, Stage
<1> QED BY <1>1, <1>2, <1>3, <1>4, <1>5 DEF Next

\* The invariant of switches holds in every reachable state.
LEMMA SwitchInvariance == ShortSwitch => (Spec => []SwitchInv)
<1> SUFFICES ASSUME ShortSwitch PROVE Spec => []SwitchInv
  OBVIOUS
<1>1. Init => SwitchInv
  BY InitSwitchInv
<1>2. IInv /\ SwitchInv /\ [Next]_vars => SwitchInv'
  BY NextSwitchInv
<1> QED BY <1>1, <1>2, Invariance, PTL DEF Spec

\* Until an assertion fails, current names the thread whose stack the CPU is
\* on, except between the assignment in switch_thread and switch_to; and
\* switch_to saves the stack of the thread it is given.
THEOREM OwnStackCorrect == ShortSwitch => (Spec => []OwnStack)
<1> SUFFICES ASSUME ShortSwitch PROVE Spec => []OwnStack
  OBVIOUS
<1>1. IInv /\ SwitchInv => OwnStack
  <2> SUFFICES ASSUME IInv, SwitchInv, failed = {} PROVE OwnStack
    BY DEF OwnStack
  <2>1. cpu \in Proc /\ stk[cpu] \in Seq(Frames) /\ DOMAIN stk[cpu] = 1 .. Len(stk[cpu])
    BY SwitchFacts
  <2>2. CASE Calm(stk[cpu]) /\ current = cpu
    BY <2>1, <2>2 DEF OwnStack, Calm, Has, SwitchPCs
  <2>3. ASSUME NEW f \in Frames, SwitchAt(stk[cpu], f), Stage(f) PROVE OwnStack
    <3>1. PICK k \in 1 .. Len(stk[cpu]) :
              /\ stk[cpu][k] = f
              /\ \A i \in 1 .. Len(stk[cpu]) : i # k => stk[cpu][i].pc \notin SwitchPCs
      BY <2>3 DEF SwitchAt
    <3>2. CASE f.pc = "switch_to"
      BY <2>1, <2>3, <3>1, <3>2 DEF OwnStack, Has, SwitchPCs, Stage
    <3>3. CASE f.pc # "switch_to"
      <4>1. current = cpu
        BY <2>3, <3>3 DEF Stage
      <4>2. ~Has(stk[cpu], {"switch_to"})
        BY <2>1, <3>1, <3>3 DEF Has, SwitchPCs
      <4> QED BY <4>1, <4>2 DEF OwnStack
    <3> QED BY <3>2, <3>3
  <2> QED BY <2>2, <2>3 DEF SwitchInv, SwitchState
<1> QED BY <1>1, SwitchInvariance, Invariance, PTL

(***************************************************************************)
(* The two queues: the waiters of the console lock and the ready list.     *)
(*                                                                         *)
(* Until an assertion fails, only the current thread can be in the waiters *)
(* list of the console lock, and sema_up never finds anybody to wake.  The *)
(* argument follows the frames of one stack from the bottom.  The lock is  *)
(* free; or a frame has the semaphore and is not the holder yet, or no     *)
(* longer; or frames from some depth on hold the lock, each entry counted  *)
(* in repeat except at the start; or a thread that is switched out holds   *)
(* it.  In the second and the last case a printk waits for ever: the       *)
(* handlers above it can only end in the assertion "running thread must    *)
(* not be waiting", because the printk of schedule() would wait as well.   *)
(*                                                                         *)
(* The ready list loses no thread and queues none twice, and thread        *)
(* creation and switches implement the abstract scheduler of module        *)
(* RoundRobin.  With switches that do not nest, the thread chosen by       *)
(* schedule() is the argument of the one frame of switch_thread, or the    *)
(* current thread; only kthread_create, schedule() and thread_unblock      *)
(* change the list, and the last of them is never called.                  *)
(***************************************************************************)
\* The place of the frame at depth d of stack s, counted from the bottom: a
\* push or a return does not change it for the frames below.
PcAt(s, d) == s[Len(s) + 1 - d].pc

\* Places where a thread has the semaphore but is not the holder; where it is
\* the holder, or was before a handler on its own stack gave the lock away;
\* and those of them that one entry in the repeat count stands for.
Between  == {"gotsema", "relrep", "up"}
Owning   == {"owned", "checked", "crit", "rel", "relcnt", "relown"}
Counted  == {"crit", "rel", "relcnt", "relown"}
Waiting  == {"blocked", "again"}

\* The places of a printk that waits, or may have to.
Asking == {"req", "down", "blocked", "again"}

\* Places of a thread that does not have the lock: after a handler on its
\* stack gave the lock away, it may still believe that it has.
Low == {"body", "req", "down", "owned", "checked", "crit", "rel", "sched", "switch",
        "switch_to", "resumed", "iret"}

\* What lies above a frame that has the semaphore; above one that is holder.
OverToken == {"sched", "iret", "req", "down", "switch", "blocked", "again"}
OverHeld  == {"sched", "iret", "req", "switch", "crit", "rel", "relcnt", "relown"}

LowStack(s) == \A d \in 1 .. Len(s) : PcAt(s, d) \in Low

\* Above depth a of stack s, the printk of a schedule() has not returned.
Stuck(s, a) ==
    \A d \in a + 1 .. Len(s) : PcAt(s, d) = "switch" =>
        d < Len(s) /\ PcAt(s, d + 1) \in Asking

\* Whoever waits is the current thread, above depth a of stack s.
WaitsAbove(s, a) ==
    waiters # <<>> =>
        waiters = <<current>> /\ \E d \in a + 1 .. Len(s) : PcAt(s, d) \in Waiting

CountedAbove(s, b) == {d \in b .. Len(s) : PcAt(s, d) \in Counted}

Free(s) == holder = NULL /\ value = 1 /\ waiters = <<>> /\ LowStack(s)

\* The frame at depth a has the semaphore.
TokenAt(s, a) ==
    /\ PcAt(s, a) \in Between
    /\ \A d \in 1 .. a - 1 : PcAt(s, d) \in Low
    /\ \A d \in a + 1 .. Len(s) : PcAt(s, d) \in OverToken

Token(s, w) ==
    /\ holder = NULL /\ value = 0
    /\ \E a \in w + 1 .. Len(s) : TokenAt(s, a) /\ Stuck(s, a) /\ WaitsAbove(s, a)

\* The frames from depth b on hold the lock.
HeldAt(s, b) ==
    /\ PcAt(s, b) \in Owning
    /\ \A d \in 1 .. b - 1 : PcAt(s, d) \in Low
    /\ \A d \in b + 1 .. Len(s) : PcAt(s, d) \in OverHeld
    /\ \A d \in b .. Len(s) : PcAt(s, d) = "relown" =>
          \A e \in b .. d - 1 : PcAt(s, e) \notin Counted

\* The repeat count is exact, but for what an earlier printk may have left
\* there when the assertion of req_lock is still to come.
CountAt(s, b) ==
    /\ Cardinality(CountedAbove(s, b)) <= repeat
    /\ Cardinality(CountedAbove(s, b)) = repeat \/ PcAt(s, b) = "owned"

Held(s, w) ==
    /\ holder = current /\ value = 0 /\ waiters = <<>>
    /\ \E b \in w + 1 .. Len(s) : HeldAt(s, b) /\ CountAt(s, b)

Other(s, w) ==
    /\ holder \notin {NULL, current} /\ value = 0
    /\ \A d \in w + 1 .. Len(s) : PcAt(s, d) \in Low \cup Waiting
    /\ Stuck(s, w) /\ WaitsAbove(s, w)
    /\ w > 0 => holder = cpu

\* w is the depth of the frame of switch_to, or 0: the frames above it act
\* for the current thread.
Window(s, w) ==
    /\ w > 0 => PcAt(s, w) = "switch_to"
    /\ \A d \in w + 1 .. Len(s) : PcAt(s, d) # "switch_to"

Modes(s, w) == Free(s) \/ Token(s, w) \/ Held(s, w) \/ Other(s, w)

\* The stacks of the threads that are not running, but for the holder's.
Sleeping == \A p \in Proc \ {cpu} : p # holder \/ p = current => LowStack(stk[p])

WaitState ==
    /\ Sleeping
    /\ \E w \in 0 .. Len(stk[cpu]) : Window(stk[cpu], w) /\ Modes(stk[cpu], w)

WaitInv == failed = {} => WaitState

(***************************************************************************)
(* Stacks                                                                  *)
(***************************************************************************)

\* Stacks t and u agree up to depth k.
Under(t, u, k) == \A d \in 1 .. k : PcAt(u, d) = PcAt(t, d)

\* What a step makes of the stack t: the top frame goes on at l; it returns;
\* it goes on at l after a call of f; an interrupt runs f over it.
Swap(t, u, l)   == Len(u) = Len(t) /\ Under(t, u, Len(t) - 1) /\ PcAt(u, Len(t)) = l
Pop(t, u)       == Len(u) = Len(t) - 1 /\ Under(t, u, Len(t) - 1)
Two(t, u, f, l) == /\ Len(u) = Len(t) + 1 /\ Under(t, u, Len(t) - 1)
                   /\ PcAt(u, Len(t)) = l /\ PcAt(u, Len(t) + 1) = f
Over(t, u, f)   == /\ Len(u) = Len(t) + 2 /\ Under(t, u, Len(t))
                   /\ PcAt(u, Len(t) + 1) = "iret" /\ PcAt(u, Len(t) + 2) = f

LEMMA ShapeTop ==
    ASSUME NEW t \in Seq(Frames), t # <<>>
    PROVE  Len(t) \in Nat /\ Len(t) > 0 /\ PcAt(t, Len(t)) = Head(t).pc
<1>1. Len(t) \in Nat /\ Len(t) > 0 /\ Head(t) = t[1] /\ Len(t) + 1 - Len(t) = 1
  OBVIOUS
<1> QED BY <1>1 DEF PcAt

LEMMA ShapeSwap ==
    ASSUME NEW t \in Seq(Frames), t # <<>>, NEW f \in Frames
    PROVE  Swap(t, <<f>> \o Tail(t), f.pc)
<1> DEFINE u == <<f>> \o Tail(t)
<1>1. /\ Len(t) \in Nat /\ Len(t) > 0 /\ Tail(t) \in Seq(Frames) /\ Len(Tail(t)) = Len(t) - 1
      /\ \A i \in 1 .. Len(t) - 1 : Tail(t)[i] = t[i + 1]
  OBVIOUS
<1>2. Len(u) = Len(t) /\ u[1] = f /\ \A i \in 2 .. Len(t) : u[i] = Tail(t)[i - 1]
  BY <1>1, PushOne
<1> HIDE DEF u
<1>3. ASSUME NEW d \in 1 .. Len(t) - 1 PROVE PcAt(u, d) = PcAt(t, d)
  <2>1. Len(t) + 1 - d \in 2 .. Len(t) /\ Len(t) + 1 - d - 1 \in 1 .. Len(t) - 1
    BY <1>1
  <2>2. u[Len(t) + 1 - d] = t[Len(t) + 1 - d - 1 + 1] /\ Len(t) + 1 - d - 1 + 1 = Len(t) + 1 - d
    BY <1>1, <1>2, <2>1
  <2> QED BY <1>2, <2>2 DEF PcAt
<1>4. PcAt(u, Len(t)) = f.pc
  <2>1. Len(t) + 1 - Len(t) = 1
    BY <1>1
  <2> QED BY <1>2, <2>1 DEF PcAt
<1> QED BY <1>2, <1>3, <1>4 DEF Swap, Under, u

LEMMA ShapePop ==
    ASSUME NEW t \in Seq(Frames), t # <<>>
    PROVE  Pop(t, <<>> \o Tail(t))
<1> DEFINE u == <<>> \o Tail(t)
<1>1. /\ Len(t) \in Nat /\ Len(t) > 0 /\ Len(u) = Len(t) - 1
      /\ \A i \in 1 .. Len(t) - 1 : u[i] = t[i + 1]
  OBVIOUS
<1> HIDE DEF u
<1>2. ASSUME NEW d \in 1 .. Len(t) - 1 PROVE PcAt(u, d) = PcAt(t, d)
  <2>1. Len(u) + 1 - d \in 1 .. Len(t) - 1 /\ Len(u) + 1 - d + 1 = Len(t) + 1 - d
    BY <1>1
  <2> QED BY <1>1, <2>1 DEF PcAt
<1> QED BY <1>1, <1>2 DEF Pop, Under, u

LEMMA ShapeTwo ==
    ASSUME NEW t \in Seq(Frames), t # <<>>, NEW f \in Frames, NEW g \in Frames
    PROVE  Two(t, <<f, g>> \o Tail(t), f.pc, g.pc)
<1> DEFINE u == <<f, g>> \o Tail(t)
<1>1. /\ Len(t) \in Nat /\ Len(t) > 0 /\ Tail(t) \in Seq(Frames) /\ Len(Tail(t)) = Len(t) - 1
      /\ \A i \in 1 .. Len(t) - 1 : Tail(t)[i] = t[i + 1]
  OBVIOUS
<1>2. /\ Len(u) = Len(t) + 1 /\ u[1] = f /\ u[2] = g
      /\ \A i \in 3 .. Len(t) + 1 : u[i] = Tail(t)[i - 2]
  BY <1>1, PushTwo
<1> HIDE DEF u
<1>3. ASSUME NEW d \in 1 .. Len(t) - 1 PROVE PcAt(u, d) = PcAt(t, d)
  <2>1. /\ Len(u) + 1 - d \in 3 .. Len(t) + 1
        /\ Len(u) + 1 - d - 2 \in 1 .. Len(t) - 1
        /\ Len(u) + 1 - d - 2 + 1 = Len(t) + 1 - d
    BY <1>1, <1>2
  <2>2. u[Len(u) + 1 - d] = t[Len(t) + 1 - d]
    BY <1>1, <1>2, <2>1
  <2> QED BY <2>2 DEF PcAt
<1>4. PcAt(u, Len(t)) = g.pc /\ PcAt(u, Len(t) + 1) = f.pc
  <2>1. Len(u) + 1 - Len(t) = 2 /\ Len(u) + 1 - (Len(t) + 1) = 1
    BY <1>1, <1>2
  <2> QED BY <1>2, <2>1 DEF PcAt
<1> QED BY <1>2, <1>3, <1>4 DEF Two, Under, u

LEMMA ShapeOver ==
    ASSUME NEW t \in Seq(Frames), NEW l \in PCs
    PROVE  Over(t, <<At(l), At("iret")>> \o t, l)
<1> DEFINE u == <<At(l), At("iret")>> \o t
<1>1. At(l) \in Frames /\ At(l).pc = l /\ At("iret") \in Frames /\ At("iret").pc = "iret"
  <2>1. "iret" \in PCs
    BY DEF PCs
  <2> QED BY <2>1, AtType
<1>2. /\ Len(t) \in Nat /\ Len(u) = Len(t) + 2 /\ u[1].pc = l /\ u[2].pc = "iret"
      /\ \A i \in 3 .. Len(t) + 2 : u[i] = t[i - 2]
  BY <1>1, PushTwo
<1> HIDE DEF u
<1>3. ASSUME NEW d \in 1 .. Len(t) PROVE PcAt(u, d) = PcAt(t, d)
  <2>1. Len(u) + 1 - d \in 3 .. Len(t) + 2 /\ Len(u) + 1 - d - 2 = Len(t) + 1 - d
    BY <1>2
  <2>2. u[Len(u) + 1 - d] = t[Len(t) + 1 - d]
    BY <1>2, <2>1
  <2> QED BY <2>2 DEF PcAt
<1>4. PcAt(u, Len(t) + 1) = "iret" /\ PcAt(u, Len(t) + 2) = l
  <2>1. Len(u) + 1 - (Len(t) + 1) = 2 /\ Len(u) + 1 - (Len(t) + 2) = 1
    BY <1>2
  <2> QED BY <1>2, <2>1 DEF PcAt
<1> QED BY <1>2, <1>3, <1>4 DEF Over, Under, u

\* The step puts only frames at places in S on the stack.
Adds(t, u, S) ==
    \/ \E l \in S : Swap(t, u, l)
    \/ Pop(t, u)
    \/ \E f, l \in S : Two(t, u, f, l)
    \/ \E f \in S : Over(t, u, f)

\* The frame at depth a stays: it is not the top one, or it is interrupted.
Keeps(t, u, a) == a < Len(t) \/ \E f \in {"sched", "req"} : Over(t, u, f)

\* Frames above depth a at places in S stay at places in S.
LEMMA RangeStep ==
    ASSUME NEW t, NEW u, Len(t) \in Nat, NEW a \in 0 .. Len(t), NEW S, "iret" \in S,
           \A d \in a + 1 .. Len(t) : PcAt(t, d) \in S, Adds(t, u, S), Keeps(t, u, a)
    PROVE  /\ a <= Len(u) /\ Len(u) \in Nat /\ Under(t, u, a)
           /\ \A d \in a + 1 .. Len(u) : PcAt(u, d) \in S
<1>1. CASE \E f \in S : Over(t, u, f)
  BY <1>1 DEF Over, Under
<1>2. CASE a < Len(t)
  <2>1. CASE \E l \in S : Swap(t, u, l)
    BY <1>2, <2>1 DEF Swap, Under
  <2>2. CASE Pop(t, u)
    BY <1>2, <2>2 DEF Pop, Under
  <2>3. CASE \E f, l \in S : Two(t, u, f, l)
    BY <1>2, <2>3 DEF Two, Under
  <2> QED BY <1>1, <2>1, <2>2, <2>3 DEF Adds
<1>3. CASE ~(a < Len(t))
  <2>1. PICK f \in {"sched", "req"} : Over(t, u, f)
    BY <1>3 DEF Keeps
  <2>2. Len(u) = Len(t) + 2
    BY <2>1 DEF Over
  <2>3. \E g \in S : Over(t, u, g)
    BY <2>2 DEF Adds, Swap, Pop, Two
  <2> QED BY <1>1, <2>3
<1> QED BY <1>1, <1>2, <1>3

LEMMA LowStep ==
    ASSUME NEW t, NEW u, Len(t) \in Nat, Len(t) > 0, LowStack(t), Adds(t, u, Low)
    PROVE  LowStack(u)
<1>1. 0 \in 0 .. Len(t) /\ Keeps(t, u, 0) /\ "iret" \in Low
  BY DEF Keeps, Low
<1>2. \A d \in 0 + 1 .. Len(t) : PcAt(t, d) \in Low
  BY DEF LowStack
<1>3. \A d \in 0 + 1 .. Len(u) : PcAt(u, d) \in Low
  BY <1>1, <1>2, RangeStep
<1> QED BY <1>3 DEF LowStack

\* The window of switch_to is closed or opened by that frame alone.
LEMMA WindowStep ==
    ASSUME NEW t, NEW u, Len(t) \in Nat, Len(t) > 0, NEW w \in 0 .. Len(t), Window(t, w),
           PcAt(t, Len(t)) # "switch_to" \/ \E f : Over(t, u, f) /\ f # "switch_to",
           \/ \E l : Swap(t, u, l) /\ l # "switch_to"
           \/ Pop(t, u)
           \/ \E f, l : Two(t, u, f, l) /\ f # "switch_to" /\ l # "switch_to"
           \/ \E f : Over(t, u, f) /\ f # "switch_to"
    PROVE  w \in 0 .. Len(u) /\ Window(u, w)
<1>1. CASE \E f : Over(t, u, f) /\ f # "switch_to"
  BY <1>1 DEF Window, Over, Under
<1>2. CASE PcAt(t, Len(t)) # "switch_to"
  <2>1. w < Len(t)
    BY <1>2 DEF Window
  <2>2. CASE \E l : Swap(t, u, l) /\ l # "switch_to"
    BY <2>1, <2>2 DEF Window, Swap, Under
  <2>3. CASE Pop(t, u)
    BY <2>1, <2>3 DEF Window, Pop, Under
  <2>4. CASE \E f, l : Two(t, u, f, l) /\ f # "switch_to" /\ l # "switch_to"
    BY <2>1, <2>4 DEF Window, Two, Under
  <2> QED BY <1>1, <2>2, <2>3, <2>4
<1> QED BY <1>1, <1>2

\* The steps that a frame may take while the printk of a schedule() below it
\* does not return.
Bound(t, u) ==
    \/ /\ Pop(t, u) /\ PcAt(t, Len(t)) \notin Asking
    \/ \E l : /\ Swap(t, u, l) /\ l # "switch"
              /\ PcAt(t, Len(t)) \in Asking => l \in Asking
              /\ PcAt(t, Len(t)) \in Waiting => l \in Waiting
    \/ \E f, l : /\ Two(t, u, f, l) /\ f # "switch"
                 /\ l = "switch" => f \in Asking
                 /\ PcAt(t, Len(t)) \in Asking => l \in Asking
                 /\ PcAt(t, Len(t)) \in Waiting => l \in Waiting
    \/ \E f : Over(t, u, f) /\ f # "switch"

LEMMA StuckStep ==
    ASSUME NEW t, NEW u, Len(t) \in Nat, NEW a \in 0 .. Len(t),
           Keeps(t, u, a), Stuck(t, a), Bound(t, u)
    PROVE  Stuck(u, a)
<1>1. CASE Pop(t, u) /\ PcAt(t, Len(t)) \notin Asking /\ a < Len(t)
  <2> SUFFICES ASSUME NEW d \in a + 1 .. Len(u), PcAt(u, d) = "switch"
               PROVE  d < Len(u) /\ PcAt(u, d + 1) \in Asking
    BY DEF Stuck
  <2>1. Len(u) = Len(t) - 1 /\ d \in 1 .. Len(t) - 1
    BY <1>1 DEF Pop
  <2>2. PcAt(t, d) = "switch"
    BY <1>1, <2>1 DEF Pop, Under
  <2>3. PcAt(t, d + 1) \in Asking
    BY <2>1, <2>2 DEF Stuck
  <2>4. d + 1 \in 1 .. Len(t) - 1
    BY <1>1, <2>1, <2>3
  <2> QED BY <1>1, <2>1, <2>3, <2>4 DEF Pop, Under
<1>2. ASSUME NEW l, Swap(t, u, l), l # "switch", a < Len(t),
             PcAt(t, Len(t)) \in Asking => l \in Asking
      PROVE  Stuck(u, a)
  <2> SUFFICES ASSUME NEW d \in a + 1 .. Len(u), PcAt(u, d) = "switch"
               PROVE  d < Len(u) /\ PcAt(u, d + 1) \in Asking
    BY DEF Stuck
  <2>1. Len(u) = Len(t) /\ d # Len(t) /\ d \in 1 .. Len(t) - 1
    BY <1>2 DEF Swap
  <2>2. PcAt(t, d) = "switch"
    BY <1>2, <2>1 DEF Swap, Under
  <2>3. PcAt(t, d + 1) \in Asking
    BY <2>1, <2>2 DEF Stuck
  <2> QED BY <1>2, <2>1, <2>3 DEF Swap, Under
<1>3. ASSUME NEW f, NEW l, Two(t, u, f, l), f # "switch", l = "switch" => f \in Asking,
             a < Len(t), PcAt(t, Len(t)) \in Asking => l \in Asking
      PROVE  Stuck(u, a)
  <2> SUFFICES ASSUME NEW d \in a + 1 .. Len(u), PcAt(u, d) = "switch"
               PROVE  d < Len(u) /\ PcAt(u, d + 1) \in Asking
    BY DEF Stuck
  <2>1. Len(u) = Len(t) + 1 /\ d \in 1 .. Len(t)
    BY <1>3 DEF Two
  <2>2. CASE d = Len(t)
    BY <1>3, <2>1, <2>2 DEF Two
  <2>3. CASE d \in 1 .. Len(t) - 1
    <3>1. PcAt(t, d) = "switch"
      BY <1>3, <2>3 DEF Two, Under
    <3>2. PcAt(t, d + 1) \in Asking
      BY <2>3, <3>1 DEF Stuck
    <3> QED BY <1>3, <2>1, <2>3, <3>2 DEF Two, Under
  <2> QED BY <2>1, <2>2, <2>3
<1>4. ASSUME NEW f, Over(t, u, f), f # "switch" PROVE Stuck(u, a)
  BY <1>4 DEF Stuck, Over, Under
<1>5. CASE a < Len(t)
  BY <1>1, <1>2, <1>3, <1>4, <1>5 DEF Bound
<1>6. CASE \E f \in {"sched", "req"} : Over(t, u, f)
  BY <1>4, <1>6
<1> QED BY <1>5, <1>6 DEF Keeps

LEMMA WaitsStep ==
    ASSUME NEW t, NEW u, Len(t) \in Nat, NEW a \in 0 .. Len(t),
           Keeps(t, u, a), WaitsAbove(t, a), Bound(t, u),
           UNCHANGED <<waiters, current>>
    PROVE  WaitsAbove(u, a)'
<1> SUFFICES ASSUME waiters # <<>> PROVE \E d \in a + 1 .. Len(u) : PcAt(u, d) \in Waiting
  BY DEF WaitsAbove
<1>1. PICK d \in a + 1 .. Len(t) : PcAt(t, d) \in Waiting
  BY DEF WaitsAbove
<1>2. CASE Pop(t, u) /\ PcAt(t, Len(t)) \notin Asking
  BY <1>1, <1>2 DEF Pop, Under, Asking, Waiting
<1>3. ASSUME NEW l, Swap(t, u, l), PcAt(t, Len(t)) \in Waiting => l \in Waiting
      PROVE  PcAt(u, d) \in Waiting /\ d \in a + 1 .. Len(u)
  BY <1>1, <1>3 DEF Swap, Under
<1>4. ASSUME NEW f, NEW l, Two(t, u, f, l), PcAt(t, Len(t)) \in Waiting => l \in Waiting
      PROVE  PcAt(u, d) \in Waiting /\ d \in a + 1 .. Len(u)
  BY <1>1, <1>4 DEF Two, Under
<1>5. ASSUME NEW f, Over(t, u, f)
      PROVE  PcAt(u, d) \in Waiting /\ d \in a + 1 .. Len(u)
  BY <1>1, <1>5 DEF Over, Under
<1> QED BY <1>2, <1>3, <1>4, <1>5 DEF Bound

\* The current thread joins the waiters.
LEMMA WaitsJoin ==
    ASSUME NEW t, NEW u, Len(t) \in Nat, NEW a \in 0 .. Len(t) - 1, Two(t, u, "sched", "blocked"),
           waiters' = <<current>>, UNCHANGED current
    PROVE  WaitsAbove(u, a)'
<1>1. Len(t) \in a + 1 .. Len(u) /\ PcAt(u, Len(t)) \in Waiting
  BY DEF Two, Waiting
<1> QED BY <1>1 DEF WaitsAbove

(***************************************************************************)
(* Steps that leave the lock as it is                                      *)
(***************************************************************************)

QuietMove(t, u) ==
    LET top == PcAt(t, Len(t)) IN
    \/ top = "body" /\ Two(t, u, "req", "body")
    \/ top = "req" /\ holder # current /\ Swap(t, u, "down")
    \/ top = "blocked" /\ Swap(t, u, "again")
    \/ top = "owned" /\ repeat = 0 /\ Swap(t, u, "checked")
    \/ top = "crit" /\ Swap(t, u, "rel")
    \/ top = "rel" /\ holder = current /\ Swap(t, u, "relcnt")
    \/ top = "relcnt" /\ repeat = 1 /\ Swap(t, u, "relown")
    \/ top \in {"sched", "iret", "resumed", "switch"} /\ Pop(t, u)
    \/ top = "sched" /\ Two(t, u, "req", "switch")
    \/ \E f \in {"sched", "req"} : Over(t, u, f)

LEMMA QuietWindow ==
    ASSUME NEW t, NEW u, Len(t) \in Nat, Len(t) > 0, NEW w \in 0 .. Len(t), Window(t, w),
           QuietMove(t, u)
    PROVE  w \in 0 .. Len(u) /\ Window(u, w)
<1>1. PcAt(t, Len(t)) # "switch_to" \/ \E f : Over(t, u, f) /\ f # "switch_to"
  BY DEF QuietMove
<1>2. \/ \E l : Swap(t, u, l) /\ l # "switch_to"
      \/ Pop(t, u)
      \/ \E f, l : Two(t, u, f, l) /\ f # "switch_to" /\ l # "switch_to"
      \/ \E f : Over(t, u, f) /\ f # "switch_to"
  BY DEF QuietMove
<1> QED BY <1>1, <1>2, WindowStep

LEMMA QuietFree ==
    ASSUME NEW t, NEW u, Len(t) \in Nat, Len(t) > 0, current \in Proc, Free(t), QuietMove(t, u),
           UNCHANGED <<holder, value, waiters>>
    PROVE  Free(u)'
<1>1. PcAt(t, Len(t)) \in Low /\ LowStack(t)
  BY DEF Free, LowStack
<1>2. holder # current
  BY KernelAssumption DEF Free
<1>3. Adds(t, u, Low)
  <2>1. PcAt(t, Len(t)) \notin {"blocked", "relcnt"}
    BY <1>1 DEF Low
  <2>2. {"req", "body", "down", "checked", "rel", "switch", "sched"} \subseteq Low
    BY DEF Low
  <2> QED BY <1>2, <2>1, <2>2 DEF QuietMove, Adds
<1>4. LowStack(u)
  BY <1>1, <1>3, LowStep
<1> QED BY <1>4 DEF Free

LEMMA QuietToken ==
    ASSUME NEW t, NEW u, Len(t) \in Nat, Len(t) > 0, current \in Proc, NEW w \in 0 .. Len(t),
           Token(t, w), QuietMove(t, u), UNCHANGED <<holder, value, waiters, current>>
    PROVE  Token(u, w)'
<1>1. PICK a \in w + 1 .. Len(t) : TokenAt(t, a) /\ Stuck(t, a) /\ WaitsAbove(t, a)
  BY DEF Token
<1>2. a \in 0 .. Len(t) /\ a > 0
  OBVIOUS
<1>3. PcAt(t, Len(t)) \in Between \cup OverToken
  BY <1>1, <1>2 DEF TokenAt
<1>4. PcAt(t, Len(t)) # "switch" \/ \E f \in {"sched", "req"} : Over(t, u, f)
  <2>1. ASSUME PcAt(t, Len(t)) = "switch" PROVE FALSE
    <3>1. Len(t) # a
      BY <1>1, <2>1 DEF TokenAt, Between
    <3> QED BY <1>1, <1>2, <2>1, <3>1 DEF Stuck
  <2> QED BY <2>1
<1>5. /\ Keeps(t, u, a)
      /\ \/ PcAt(t, Len(t)) = "req" /\ Swap(t, u, "down")
         \/ PcAt(t, Len(t)) = "blocked" /\ Swap(t, u, "again")
         \/ PcAt(t, Len(t)) \in {"sched", "iret"} /\ Pop(t, u)
         \/ PcAt(t, Len(t)) = "sched" /\ Two(t, u, "req", "switch")
         \/ \E f \in {"sched", "req"} : Over(t, u, f)
  <2>1. CASE \E f \in {"sched", "req"} : Over(t, u, f)
    BY <2>1 DEF Keeps
  <2>2. CASE ~ \E f \in {"sched", "req"} : Over(t, u, f)
    <3>1. PcAt(t, Len(t)) \notin {"body", "owned", "crit", "rel", "relcnt", "resumed", "switch"}
      BY <1>3, <1>4, <2>2 DEF Between, OverToken
    <3>2. \/ PcAt(t, Len(t)) = "req" /\ Swap(t, u, "down")
          \/ PcAt(t, Len(t)) = "blocked" /\ Swap(t, u, "again")
          \/ PcAt(t, Len(t)) \in {"sched", "iret"} /\ Pop(t, u)
          \/ PcAt(t, Len(t)) = "sched" /\ Two(t, u, "req", "switch")
      BY <2>2, <3>1 DEF QuietMove
    <3>3. PcAt(t, Len(t)) \notin Between
      BY <3>2 DEF Between
    <3>4. a < Len(t)
      BY <1>1, <1>2, <3>3 DEF TokenAt
    <3> QED BY <3>2, <3>4 DEF Keeps
  <2> QED BY <2>1, <2>2
<1>6. Adds(t, u, OverToken) /\ Bound(t, u)
  <2>1. {"down", "again", "req", "switch", "sched"} \subseteq OverToken
    BY DEF OverToken
  <2>2. /\ "req" \in Asking /\ "req" \notin Waiting /\ "down" \in Asking /\ "blocked" \in Asking
        /\ "again" \in Asking /\ "again" \in Waiting
        /\ {"sched", "iret"} \cap Asking = {} /\ {"sched", "iret"} \cap Waiting = {}
    BY DEF Asking, Waiting
  <2>3. Adds(t, u, OverToken)
    BY <1>5, <2>1 DEF Adds
  <2>4. Bound(t, u)
    BY <1>5, <2>2 DEF Bound
  <2> QED BY <2>3, <2>4
<1>7. /\ a <= Len(u) /\ Len(u) \in Nat /\ Under(t, u, a)
      /\ \A d \in a + 1 .. Len(u) : PcAt(u, d) \in OverToken
  <2>1. "iret" \in OverToken
    BY DEF OverToken
  <2> QED BY <1>1, <1>2, <1>5, <1>6, <2>1, RangeStep DEF TokenAt
<1>8. TokenAt(u, a)
  BY <1>1, <1>2, <1>7 DEF TokenAt, Under
<1>9. Stuck(u, a) /\ WaitsAbove(u, a)'
  BY <1>1, <1>2, <1>5, <1>6, StuckStep, WaitsStep
<1>10. a \in w + 1 .. Len(u)
  BY <1>7
<1> QED BY <1>8, <1>9, <1>10 DEF Token

LEMMA QuietOther ==
    ASSUME NEW t, NEW u, Len(t) \in Nat, Len(t) > 0, current \in Proc, NEW w \in 0 .. Len(t),
           Window(t, w), Other(t, w), QuietMove(t, u),
           UNCHANGED <<cpu, holder, value, waiters, current>>
    PROVE  Other(u, w)'
<1>1. /\ \A d \in w + 1 .. Len(t) : PcAt(t, d) \in Low \cup Waiting
      /\ Stuck(t, w) /\ WaitsAbove(t, w) /\ holder # current
  BY DEF Other
<1>2. Keeps(t, u, w)
  <2>1. CASE \E f \in {"sched", "req"} : Over(t, u, f)
    BY <2>1 DEF Keeps
  <2>2. CASE ~ \E f \in {"sched", "req"} : Over(t, u, f)
    <3>1. PcAt(t, Len(t)) # "switch_to"
      BY <2>2 DEF QuietMove
    <3>2. w # Len(t)
      BY <3>1 DEF Window
    <3> QED BY <3>2 DEF Keeps
  <2> QED BY <2>1, <2>2
<1>3. \/ PcAt(t, Len(t)) = "body" /\ Two(t, u, "req", "body")
      \/ PcAt(t, Len(t)) = "req" /\ Swap(t, u, "down")
      \/ PcAt(t, Len(t)) = "blocked" /\ Swap(t, u, "again")
      \/ PcAt(t, Len(t)) = "owned" /\ Swap(t, u, "checked")
      \/ PcAt(t, Len(t)) = "crit" /\ Swap(t, u, "rel")
      \/ PcAt(t, Len(t)) \in {"sched", "iret", "resumed"} /\ Pop(t, u)
      \/ PcAt(t, Len(t)) = "sched" /\ Two(t, u, "req", "switch")
      \/ \E f \in {"sched", "req"} : Over(t, u, f)
  <2>1. CASE \E f \in {"sched", "req"} : Over(t, u, f)
    BY <2>1
  <2>2. CASE ~ \E f \in {"sched", "req"} : Over(t, u, f)
    <3>1. w < Len(t)
      BY <1>2, <2>2 DEF Keeps
    <3>2. PcAt(t, Len(t)) \in Low \cup Waiting /\ PcAt(t, Len(t)) # "switch"
      BY <1>1, <3>1 DEF Stuck
    <3>3. PcAt(t, Len(t)) # "relcnt"
      BY <3>2 DEF Low, Waiting
    <3> QED BY <1>1, <2>2, <3>2, <3>3 DEF QuietMove
  <2> QED BY <2>1, <2>2
<1>4. Adds(t, u, Low \cup Waiting)
  <2>1. {"body", "req", "down", "again", "checked", "rel", "switch", "sched"} \subseteq Low \cup Waiting
    BY DEF Low, Waiting
  <2> QED BY <1>3, <2>1 DEF Adds
<1>5. Bound(t, u)
  <2>1. /\ "req" \in Asking /\ "req" \notin Waiting /\ "down" \in Asking /\ "blocked" \in Asking
        /\ "again" \in Asking /\ "again" \in Waiting
        /\ {"sched", "iret", "resumed", "body", "owned", "crit"} \cap Asking = {}
        /\ {"sched", "iret", "resumed", "body", "owned", "crit"} \cap Waiting = {}
    BY DEF Asking, Waiting
  <2> QED BY <1>3, <2>1 DEF Bound
<1>6. \A d \in w + 1 .. Len(u) : PcAt(u, d) \in Low \cup Waiting
  <2>1. "iret" \in Low \cup Waiting
    BY DEF Low
  <2> QED BY <1>1, <1>2, <1>4, <2>1, RangeStep
<1>7. Stuck(u, w) /\ WaitsAbove(u, w)'
  BY <1>1, <1>2, <1>5, StuckStep, WaitsStep
<1> QED BY <1>6, <1>7 DEF Other

(***************************************************************************)
(* The count of entries                                                    *)
(***************************************************************************)

LEMMA CountFinite ==
    ASSUME NEW s, Len(s) \in Nat, NEW b \in Nat
    PROVE  /\ IsFiniteSet(CountedAbove(s, b)) /\ Cardinality(CountedAbove(s, b)) \in Nat
           /\ CountedAbove(s, b) \subseteq b .. Len(s)
<1>1. IsFiniteSet(b .. Len(s)) /\ CountedAbove(s, b) \subseteq b .. Len(s)
  BY FS_Interval DEF CountedAbove
<1>2. IsFiniteSet(CountedAbove(s, b))
  BY <1>1, FS_Subset
<1> QED BY <1>1, <1>2, FS_CardinalityType

\* An entry is added at the top, or taken from it.
LEMMA CountAdd ==
    ASSUME NEW s, Len(s) \in Nat, NEW b \in Nat, NEW v, NEW n \in Nat,
           n \notin CountedAbove(s, b), CountedAbove(v, b) = CountedAbove(s, b) \cup {n}
    PROVE  Cardinality(CountedAbove(v, b)) = Cardinality(CountedAbove(s, b)) + 1
  BY CountFinite, FS_AddElement

LEMMA CountDrop ==
    ASSUME NEW s, Len(s) \in Nat, NEW b \in Nat, NEW v, NEW n \in Nat,
           n \in CountedAbove(s, b), CountedAbove(v, b) = CountedAbove(s, b) \ {n}
    PROVE  Cardinality(CountedAbove(v, b)) = Cardinality(CountedAbove(s, b)) - 1
  BY CountFinite, FS_RemoveElement

\* A single entry is the only one.
LEMMA CountSingle ==
    ASSUME NEW s, Len(s) \in Nat, NEW b \in Nat, NEW n \in CountedAbove(s, b),
           Cardinality(CountedAbove(s, b)) <= 1
    PROVE  CountedAbove(s, b) = {n}
<1> DEFINE C == CountedAbove(s, b)
<1>1. IsFiniteSet(C) /\ Cardinality(C) \in Nat
  BY CountFinite
<1>2. Cardinality(C \ {n}) = Cardinality(C) - 1 /\ IsFiniteSet(C \ {n})
  BY <1>1, FS_RemoveElement
<1>3. Cardinality(C \ {n}) \in Nat
  BY <1>2, FS_CardinalityType
<1>4. Cardinality(C \ {n}) = 0
  BY <1>1, <1>2, <1>3
<1>5. C \ {n} = {}
  BY <1>2, <1>4, FS_EmptySet
<1> QED BY <1>5

\* Frames that are not counted come and go above the holder's.
LEMMA HeldKeep ==
    ASSUME NEW t, NEW u, Len(t) \in Nat, NEW b \in 1 .. Len(t), HeldAt(t, b), CountAt(t, b),
           \/ \E f \in {"sched", "req"} : Over(t, u, f)
           \/ PcAt(t, Len(t)) \in {"sched", "iret", "switch"} /\ Pop(t, u)
           \/ PcAt(t, Len(t)) = "sched" /\ Two(t, u, "req", "switch"),
           UNCHANGED repeat
    PROVE  b \in 1 .. Len(u) /\ HeldAt(u, b) /\ CountAt(u, b)'
<1> DEFINE S == {"sched", "iret", "req", "switch"}
<1>1. S \cap Counted = {} /\ S \cap Owning = {} /\ S \subseteq OverHeld /\ "relown" \notin S
  BY DEF Counted, Owning, OverHeld
<1>2. Keeps(t, u, b)
  <2>1. PcAt(t, Len(t)) \in S => b < Len(t)
    BY <1>1 DEF HeldAt
  <2> QED BY <2>1 DEF Keeps
<1>3. /\ b <= Len(u) /\ Len(u) \in Nat /\ Under(t, u, b)
      /\ \A d \in b + 1 .. Len(u) : PcAt(u, d) \in OverHeld
  <2>1. Adds(t, u, OverHeld) /\ "iret" \in OverHeld
    BY <1>1 DEF Adds
  <2>2. \A d \in b + 1 .. Len(t) : PcAt(t, d) \in OverHeld
    BY DEF HeldAt
  <2> QED BY <1>2, <2>1, <2>2, RangeStep
<1>4. /\ \A d \in b .. Len(u) : PcAt(u, d) \in S \/ (d \in b .. Len(t) /\ PcAt(u, d) = PcAt(t, d))
      /\ \A d \in b .. Len(t) : PcAt(t, d) \in S \/ (d \in b .. Len(u) /\ PcAt(u, d) = PcAt(t, d))
  <2>1. CASE \E f \in {"sched", "req"} : Over(t, u, f)
    BY <1>3, <2>1 DEF Over, Under
  <2>2. CASE PcAt(t, Len(t)) \in {"sched", "iret", "switch"} /\ Pop(t, u)
    BY <1>3, <2>2 DEF Pop, Under
  <2>3. CASE PcAt(t, Len(t)) = "sched" /\ Two(t, u, "req", "switch")
    BY <1>3, <2>3 DEF Two, Under
  <2> QED BY <2>1, <2>2, <2>3
<1>5. CountedAbove(u, b) = CountedAbove(t, b)
  BY <1>1, <1>4 DEF CountedAbove
<1>6. CountAt(u, b)'
  BY <1>3, <1>5 DEF CountAt, Under
<1>7. ASSUME NEW d \in b .. Len(u), PcAt(u, d) = "relown", NEW e \in b .. d - 1
      PROVE  PcAt(u, e) \notin Counted
  <2>1. d \in b .. Len(t) /\ PcAt(t, d) = "relown" /\ e \in b .. Len(u)
    BY <1>1, <1>3, <1>4, <1>7
  <2>2. PcAt(t, e) \notin Counted
    BY <2>1 DEF HeldAt
  <2> QED BY <1>1, <1>4, <2>1, <2>2
<1>8. HeldAt(u, b)
  BY <1>3, <1>7 DEF HeldAt, Under
<1> QED BY <1>3, <1>6, <1>8

\* The top frame stays among the counted ones.
LEMMA HeldSwap ==
    ASSUME NEW t, NEW u, Len(t) \in Nat, NEW b \in 1 .. Len(t), HeldAt(t, b), CountAt(t, b),
           PcAt(t, Len(t)) \in Counted, NEW l \in Counted, Swap(t, u, l),
           l = "relown" => repeat = 1, UNCHANGED repeat
    PROVE  b \in 1 .. Len(u) /\ HeldAt(u, b) /\ CountAt(u, b)'
<1>1. Len(u) = Len(t) /\ PcAt(u, Len(t)) = l /\ \A d \in 1 .. Len(t) - 1 : PcAt(u, d) = PcAt(t, d)
  BY DEF Swap, Under
<1>2. Counted \subseteq Owning /\ Counted \subseteq OverHeld /\ "owned" \notin Counted
  BY DEF Counted, Owning, OverHeld
<1>3. CountedAbove(u, b) = CountedAbove(t, b)
  BY <1>1 DEF CountedAbove
<1>4. CountAt(u, b)'
  <2>1. PcAt(t, b) = "owned" => PcAt(u, b) = "owned"
    BY <1>1, <1>2
  <2> QED BY <1>3, <2>1 DEF CountAt
<1>5. ASSUME NEW d \in b .. Len(u), PcAt(u, d) = "relown", NEW e \in b .. d - 1
      PROVE  PcAt(u, e) \notin Counted
  <2>1. e \in 1 .. Len(t) - 1 /\ PcAt(u, e) = PcAt(t, e)
    BY <1>1
  <2>2. CASE d < Len(t)
    <3>1. PcAt(t, d) = "relown"
      BY <1>1, <1>5, <2>2
    <3> QED BY <1>1, <2>1, <3>1 DEF HeldAt
  <2>3. CASE d = Len(t)
    <3>1. repeat = 1
      BY <1>1, <1>5, <2>3
    <3>2. Len(t) \in CountedAbove(t, b) /\ Cardinality(CountedAbove(t, b)) <= 1
      BY <3>1 DEF CountedAbove, CountAt
    <3>3. CountedAbove(t, b) = {Len(t)}
      BY <3>2, CountSingle
    <3> QED BY <1>1, <2>1, <3>3 DEF CountedAbove
  <2> QED BY <1>1, <2>2, <2>3
<1>6. HeldAt(u, b)
  <2>1. PcAt(u, b) \in Owning
    BY <1>1, <1>2 DEF HeldAt
  <2>2. \A d \in b + 1 .. Len(u) : PcAt(u, d) \in OverHeld
    BY <1>1, <1>2 DEF HeldAt
  <2>3. \A d \in 1 .. b - 1 : PcAt(u, d) \in Low
    BY <1>1 DEF HeldAt
  <2> QED BY <1>5, <2>1, <2>2, <2>3 DEF HeldAt
<1> QED BY <1>1, <1>4, <1>6

\* The lowest frame of the holder goes on before it is counted, or begins
\* to be counted.
LEMMA HeldEnter ==
    ASSUME NEW t, NEW u, Len(t) \in Nat, Len(t) > 0, HeldAt(t, Len(t)), NEW l \in {"checked", "crit"},
           Swap(t, u, l), repeat' = IF l = "crit" THEN 1 ELSE 0
    PROVE  HeldAt(u, Len(t)) /\ CountAt(u, Len(t))' /\ Len(u) = Len(t)
<1>1. Len(u) = Len(t) /\ PcAt(u, Len(t)) = l /\ \A d \in 1 .. Len(t) - 1 : PcAt(u, d) = PcAt(t, d)
  BY DEF Swap, Under
<1>2. l \in Owning /\ l # "relown"
  BY DEF Owning
<1>3. HeldAt(u, Len(t))
  BY <1>1, <1>2 DEF HeldAt
<1>4. CASE l = "checked"
  <2>1. CountedAbove(u, Len(t)) = {}
    BY <1>1, <1>4 DEF CountedAbove, Counted
  <2>2. Cardinality(CountedAbove(u, Len(t))) = 0
    BY <2>1, FS_EmptySet
  <2> QED BY <1>1, <1>3, <1>4, <2>2 DEF CountAt
<1>5. CASE l = "crit"
  <2>1. CountedAbove(u, Len(t)) = {Len(t)}
    BY <1>1, <1>5 DEF CountedAbove, Counted
  <2>2. Cardinality(CountedAbove(u, Len(t))) = 1
    BY <2>1, FS_Singleton
  <2> QED BY <1>1, <1>3, <1>5, <2>2 DEF CountAt
<1> QED BY <1>4, <1>5

\* The frame at the top of a stack that holds the lock.
LEMMA HeldTop ==
    ASSUME NEW t, Len(t) \in Nat, NEW b \in 1 .. Len(t), HeldAt(t, b)
    PROVE  /\ PcAt(t, Len(t)) \in Owning \cup OverHeld
           /\ PcAt(t, Len(t)) \in {"owned", "checked"} => b = Len(t)
<1>1. PcAt(t, Len(t)) \in {"owned", "checked"} => PcAt(t, Len(t)) \notin OverHeld
  BY DEF OverHeld
<1> QED BY <1>1 DEF HeldAt

LEMMA QuietHeld ==
    ASSUME NEW t, NEW u, Len(t) \in Nat, Len(t) > 0, NEW w \in 0 .. Len(t),
           Held(t, w), QuietMove(t, u), UNCHANGED <<holder, repeat, value, waiters, current>>
    PROVE  Held(u, w)'
<1>1. PICK b \in w + 1 .. Len(t) : HeldAt(t, b) /\ CountAt(t, b)
  BY DEF Held
<1>2. b \in 1 .. Len(t)
  OBVIOUS
<1>3. /\ PcAt(t, Len(t)) \in Owning \cup OverHeld
      /\ PcAt(t, Len(t)) \in {"owned", "checked"} => b = Len(t)
  BY <1>1, <1>2, HeldTop
<1>4. \/ /\ PcAt(t, Len(t)) \in Counted
         /\ \E l \in Counted : Swap(t, u, l) /\ (l = "relown" => repeat = 1)
      \/ PcAt(t, Len(t)) = "owned" /\ repeat = 0 /\ Swap(t, u, "checked")
      \/ PcAt(t, Len(t)) \in {"sched", "iret", "switch"} /\ Pop(t, u)
      \/ PcAt(t, Len(t)) = "sched" /\ Two(t, u, "req", "switch")
      \/ \E f \in {"sched", "req"} : Over(t, u, f)
  <2>1. PcAt(t, Len(t)) \notin {"body", "blocked", "resumed"} /\ holder = current
    BY <1>3 DEF Owning, OverHeld, Held
  <2>2. {"crit", "rel", "relcnt", "relown"} \subseteq Counted
    BY DEF Counted
  <2> QED BY <2>1, <2>2 DEF QuietMove
<1>5. b \in 1 .. Len(u) /\ HeldAt(u, b) /\ CountAt(u, b)'
  <2>1. CASE /\ PcAt(t, Len(t)) \in Counted
             /\ \E l \in Counted : Swap(t, u, l) /\ (l = "relown" => repeat = 1)
    BY <1>1, <1>2, <2>1, HeldSwap
  <2>2. CASE PcAt(t, Len(t)) = "owned" /\ repeat = 0 /\ Swap(t, u, "checked")
    BY <1>1, <1>2, <1>3, <2>2, HeldEnter
  <2>3. CASE \/ PcAt(t, Len(t)) \in {"sched", "iret", "switch"} /\ Pop(t, u)
             \/ PcAt(t, Len(t)) = "sched" /\ Two(t, u, "req", "switch")
             \/ \E f \in {"sched", "req"} : Over(t, u, f)
    BY <1>1, <1>2, <2>3, HeldKeep
  <2> QED BY <1>4, <2>1, <2>2, <2>3
<1>6. Len(u) \in Nat
  BY <1>4 DEF Swap, Pop, Two, Over
<1>7. b \in w + 1 .. Len(u)
  BY <1>5, <1>6
<1> QED BY <1>5, <1>7 DEF Held

(***************************************************************************)
(* Steps of the lock functions                                             *)
(***************************************************************************)

\* The top frame has the semaphore.
LEMMA TokenTop ==
    ASSUME NEW t, Len(t) \in Nat, Len(t) > 0, NEW w \in 0 .. Len(t), Token(t, w)
    PROVE  /\ PcAt(t, Len(t)) \in Between \cup OverToken
           /\ PcAt(t, Len(t)) \in Between =>
                 TokenAt(t, Len(t)) /\ waiters = <<>> /\ w < Len(t)
           /\ PcAt(t, Len(t)) # "switch"
<1>1. PICK a \in w + 1 .. Len(t) : TokenAt(t, a) /\ Stuck(t, a) /\ WaitsAbove(t, a)
  BY DEF Token
<1>2. PcAt(t, Len(t)) \in Between \cup OverToken
  BY <1>1 DEF TokenAt
<1>3. ASSUME PcAt(t, Len(t)) \in Between PROVE a = Len(t)
  <2>1. PcAt(t, Len(t)) \notin OverToken
    BY <1>3 DEF Between, OverToken
  <2> QED BY <1>1, <2>1 DEF TokenAt
<1>4. PcAt(t, Len(t)) \in Between => TokenAt(t, Len(t)) /\ waiters = <<>> /\ w < Len(t)
  BY <1>1, <1>3 DEF WaitsAbove
<1>5. ASSUME PcAt(t, Len(t)) = "switch" PROVE FALSE
  <2>1. a # Len(t)
    BY <1>1, <1>5 DEF TokenAt, Between
  <2> QED BY <1>1, <1>5, <2>1 DEF Stuck
<1> QED BY <1>2, <1>4, <1>5

\* The top frame of a thread that runs while another one holds the lock.
LEMMA OtherTop ==
    ASSUME NEW t, Len(t) \in Nat, Len(t) > 0, NEW w \in 0 .. Len(t), Window(t, w), Other(t, w)
    PROVE  PcAt(t, Len(t)) \in Low \cup Waiting /\ PcAt(t, Len(t)) # "switch"
<1>1. CASE w = Len(t)
  BY <1>1 DEF Window, Low
<1>2. CASE w < Len(t)
  BY <1>2 DEF Other, Stuck
<1> QED BY <1>1, <1>2

\* A printk finds the semaphore taken.
LEMMA WaitJoins ==
    ASSUME NEW t, NEW u, Len(t) \in Nat, Len(t) > 0, NEW w \in 0 .. Len(t), current \in Proc,
           Window(t, w), Modes(t, w), PcAt(t, Len(t)) \in {"down", "again"}, value = 0,
           Two(t, u, "sched", "blocked"), ~Contains(waiters, current),
           waiters' = Append(waiters, current), UNCHANGED <<cpu, current, holder, value>>
    PROVE  Modes(u, w)'
<1>1. PcAt(t, Len(t)) \notin Between \cup Owning \cup OverHeld /\ PcAt(t, Len(t)) # "switch_to"
  BY DEF Between, Owning, OverHeld
<1>2. ASSUME NEW a \in 0 .. Len(t) - 1, WaitsAbove(t, a)
      PROVE  waiters' = <<current>>
  <2>1. waiters # <<current>>
    BY DEF Contains
  <2>2. waiters = <<>>
    BY <1>2, <2>1 DEF WaitsAbove
  <2> QED BY <2>2
<1>3. Bound(t, u) /\ \A a \in 0 .. Len(t) - 1 : Keeps(t, u, a)
  BY DEF Bound, Asking, Waiting, Keeps
<1>4. CASE Token(t, w)
  <2>1. PICK a \in w + 1 .. Len(t) : TokenAt(t, a) /\ Stuck(t, a) /\ WaitsAbove(t, a)
    BY <1>4 DEF Token
  <2>2. a \in 0 .. Len(t) - 1 /\ a > 0
    BY <1>1, <2>1 DEF TokenAt
  <2>3. Adds(t, u, OverToken) /\ "iret" \in OverToken
    BY DEF Adds, OverToken
  <2>4. a \in 0 .. Len(t) /\ Keeps(t, u, a)
    BY <1>3, <2>2
  <2>5. /\ a <= Len(u) /\ Len(u) \in Nat /\ Under(t, u, a)
        /\ \A d \in a + 1 .. Len(u) : PcAt(u, d) \in OverToken
    BY <2>1, <2>3, <2>4, RangeStep DEF TokenAt
  <2>6. TokenAt(u, a)
    BY <2>1, <2>2, <2>5 DEF TokenAt, Under
  <2>7. Stuck(u, a)
    BY <1>3, <2>1, <2>4, StuckStep
  <2>8. WaitsAbove(u, a)'
    BY <1>2, <2>1, <2>2, WaitsJoin
  <2>9. a \in w + 1 .. Len(u)
    BY <2>5
  <2> QED BY <1>4, <2>6, <2>7, <2>8, <2>9 DEF Modes, Token
<1>5. CASE Other(t, w)
  <2>1. w \in 0 .. Len(t) - 1
    BY <1>1 DEF Window
  <2>2. Keeps(t, u, w) /\ Stuck(t, w) /\ WaitsAbove(t, w)
    BY <1>3, <1>5, <2>1 DEF Other
  <2>3. Stuck(u, w)
    BY <1>3, <2>2, StuckStep
  <2>4. WaitsAbove(u, w)'
    BY <1>2, <2>1, <2>2, WaitsJoin
  <2>5. \A d \in w + 1 .. Len(u) : PcAt(u, d) \in Low \cup Waiting
    <3>1. Adds(t, u, Low \cup Waiting) /\ "iret" \in Low \cup Waiting
      BY DEF Adds, Low, Waiting
    <3>2. \A d \in w + 1 .. Len(t) : PcAt(t, d) \in Low \cup Waiting
      BY <1>5 DEF Other
    <3> QED BY <2>2, <3>1, <3>2, RangeStep
  <2> QED BY <1>5, <2>3, <2>4, <2>5 DEF Modes, Other
<1>6. CASE Held(t, w)
  <2>1. PICK b \in w + 1 .. Len(t) : HeldAt(t, b)
    BY <1>6 DEF Held
  <2> QED BY <1>1, <2>1, HeldTop
<1>7. CASE Free(t)
  BY <1>7 DEF Free
<1> QED BY <1>4, <1>5, <1>6, <1>7 DEF Modes

\* A printk takes the semaphore.
LEMMA WaitTakes ==
    ASSUME NEW t, NEW u, Len(t) \in Nat, Len(t) > 0, NEW w \in 0 .. Len(t),
           Window(t, w), Modes(t, w), PcAt(t, Len(t)) \in {"down", "again"}, value # 0,
           Swap(t, u, "gotsema"), value' = 0, UNCHANGED <<holder, waiters>>
    PROVE  Modes(u, w)'
<1>1. Free(t)
  BY DEF Modes, Token, Held, Other
<1>2. w < Len(t)
  BY DEF Window
<1>3. Len(u) = Len(t) /\ TokenAt(u, Len(t))
  BY <1>1 DEF Free, LowStack, Swap, Under, TokenAt, Between
<1>4. Stuck(u, Len(t)) /\ WaitsAbove(u, Len(t))'
  BY <1>1, <1>3 DEF Stuck, WaitsAbove, Free
<1>5. Len(t) \in w + 1 .. Len(u)
  BY <1>2, <1>3
<1> QED BY <1>1, <1>3, <1>4, <1>5 DEF Modes, Token, Free

\* lck->holder = current
LEMMA WaitOwns ==
    ASSUME NEW t, NEW u, Len(t) \in Nat, Len(t) > 0, NEW w \in 0 .. Len(t),
           Window(t, w), Modes(t, w), PcAt(t, Len(t)) = "gotsema", repeat \in Nat,
           Swap(t, u, "owned"), holder' = current, UNCHANGED <<current, repeat, value, waiters>>
    PROVE  Token(t, w) /\ Modes(u, w)'
<1>1. Token(t, w)
  <2>1. PcAt(t, Len(t)) \notin Low \cup Waiting \cup Owning \cup OverHeld
    BY DEF Low, Waiting, Owning, OverHeld
  <2>2. ~Free(t) /\ ~Other(t, w)
    BY <2>1, OtherTop DEF Free, LowStack
  <2>3. ~Held(t, w)
    BY <2>1, HeldTop DEF Held
  <2> QED BY <2>2, <2>3 DEF Modes
<1>2. TokenAt(t, Len(t)) /\ waiters = <<>> /\ w < Len(t)
  BY <1>1, TokenTop DEF Between
<1>3. Len(u) = Len(t) /\ PcAt(u, Len(t)) = "owned" /\ \A d \in 1 .. Len(t) - 1 : PcAt(u, d) = PcAt(t, d)
  BY DEF Swap, Under
<1>4. HeldAt(u, Len(t))
  BY <1>2, <1>3 DEF HeldAt, TokenAt, Owning
<1>5. CountAt(u, Len(t))'
  <2>1. CountedAbove(u, Len(t)) = {}
    BY <1>3 DEF CountedAbove, Counted
  <2>2. Cardinality(CountedAbove(u, Len(t))) = 0
    BY <2>1, FS_EmptySet
  <2> QED BY <1>3, <2>2 DEF CountAt
<1>6. Len(t) \in w + 1 .. Len(u)
  BY <1>2, <1>3
<1> QED BY <1>1, <1>2, <1>4, <1>5, <1>6 DEF Modes, Held, Token

\* The holder enters again.
LEMMA WaitReenters ==
    ASSUME NEW t, NEW u, Len(t) \in Nat, Len(t) > 0, NEW w \in 0 .. Len(t), current \in Proc,
           Modes(t, w), PcAt(t, Len(t)) = "req", holder = current, repeat \in Nat,
           Swap(t, u, "crit"), repeat' = repeat + 1, UNCHANGED <<current, holder, value, waiters>>
    PROVE  Modes(u, w)'
<1>1. Held(t, w)
  BY KernelAssumption DEF Modes, Free, Token, Other
<1>2. PICK b \in w + 1 .. Len(t) : HeldAt(t, b) /\ CountAt(t, b)
  BY <1>1 DEF Held
<1>3. b \in 1 .. Len(t) /\ b < Len(t)
  <2>1. "req" \notin Owning
    BY DEF Owning
  <2> QED BY <1>2, <2>1 DEF HeldAt
<1>4. Len(u) = Len(t) /\ PcAt(u, Len(t)) = "crit" /\ \A d \in 1 .. Len(t) - 1 : PcAt(u, d) = PcAt(t, d)
  BY DEF Swap, Under
<1>5. "crit" \in Counted /\ "crit" \in OverHeld /\ "req" \notin Counted
  BY DEF Counted, OverHeld
<1>6. Len(t) \notin CountedAbove(t, b) /\ CountedAbove(u, b) = CountedAbove(t, b) \cup {Len(t)}
  BY <1>3, <1>4, <1>5 DEF CountedAbove
<1>7. Cardinality(CountedAbove(u, b)) = Cardinality(CountedAbove(t, b)) + 1
  <2>1. b \in Nat
    BY <1>3
  <2> QED BY <1>6, <2>1, CountAdd, Zenon
<1>8. CountAt(u, b)'
  <2>1. PcAt(u, b) = PcAt(t, b) /\ Cardinality(CountedAbove(t, b)) \in Nat
    BY <1>3, <1>4, CountFinite
  <2> QED BY <1>2, <1>7, <2>1 DEF CountAt
<1>9. HeldAt(u, b)
  <2>1. ASSUME NEW d \in b .. Len(u), PcAt(u, d) = "relown", NEW e \in b .. d - 1
        PROVE  PcAt(u, e) \notin Counted
    <3>1. d \in b .. Len(t) - 1 /\ PcAt(t, d) = "relown" /\ PcAt(u, e) = PcAt(t, e)
      BY <1>3, <1>4, <2>1
    <3> QED BY <1>2, <3>1 DEF HeldAt
  <2>2. \A d \in b + 1 .. Len(u) : PcAt(u, d) \in OverHeld
    BY <1>2, <1>3, <1>4, <1>5 DEF HeldAt
  <2>3. PcAt(u, b) \in Owning /\ \A d \in 1 .. b - 1 : PcAt(u, d) \in Low
    BY <1>2, <1>3, <1>4 DEF HeldAt
  <2> QED BY <2>1, <2>2, <2>3 DEF HeldAt
<1>10. b \in w + 1 .. Len(u)
  BY <1>4
<1> QED BY <1>1, <1>8, <1>9, <1>10 DEF Modes, Held

\* lck->holder_repeat_times = 1
LEMMA WaitCounts ==
    ASSUME NEW t, NEW u, Len(t) \in Nat, Len(t) > 0, NEW w \in 0 .. Len(t), Window(t, w),
           Modes(t, w), PcAt(t, Len(t)) = "checked",
           Swap(t, u, "crit"), repeat' = 1, UNCHANGED <<cpu, current, holder, value, waiters>>
    PROVE  Modes(u, w)'
<1>1. CASE Free(t)
  <2>1. Adds(t, u, Low)
    BY DEF Adds, Low
  <2>2. LowStack(u)
    BY <1>1, <2>1, LowStep DEF Free
  <2> QED BY <1>1, <2>2 DEF Free, Modes
<1>2. CASE Token(t, w)
  <2>1. "checked" \notin Between \cup OverToken
    BY DEF Between, OverToken
  <2> QED BY <1>2, <2>1, TokenTop
<1>3. CASE Held(t, w)
  <2>1. PICK b \in w + 1 .. Len(t) : HeldAt(t, b)
    BY <1>3 DEF Held
  <2>2. b = Len(t)
    BY <2>1, HeldTop
  <2>3. HeldAt(u, Len(t)) /\ CountAt(u, Len(t))' /\ Len(u) = Len(t)
    BY <2>1, <2>2, HeldEnter
  <2> QED BY <1>3, <2>1, <2>2, <2>3 DEF Held, Modes
<1>4. CASE Other(t, w)
  <2>1. w < Len(t)
    BY DEF Window
  <2>2. /\ \A d \in w + 1 .. Len(t) : PcAt(t, d) \in Low \cup Waiting
        /\ Stuck(t, w) /\ WaitsAbove(t, w)
    BY <1>4 DEF Other
  <2>3. Adds(t, u, Low \cup Waiting) /\ Bound(t, u) /\ Keeps(t, u, w) /\ "iret" \in Low \cup Waiting
    BY <2>1 DEF Adds, Bound, Keeps, Low, Asking, Waiting
  <2>4. \A d \in w + 1 .. Len(u) : PcAt(u, d) \in Low \cup Waiting
    BY <2>2, <2>3, RangeStep
  <2>5. Stuck(u, w) /\ WaitsAbove(u, w)'
    BY <2>2, <2>3, StuckStep, WaitsStep
  <2> QED BY <1>4, <2>4, <2>5 DEF Other, Modes
<1> QED BY <1>1, <1>2, <1>3, <1>4 DEF Modes

\* A place that only the holder's frames can be at.
LEMMA OnlyHeld ==
    ASSUME NEW t, Len(t) \in Nat, Len(t) > 0, NEW w \in 0 .. Len(t), Window(t, w),
           Modes(t, w), PcAt(t, Len(t)) \in {"relcnt", "relown"}
    PROVE  Held(t, w)
<1>1. PcAt(t, Len(t)) \notin Low \cup Waiting \cup Between \cup OverToken
  BY DEF Low, Waiting, Between, OverToken
<1>2. ~Free(t) /\ ~Other(t, w) /\ ~Token(t, w)
  BY <1>1, OtherTop, TokenTop DEF Free, LowStack
<1> QED BY <1>2 DEF Modes

\* A nested lock_release.
LEMMA WaitLeaves ==
    ASSUME NEW t, NEW u, Len(t) \in Nat, Len(t) > 0, NEW w \in 0 .. Len(t), Window(t, w),
           Modes(t, w), PcAt(t, Len(t)) = "relcnt", repeat \in Nat, repeat > 1,
           Pop(t, u), repeat' = repeat - 1, UNCHANGED <<current, holder, value, waiters>>
    PROVE  Modes(u, w)'
<1>1. Held(t, w)
  BY OnlyHeld
<1>2. PICK b \in w + 1 .. Len(t) : HeldAt(t, b) /\ CountAt(t, b)
  BY <1>1 DEF Held
<1>3. b \in 1 .. Len(t) /\ Len(t) \in CountedAbove(t, b)
  BY DEF CountedAbove, Counted
<1>4. b < Len(t)
  <2> SUFFICES ASSUME b = Len(t) PROVE FALSE
    BY <1>3
  <2>1. CountedAbove(t, b) = {Len(t)}
    BY <1>3 DEF CountedAbove
  <2>2. Cardinality(CountedAbove(t, b)) = 1
    BY <2>1, FS_Singleton
  <2> QED BY <1>2, <2>2 DEF CountAt
<1>5. Len(u) = Len(t) - 1 /\ \A d \in 1 .. Len(t) - 1 : PcAt(u, d) = PcAt(t, d)
  BY DEF Pop, Under
<1>6. CountedAbove(u, b) = CountedAbove(t, b) \ {Len(t)}
  BY <1>3, <1>5 DEF CountedAbove
<1>7. Cardinality(CountedAbove(u, b)) = Cardinality(CountedAbove(t, b)) - 1
  <2>1. b \in Nat
    BY <1>3
  <2> QED BY <1>3, <1>6, <2>1, CountDrop, Zenon
<1>8. CountAt(u, b)'
  <2>1. PcAt(u, b) = PcAt(t, b) /\ Cardinality(CountedAbove(t, b)) \in Nat
    BY <1>3, <1>4, <1>5, CountFinite
  <2> QED BY <1>2, <1>7, <2>1 DEF CountAt
<1>9. HeldAt(u, b)
  BY <1>2, <1>3, <1>4, <1>5 DEF HeldAt
<1>10. b \in w + 1 .. Len(u)
  BY <1>4, <1>5
<1> QED BY <1>1, <1>8, <1>9, <1>10 DEF Modes, Held

\* lck->holder = NULL
LEMMA WaitClears ==
    ASSUME NEW t, NEW u, Len(t) \in Nat, Len(t) > 0, NEW w \in 0 .. Len(t), Window(t, w),
           Modes(t, w), PcAt(t, Len(t)) = "relown",
           Swap(t, u, "relrep"), holder' = NULL, UNCHANGED <<current, value, waiters>>
    PROVE  Held(t, w) /\ Modes(u, w)'
<1>1. Held(t, w)
  BY OnlyHeld
<1>2. PICK b \in w + 1 .. Len(t) : HeldAt(t, b)
  BY <1>1 DEF Held
<1>3. Len(u) = Len(t) /\ PcAt(u, Len(t)) = "relrep" /\ \A d \in 1 .. Len(t) - 1 : PcAt(u, d) = PcAt(t, d)
  BY DEF Swap, Under
<1>4. ASSUME NEW d \in 1 .. Len(t) - 1 PROVE PcAt(t, d) \in Low
  <2>1. CASE d < b
    BY <1>2, <2>1 DEF HeldAt
  <2>2. CASE d >= b
    <3>1. PcAt(t, d) \notin Counted
      BY <1>2, <2>2 DEF HeldAt
    <3>2. PcAt(t, d) \in Owning \cup OverHeld
      BY <1>2, <2>2 DEF HeldAt
    <3> QED BY <3>1, <3>2 DEF Owning, OverHeld, Counted, Low
  <2> QED BY <2>1, <2>2
<1>5. TokenAt(u, Len(t))
  BY <1>3, <1>4 DEF TokenAt, Between
<1>6. Stuck(u, Len(t)) /\ WaitsAbove(u, Len(t))'
  BY <1>1, <1>3 DEF Stuck, WaitsAbove, Held
<1>7. Len(t) \in w + 1 .. Len(u)
  BY <1>2, <1>3
<1> QED BY <1>1, <1>5, <1>6, <1>7 DEF Modes, Token, Held

\* A place that only a frame with the semaphore can be at.
LEMMA OnlyToken ==
    ASSUME NEW t, Len(t) \in Nat, Len(t) > 0, NEW w \in 0 .. Len(t), Window(t, w),
           Modes(t, w), PcAt(t, Len(t)) \in {"relrep", "up"}
    PROVE  Token(t, w) /\ TokenAt(t, Len(t)) /\ waiters = <<>> /\ w < Len(t)
<1>1. PcAt(t, Len(t)) \notin Low \cup Waiting \cup Owning \cup OverHeld
  BY DEF Low, Waiting, Owning, OverHeld
<1>2. ~Free(t) /\ ~Other(t, w)
  BY <1>1, OtherTop DEF Free, LowStack
<1>3. ~Held(t, w)
  BY <1>1, HeldTop DEF Held
<1>4. Token(t, w)
  BY <1>2, <1>3 DEF Modes
<1> QED BY <1>4, TokenTop DEF Between

\* lck->holder_repeat_times = 0
LEMMA WaitResets ==
    ASSUME NEW t, NEW u, Len(t) \in Nat, Len(t) > 0, NEW w \in 0 .. Len(t), Window(t, w),
           Modes(t, w), PcAt(t, Len(t)) = "relrep",
           Swap(t, u, "up"), UNCHANGED <<current, holder, value, waiters>>
    PROVE  Modes(u, w)'
<1>1. Token(t, w) /\ TokenAt(t, Len(t)) /\ waiters = <<>> /\ w < Len(t)
  BY OnlyToken
<1>2. Len(u) = Len(t) /\ PcAt(u, Len(t)) = "up" /\ \A d \in 1 .. Len(t) - 1 : PcAt(u, d) = PcAt(t, d)
  BY DEF Swap, Under
<1>3. TokenAt(u, Len(t))
  BY <1>1, <1>2 DEF TokenAt, Between
<1>4. Stuck(u, Len(t)) /\ WaitsAbove(u, Len(t))'
  BY <1>1, <1>2 DEF Stuck, WaitsAbove
<1>5. Len(t) \in w + 1 .. Len(u)
  BY <1>1, <1>2
<1> QED BY <1>1, <1>3, <1>4, <1>5 DEF Modes, Token

\* sema_up with nobody to wake.
LEMMA WaitUps ==
    ASSUME NEW t, NEW u, Len(t) \in Nat, Len(t) > 0, NEW w \in 0 .. Len(t), Window(t, w),
           Modes(t, w), PcAt(t, Len(t)) = "up",
           Pop(t, u), value' = 1, UNCHANGED <<current, holder, waiters>>
    PROVE  Modes(u, w)'
<1>1. Token(t, w) /\ TokenAt(t, Len(t)) /\ waiters = <<>>
  BY OnlyToken
<1>2. LowStack(u)
  BY <1>1 DEF TokenAt, LowStack, Pop, Under
<1> QED BY <1>1, <1>2 DEF Modes, Free, Token

(***************************************************************************)
(* The invariant                                                           *)
(***************************************************************************)

\* Threads at the start of their functions.
LEMMA BodiesLow ==
    ASSUME stk = [p \in Proc |-> <<At("body")>>], cpu \in Proc
    PROVE  /\ \A p \in Proc : LowStack(stk[p])
           /\ Window(stk[cpu], 0) /\ 0 \in 0 .. Len(stk[cpu])
<1>1. At("body") \in Frames /\ At("body").pc = "body"
  BY AtType DEF PCs
<1>2. ASSUME NEW p \in Proc PROVE Len(stk[p]) = 1 /\ PcAt(stk[p], 1) = "body"
  <2>1. stk[p] = <<At("body")>>
    OBVIOUS
  <2> QED BY <1>1, <2>1 DEF PcAt
<1>3. ASSUME NEW p \in Proc PROVE LowStack(stk[p])
  <2>1. \A d \in 1 .. 1 : d = 1
    OBVIOUS
  <2>2. "body" \in Low
    BY DEF Low
  <2> QED BY <1>2, <2>1, <2>2 DEF LowStack
<1>4. Window(stk[cpu], 0) /\ 0 \in 0 .. Len(stk[cpu])
  BY <1>2 DEF Window
<1> QED BY <1>3, <1>4

LEMMA InitWaitInv == Init => WaitInv
<1> SUFFICES ASSUME Init PROVE WaitState
  BY DEF WaitInv
<1>1. stk = [p \in Proc |-> <<At("body")>>] /\ cpu = Idle /\ lock_init
  BY DEF Init
<1>2. cpu \in Proc
  BY <1>1 DEF Proc
<1>3. /\ \A p \in Proc : LowStack(stk[p])
      /\ Window(stk[cpu], 0) /\ 0 \in 0 .. Len(stk[cpu])
  BY <1>1, <1>2, BodiesLow
<1>4. Sleeping
  BY <1>3 DEF Sleeping
<1>5. Free(stk[cpu])
  BY <1>1, <1>2, <1>3 DEF Free, lock_init
<1> QED BY <1>3, <1>4, <1>5 DEF WaitState, Modes

LEMMA BaseFacts ==
    ASSUME Base
    PROVE  /\ cpu \in Proc /\ current \in Proc /\ StackOK /\ TypeOK
           /\ stk \in [Proc -> Seq(Frames)]
           /\ \A p \in Proc : stk[p] \in Seq(Frames) /\ stk[p] # <<>>
<1>1. cpu \in Proc /\ current \in Proc /\ StackOK /\ TypeOK /\ stk \in [Proc -> Seq(Frames)]
  BY TypeParts DEF Base, RestOK, StackOK
<1>2. ASSUME NEW p \in Proc PROVE stk[p] \in Seq(Frames) /\ stk[p] # <<>>
  BY <1>1 DEF StackOK
<1> QED BY <1>1, <1>2

\* What a step does to the stack of the CPU.
LEMMA StackShapes ==
    ASSUME StackOK, cpu \in Proc
    PROVE  /\ Len(stk[cpu]) \in Nat /\ Len(stk[cpu]) > 0 /\ PcAt(stk[cpu], Len(stk[cpu])) = pc
           /\ \A l \in PCs : Goto(l) => Swap(stk[cpu], stk'[cpu], l)
           /\ Return => Pop(stk[cpu], stk'[cpu])
           /\ \A f, l \in PCs : Call(f, l) => Two(stk[cpu], stk'[cpu], f, l)
           /\ \A s : Become(s) => \A p \in Proc \ {cpu} : stk'[p] = stk[p]
<1>1. cpu \in Proc /\ stk[cpu] \in Seq(Frames) /\ stk[cpu] # <<>>
  BY DEF StackOK
<1>0. ASSUME NEW s, Become(s)
      PROVE  stk'[cpu] = s \o Tail(stk[cpu]) /\ \A p \in Proc \ {cpu} : stk'[p] = stk[p]
  <2>1. stk \in [Proc -> Seq(Frames)]
    BY DEF StackOK
  <2> QED BY <1>0, <2>1, Zenon DEF Become
<1>2. Len(stk[cpu]) \in Nat /\ Len(stk[cpu]) > 0 /\ PcAt(stk[cpu], Len(stk[cpu])) = pc
  BY <1>1, ShapeTop DEF pc
<1>3. ASSUME NEW l \in PCs, Goto(l) PROVE Swap(stk[cpu], stk'[cpu], l)
  <2>1. At(l) \in Frames /\ At(l).pc = l
    BY AtType
  <2>2. stk'[cpu] = <<At(l)>> \o Tail(stk[cpu])
    BY <1>3, <1>0 DEF Goto
  <2>3. Swap(stk[cpu], <<At(l)>> \o Tail(stk[cpu]), At(l).pc)
    BY <1>1, <2>1, ShapeSwap
  <2> QED BY <2>1, <2>2, <2>3
<1>4. ASSUME Return PROVE Pop(stk[cpu], stk'[cpu])
  <2>1. stk'[cpu] = <<>> \o Tail(stk[cpu])
    BY <1>4, <1>0 DEF Return
  <2>2. Pop(stk[cpu], <<>> \o Tail(stk[cpu]))
    BY <1>1, ShapePop
  <2> QED BY <2>1, <2>2
<1>5. ASSUME NEW f \in PCs, NEW l \in PCs, Call(f, l) PROVE Two(stk[cpu], stk'[cpu], f, l)
  <2>1. At(l) \in Frames /\ At(l).pc = l /\ At(f) \in Frames /\ At(f).pc = f
    BY AtType
  <2>2. stk'[cpu] = <<At(f), At(l)>> \o Tail(stk[cpu])
    BY <1>5, <1>0 DEF Call
  <2>3. Two(stk[cpu], <<At(f), At(l)>> \o Tail(stk[cpu]), At(f).pc, At(l).pc)
    BY <1>1, <2>1, ShapeTwo
  <2> QED BY <2>1, <2>2, <2>3
<1>6. ASSUME NEW s, Become(s) PROVE \A p \in Proc \ {cpu} : stk'[p] = stk[p]
  BY <1>6, <1>0
<1> QED BY <1>2, <1>3, <1>4, <1>5, <1>6

LEMMA BecomeShapes ==
    ASSUME Base
    PROVE  /\ Len(stk[cpu]) \in Nat /\ Len(stk[cpu]) > 0 /\ PcAt(stk[cpu], Len(stk[cpu])) = pc
           /\ \A l \in PCs : Goto(l) => Swap(stk[cpu], stk'[cpu], l)
           /\ Return => Pop(stk[cpu], stk'[cpu])
           /\ \A f, l \in PCs : Call(f, l) => Two(stk[cpu], stk'[cpu], f, l)
           /\ \A s : Become(s) => \A p \in Proc \ {cpu} : stk'[p] = stk[p]
<1>1. StackOK /\ cpu \in Proc
  BY BaseFacts
<1> QED BY <1>1, StackShapes

\* A step of the running thread keeps the invariant when it keeps the modes.
LEMMA WaitStep ==
    ASSUME cpu \in Proc, UNCHANGED <<cpu, current>>, \A p \in Proc \ {cpu} : stk'[p] = stk[p],
           Sleeping, holder' = holder \/ holder \in {NULL, current}, NULL \notin Proc,
           NEW u, u = stk'[cpu], NEW w \in 0 .. Len(u), Window(u, w), Modes(u, w)'
    PROVE  WaitState'
<1>1. Sleeping'
  BY DEF Sleeping
<1>2. u = stk'[cpu']
  OBVIOUS
<1> QED BY <1>1, <1>2, Zenon DEF WaitState, Modes, Free, Token, Held, Other, WaitsAbove, CountAt

LEMMA QuietWait ==
    ASSUME Base, WaitState, QuietMove(stk[cpu], stk'[cpu]),
           UNCHANGED <<cpu, current, holder, repeat, value, waiters>>,
           \A p \in Proc \ {cpu} : stk'[p] = stk[p]
    PROVE  WaitState'
<1>1. PICK t, u : t = stk[cpu] /\ u = stk'[cpu]
  OBVIOUS
<1>2. Len(t) \in Nat /\ Len(t) > 0 /\ current \in Proc /\ cpu \in Proc /\ NULL \notin Proc
  BY <1>1, BecomeShapes, BaseFacts, KernelAssumption
<1>3. PICK w \in 0 .. Len(t) : Window(t, w) /\ Modes(t, w)
  BY <1>1 DEF WaitState
<1>4. w \in 0 .. Len(u) /\ Window(u, w)
  BY <1>1, <1>2, <1>3, QuietWindow
<1>5. Modes(u, w)'
  <2>1. QuietMove(t, u)
    BY <1>1
  <2>2. Free(t) => Free(u)'
    BY <1>2, <2>1, QuietFree
  <2>3. Token(t, w) => Token(u, w)'
    BY <1>2, <2>1, QuietToken
  <2>4. Held(t, w) => Held(u, w)'
    BY <1>2, <2>1, QuietHeld
  <2>5. Other(t, w) => Other(u, w)'
    BY <1>2, <1>3, <2>1, QuietOther
  <2> QED BY <1>3, <2>2, <2>3, <2>4, <2>5 DEF Modes
<1> QED BY <1>1, <1>2, <1>4, <1>5, WaitStep DEF WaitState

\* Thread functions, handlers, schedule() and the tests of the lock.
LEMMA OutsideWait ==
    ASSUME Base, WaitState, failed' = {},
           \/ printk \/ thread_block_end \/ console_done \/ check_repeat \/ check_holder
           \/ iret \/ switch_end
    PROVE  WaitState'
<1>1. UNCHANGED <<cpu, current, holder, repeat, value, waiters>>
  BY Zenon DEF printk, thread_block_end, console_done, check_repeat, check_holder, iret,
     switch_end, threadVars, lockVars
<1>2. ~ \E msg : Fail(msg)
  BY DEF Fail
<1>3. \/ pc = "body" /\ Call("req", "body")
      \/ pc = "blocked" /\ Goto("again")
      \/ pc = "owned" /\ repeat = 0 /\ Goto("checked")
      \/ pc = "crit" /\ Goto("rel")
      \/ pc = "rel" /\ holder = current /\ Goto("relcnt")
      \/ pc \in {"iret", "resumed"} /\ Return
  BY <1>2, Zenon DEF printk, thread_block_end, console_done, check_repeat, check_holder, iret,
     switch_end, Ok
<1>4. {"req", "body", "again", "checked", "rel", "relcnt"} \subseteq PCs
  BY DEF PCs
<1>5. QuietMove(stk[cpu], stk'[cpu])
  BY <1>3, <1>4, BecomeShapes DEF QuietMove
<1>6. \A p \in Proc \ {cpu} : stk'[p] = stk[p]
  BY <1>3, BecomeShapes DEF Call, Goto, Return
<1> QED BY <1>1, <1>5, <1>6, QuietWait

LEMMA ScheduleWait ==
    ASSUME Base, WaitState, schedule
    PROVE  WaitState'
<1>1. pc = "sched" /\ UNCHANGED <<cpu, current, holder, repeat, value, waiters>>
  BY Zenon DEF schedule, lockVars
<1>2. \/ Return
      \/ ready # <<>> /\ Become(<<At("req"), Frame("switch", Head(ready))>>)
  BY Zenon DEF schedule
<1>3. CASE Return
  <2>1. QuietMove(stk[cpu], stk'[cpu])
    BY <1>1, <1>3, BecomeShapes DEF QuietMove
  <2>2. \A p \in Proc \ {cpu} : stk'[p] = stk[p]
    BY <1>3, BecomeShapes DEF Return
  <2> QED BY <1>1, <2>1, <2>2, QuietWait
<1>4. CASE ready # <<>> /\ Become(<<At("req"), Frame("switch", Head(ready))>>)
  <2>1. Head(ready) \in Proc /\ cpu \in Proc /\ stk[cpu] \in Seq(Frames) /\ stk[cpu] # <<>>
    <3>1. ready \in Seq(Proc)
      BY DEF Base, TypeOK
    <3> QED BY <1>4, <3>1, BaseFacts
  <2>2. PICK f, g \in Frames : /\ f = At("req") /\ f.pc = "req"
                               /\ g = Frame("switch", Head(ready)) /\ g.pc = "switch"
    <3>1. "req" \in PCs /\ "switch" \in PCs
      BY DEF PCs
    <3>2. At("req") \in Frames /\ At("req").pc = "req"
      BY <3>1, AtType
    <3>3. Frame("switch", Head(ready)) \in Frames /\ Frame("switch", Head(ready)).pc = "switch"
      BY <2>1, <3>1, FrameType
    <3> QED BY <3>2, <3>3, Zenon
  <2>3. /\ stk'[cpu] = <<f, g>> \o Tail(stk[cpu])
        /\ \A p \in Proc \ {cpu} : stk'[p] = stk[p]
    BY <1>4, <2>2, BaseFacts, NewStack
  <2>4. Two(stk[cpu], stk'[cpu], "req", "switch")
    BY <2>1, <2>2, <2>3, ShapeTwo
  <2>5. QuietMove(stk[cpu], stk'[cpu])
    BY <1>1, <2>4, BecomeShapes DEF QuietMove
  <2> QED BY <1>1, <2>3, <2>5, QuietWait
<1> QED BY <1>2, <1>3, <1>4

LEMMA InterruptWait ==
    ASSUME Base, WaitState, timer_callback \/ printing_interrupt
    PROVE  WaitState'
<1>1. UNCHANGED <<cpu, current, holder, repeat, value, waiters>>
  BY Zenon DEF timer_callback, printing_interrupt, threadVars, lockVars
<1>2. PICK l \in {"sched", "req"} : Interrupt(l)
  BY Zenon DEF timer_callback, printing_interrupt
<1>3. stk' = [stk EXCEPT ![cpu] = <<At(l), At("iret")>> \o stk[cpu]]
  BY <1>2 DEF Interrupt
<1>4. cpu \in Proc /\ stk \in [Proc -> Seq(Frames)] /\ stk[cpu] \in Seq(Frames)
  BY BaseFacts
<1>5. /\ stk'[cpu] = <<At(l), At("iret")>> \o stk[cpu]
      /\ \A p \in Proc \ {cpu} : stk'[p] = stk[p]
  BY <1>3, <1>4
<1>6. Over(stk[cpu], stk'[cpu], l)
  <2>1. l \in PCs
    BY DEF PCs
  <2> QED BY <1>4, <1>5, <2>1, ShapeOver
<1>7. QuietMove(stk[cpu], stk'[cpu])
  BY <1>6 DEF QuietMove
<1> QED BY <1>1, <1>5, <1>7, QuietWait

\* What the lock functions share: the stacks before and after, and the modes.
LEMMA WaitFrame ==
    ASSUME Base, WaitState
    PROVE  \E t, u : \E w \in 0 .. Len(t) :
               /\ t = stk[cpu] /\ u = stk'[cpu]
               /\ Len(t) \in Nat /\ Len(t) > 0 /\ PcAt(t, Len(t)) = pc
               /\ \A l \in PCs : Goto(l) => Swap(t, u, l)
               /\ Return => Pop(t, u)
               /\ \A f, l \in PCs : Call(f, l) => Two(t, u, f, l)
               /\ Window(t, w) /\ Modes(t, w)
<1>1. PICK t, u : t = stk[cpu] /\ u = stk'[cpu]
  OBVIOUS
<1>2. PICK w \in 0 .. Len(t) : Window(t, w) /\ Modes(t, w)
  BY <1>1 DEF WaitState
<1> QED BY <1>1, <1>2, BecomeShapes

\* The window is kept by the lock functions.
LEMMA LockWindow ==
    ASSUME NEW t, NEW u, Len(t) \in Nat, Len(t) > 0, NEW w \in 0 .. Len(t), Window(t, w),
           PcAt(t, Len(t)) # "switch_to",
           \/ \E l \in LockPCs : Swap(t, u, l)
           \/ Pop(t, u)
           \/ Two(t, u, "sched", "blocked")
    PROVE  w \in 0 .. Len(u) /\ Window(u, w)
<1>1. "switch_to" \notin LockPCs
  BY DEF LockPCs
<1> QED BY <1>1, WindowStep

LEMMA AcquireWait ==
    ASSUME Base, WaitState, failed' = {}, req_lock \/ sema_down \/ set_holder \/ set_repeat
    PROVE  WaitState'
<1>1. PICK t, u : \E w \in 0 .. Len(t) :
               /\ t = stk[cpu] /\ u = stk'[cpu]
               /\ Len(t) \in Nat /\ Len(t) > 0 /\ PcAt(t, Len(t)) = pc
               /\ \A l \in PCs : Goto(l) => Swap(t, u, l)
               /\ Return => Pop(t, u)
               /\ \A f, l \in PCs : Call(f, l) => Two(t, u, f, l)
               /\ Window(t, w) /\ Modes(t, w)
  BY WaitFrame
<1>2. PICK w \in 0 .. Len(t) : Window(t, w) /\ Modes(t, w)
  BY <1>1
<1>3. /\ cpu \in Proc /\ current \in Proc /\ NULL \notin Proc /\ repeat \in Nat
      /\ value \in 0 .. 255 /\ waiters \in Seq(Proc) /\ Sleeping
  BY KernelAssumption DEF Base, TypeOK, WaitState
<1>4. ~ \E msg : Fail(msg)
  BY DEF Fail
<1>5. /\ {"down", "crit", "sched", "blocked", "gotsema", "owned"} \subseteq PCs
      /\ {"down", "crit", "gotsema", "owned"} \subseteq LockPCs
  BY DEF PCs, LockPCs
<1>6. UNCHANGED <<cpu, current>>
  BY Zenon DEF req_lock, sema_down, set_holder, set_repeat, threadVars
<1>7. CASE req_lock
  <2>1. pc = "req" /\ UNCHANGED <<holder, value, waiters>>
    BY <1>7, Zenon DEF req_lock
  <2>2. CASE holder # current
    <3>1. Goto("down") /\ UNCHANGED repeat
      BY <1>7, <2>2, Zenon DEF req_lock
    <3>2. QuietMove(stk[cpu], stk'[cpu])
      BY <1>1, <1>5, <2>1, <2>2, <3>1 DEF QuietMove
    <3>3. \A p \in Proc \ {cpu} : stk'[p] = stk[p]
      BY <3>1, BecomeShapes DEF Goto
    <3> QED BY <1>6, <2>1, <3>1, <3>2, <3>3, QuietWait
  <2>3. CASE holder = current
    <3>1. Goto("crit") /\ repeat' = repeat + 1
      BY <1>7, <2>3, Zenon DEF req_lock
    <3>2. \A p \in Proc \ {cpu} : stk'[p] = stk[p]
      BY <3>1, BecomeShapes DEF Goto
    <3>3. Swap(t, u, "crit") /\ PcAt(t, Len(t)) = "req"
      BY <1>1, <1>5, <2>1, <3>1
    <3>4. w \in 0 .. Len(u) /\ Window(u, w)
      BY <1>1, <1>2, <1>5, <3>3, LockWindow
    <3>5. Modes(u, w)'
      BY <1>1, <1>2, <1>3, <1>6, <2>1, <2>3, <3>1, <3>3, WaitReenters
    <3> QED BY <1>1, <1>3, <1>6, <2>1, <3>2, <3>4, <3>5, WaitStep
  <2> QED BY <2>2, <2>3
<1>8. CASE sema_down
  <2>1. pc \in {"down", "again"} /\ UNCHANGED <<holder, repeat>>
    BY <1>8, Zenon DEF sema_down
  <2>2. CASE value = 0
    <3>1. /\ ~Contains(waiters, current) /\ waiters' = Append(waiters, current)
          /\ Call("sched", "blocked") /\ UNCHANGED value
      BY <1>4, <1>8, <2>2, Zenon DEF sema_down, Ok
    <3>2. \A p \in Proc \ {cpu} : stk'[p] = stk[p]
      BY <3>1, BecomeShapes DEF Call
    <3>3. Two(t, u, "sched", "blocked") /\ PcAt(t, Len(t)) \in {"down", "again"}
      BY <1>1, <1>5, <2>1, <3>1
    <3>4. w \in 0 .. Len(u) /\ Window(u, w)
      BY <1>1, <1>2, <3>3, LockWindow
    <3>5. Modes(u, w)'
      BY <1>1, <1>2, <1>3, <1>6, <2>1, <2>2, <3>1, <3>3, WaitJoins
    <3> QED BY <1>1, <1>3, <1>6, <2>1, <3>2, <3>4, <3>5, WaitStep
  <2>3. CASE value # 0
    <3>1. Goto("gotsema") /\ value' = 0 /\ UNCHANGED waiters
      BY <1>4, <1>8, <2>3, Zenon DEF sema_down, Ok
    <3>2. \A p \in Proc \ {cpu} : stk'[p] = stk[p]
      BY <3>1, BecomeShapes DEF Goto
    <3>3. Swap(t, u, "gotsema") /\ PcAt(t, Len(t)) \in {"down", "again"}
      BY <1>1, <1>5, <2>1, <3>1
    <3>4. w \in 0 .. Len(u) /\ Window(u, w)
      BY <1>1, <1>2, <1>5, <3>3, LockWindow
    <3>5. Modes(u, w)'
      BY <1>1, <1>2, <2>1, <2>3, <3>1, <3>3, WaitTakes
    <3> QED BY <1>1, <1>3, <1>6, <2>1, <3>2, <3>4, <3>5, WaitStep
  <2> QED BY <2>2, <2>3
<1>9. CASE set_holder
  <2>1. /\ pc = "gotsema" /\ Goto("owned") /\ holder' = current
        /\ UNCHANGED <<repeat, value, waiters>>
    BY <1>9, Zenon DEF set_holder
  <2>2. \A p \in Proc \ {cpu} : stk'[p] = stk[p]
    BY <2>1, BecomeShapes DEF Goto
  <2>3. Swap(t, u, "owned") /\ PcAt(t, Len(t)) = "gotsema"
    BY <1>1, <1>5, <2>1
  <2>4. w \in 0 .. Len(u) /\ Window(u, w)
    BY <1>1, <1>2, <1>5, <2>3, LockWindow
  <2>5. Token(t, w) /\ Modes(u, w)'
    BY <1>1, <1>2, <1>3, <1>6, <2>1, <2>3, WaitOwns
  <2>6. holder = NULL
    BY <2>5 DEF Token
  <2> QED BY <1>1, <1>3, <1>6, <2>2, <2>4, <2>5, <2>6, WaitStep
<1>10. CASE set_repeat
  <2>1. /\ pc = "checked" /\ Goto("crit") /\ repeat' = 1
        /\ UNCHANGED <<holder, value, waiters>>
    BY <1>10, Zenon DEF set_repeat
  <2>2. \A p \in Proc \ {cpu} : stk'[p] = stk[p]
    BY <2>1, BecomeShapes DEF Goto
  <2>3. Swap(t, u, "crit") /\ PcAt(t, Len(t)) = "checked"
    BY <1>1, <1>5, <2>1
  <2>4. w \in 0 .. Len(u) /\ Window(u, w)
    BY <1>1, <1>2, <1>5, <2>3, LockWindow
  <2>5. Modes(u, w)'
    BY <1>1, <1>2, <1>6, <2>1, <2>3, WaitCounts
  <2> QED BY <1>1, <1>3, <1>6, <2>1, <2>2, <2>4, <2>5, WaitStep
<1> QED BY <1>7, <1>8, <1>9, <1>10

LEMMA ReleaseWait ==
    ASSUME Base, WaitState, failed' = {},
           release_repeat \/ clear_holder \/ clear_repeat \/ sema_up
    PROVE  WaitState' /\ (pc = "up" => waiters = <<>>)
<1>1. PICK t, u : \E w \in 0 .. Len(t) :
               /\ t = stk[cpu] /\ u = stk'[cpu]
               /\ Len(t) \in Nat /\ Len(t) > 0 /\ PcAt(t, Len(t)) = pc
               /\ \A l \in PCs : Goto(l) => Swap(t, u, l)
               /\ Return => Pop(t, u)
               /\ \A f, l \in PCs : Call(f, l) => Two(t, u, f, l)
               /\ Window(t, w) /\ Modes(t, w)
  BY WaitFrame
<1>2. PICK w \in 0 .. Len(t) : Window(t, w) /\ Modes(t, w)
  BY <1>1
<1>3. /\ cpu \in Proc /\ current \in Proc /\ NULL \notin Proc /\ repeat \in Nat
      /\ value \in 0 .. 255 /\ waiters \in Seq(Proc) /\ Sleeping
  BY KernelAssumption DEF Base, TypeOK, WaitState
<1>4. ~ \E msg : Fail(msg)
  BY DEF Fail
<1>5. {"relown", "relrep", "up"} \subseteq PCs /\ {"relown", "relrep", "up"} \subseteq LockPCs
  BY DEF PCs, LockPCs
<1>6. UNCHANGED <<cpu, current>>
  BY Zenon DEF release_repeat, clear_holder, clear_repeat, sema_up, threadVars
<1>7. pc = "up" => waiters = <<>>
  BY <1>1, <1>2, OnlyToken
<1>8. CASE release_repeat
  <2>1. pc = "relcnt" /\ UNCHANGED <<holder, value, waiters>>
    BY <1>8, Zenon DEF release_repeat
  <2>2. CASE repeat > 1
    <3>1. repeat' = repeat - 1 /\ Return
      BY <1>8, <2>2, Zenon DEF release_repeat, Ok
    <3>2. \A p \in Proc \ {cpu} : stk'[p] = stk[p]
      BY <3>1, BecomeShapes DEF Return
    <3>3. Pop(t, u) /\ PcAt(t, Len(t)) = "relcnt"
      BY <1>1, <2>1, <3>1
    <3>4. w \in 0 .. Len(u) /\ Window(u, w)
      BY <1>1, <1>2, <3>3, LockWindow
    <3>5. Modes(u, w)'
      BY <1>1, <1>2, <1>3, <1>6, <2>1, <2>2, <3>1, <3>3, WaitLeaves
    <3>6. WaitState'
      BY <1>1, <1>3, <1>6, <2>1, <3>2, <3>4, <3>5, WaitStep
    <3> QED BY <1>7, <3>6
  <2>3. CASE ~(repeat > 1)
    <3>1. repeat = 1 /\ Goto("relown") /\ UNCHANGED repeat
      BY <1>4, <1>8, <2>3, Zenon DEF release_repeat, Ok
    <3>2. QuietMove(stk[cpu], stk'[cpu])
      BY <1>1, <1>5, <2>1, <3>1 DEF QuietMove
    <3>3. \A p \in Proc \ {cpu} : stk'[p] = stk[p]
      BY <3>1, BecomeShapes DEF Goto
    <3> QED BY <1>6, <1>7, <2>1, <3>1, <3>2, <3>3, QuietWait
  <2> QED BY <2>2, <2>3
<1>9. CASE clear_holder
  <2>1. /\ pc = "relown" /\ Goto("relrep") /\ holder' = NULL
        /\ UNCHANGED <<repeat, value, waiters>>
    BY <1>9, Zenon DEF clear_holder
  <2>2. \A p \in Proc \ {cpu} : stk'[p] = stk[p]
    BY <2>1, BecomeShapes DEF Goto
  <2>3. Swap(t, u, "relrep") /\ PcAt(t, Len(t)) = "relown"
    BY <1>1, <1>5, <2>1
  <2>4. w \in 0 .. Len(u) /\ Window(u, w)
    BY <1>1, <1>2, <1>5, <2>3, LockWindow
  <2>5. Held(t, w) /\ Modes(u, w)'
    BY <1>1, <1>2, <1>6, <2>1, <2>3, WaitClears
  <2>6. holder = current
    BY <2>5 DEF Held
  <2>7. WaitState'
    BY <1>1, <1>3, <1>6, <2>2, <2>4, <2>5, <2>6, WaitStep
  <2> QED BY <1>7, <2>7
<1>10. CASE clear_repeat
  <2>1. pc = "relrep" /\ Goto("up") /\ UNCHANGED <<holder, value, waiters>>
    BY <1>10, Zenon DEF clear_repeat
  <2>2. \A p \in Proc \ {cpu} : stk'[p] = stk[p]
    BY <2>1, BecomeShapes DEF Goto
  <2>3. Swap(t, u, "up") /\ PcAt(t, Len(t)) = "relrep"
    BY <1>1, <1>5, <2>1
  <2>4. w \in 0 .. Len(u) /\ Window(u, w)
    BY <1>1, <1>2, <1>5, <2>3, LockWindow
  <2>5. Modes(u, w)'
    BY <1>1, <1>2, <1>6, <2>1, <2>3, WaitResets
  <2>6. WaitState'
    BY <1>1, <1>3, <1>6, <2>1, <2>2, <2>4, <2>5, WaitStep
  <2> QED BY <1>7, <2>6
<1>11. CASE sema_up
  <2>1. pc \in {"up", "upinc"} /\ UNCHANGED <<holder, repeat>>
    BY <1>11, Zenon DEF sema_up
  <2>2. pc = "up"
    <3>1. "upinc" \notin Low \cup Waiting \cup Between \cup OverToken \cup Owning \cup OverHeld
      BY DEF Low, Waiting, Between, OverToken, Owning, OverHeld
    <3>2. ASSUME pc = "upinc" PROVE FALSE
      <4>1. ~Free(t) /\ ~Other(t, w) /\ ~Token(t, w)
        BY <1>1, <1>2, <3>1, <3>2, OtherTop, TokenTop DEF Free, LowStack
      <4>2. ~Held(t, w)
        BY <1>1, <3>1, <3>2, HeldTop DEF Held
      <4> QED BY <1>2, <4>1, <4>2 DEF Modes
    <3> QED BY <2>1, <3>2
  <2>3. waiters = <<>>
    BY <1>7, <2>2
  <2>4. value' = 1 /\ Return /\ UNCHANGED waiters
    BY <1>4, <1>11, <2>2, <2>3, Zenon DEF sema_up, Ok
  <2>5. \A p \in Proc \ {cpu} : stk'[p] = stk[p]
    BY <2>4, BecomeShapes DEF Return
  <2>6. Pop(t, u) /\ PcAt(t, Len(t)) = "up"
    BY <1>1, <2>2, <2>4
  <2>7. w \in 0 .. Len(u) /\ Window(u, w)
    BY <1>1, <1>2, <2>6, LockWindow
  <2>8. Modes(u, w)'
    BY <1>1, <1>2, <1>6, <2>1, <2>4, <2>6, WaitUps
  <2>9. WaitState'
    BY <1>1, <1>3, <1>6, <2>1, <2>5, <2>7, <2>8, WaitStep
  <2> QED BY <1>7, <2>9
<1> QED BY <1>8, <1>9, <1>10, <1>11

\* switch_thread: the stack of the current thread becomes the window.
LEMMA SwitchWait ==
    ASSUME IInv, SwitchInv, failed = {}, WaitState, switch_thread
    PROVE  WaitState'
<1>0. Base
  BY DEF IInv
<1>1. pc = "switch" /\ UNCHANGED <<cpu, holder, repeat, value, waiters>>
  BY Zenon DEF switch_thread, lockVars
<1>2. CASE current = arg
  <2>1. Return /\ UNCHANGED current
    BY <1>2, Zenon DEF switch_thread
  <2>2. QuietMove(stk[cpu], stk'[cpu])
    BY <1>0, <1>1, <2>1, BecomeShapes DEF QuietMove
  <2>3. \A p \in Proc \ {cpu} : stk'[p] = stk[p]
    BY <1>0, <2>1, BecomeShapes DEF Return
  <2> QED BY <1>0, <1>1, <2>1, <2>2, <2>3, QuietWait
<1>3. CASE current # arg
  <2>1. current' = arg /\ Become(<<Frame("switch_to", current)>>)
    BY <1>3, Zenon DEF switch_thread
  <2>2. current = cpu
    <3>1. pc \in SwitchPCs
      BY <1>1 DEF SwitchPCs
    <3>2. Stage(Head(stk[cpu]))
      BY <3>1, SwitchRuns
    <3> QED BY <1>1, <3>2 DEF Stage, pc
  <2>3. PICK t, u : t = stk[cpu] /\ u = stk'[cpu]
    OBVIOUS
  <2>4. /\ Len(t) \in Nat /\ Len(t) > 0 /\ PcAt(t, Len(t)) = "switch" /\ cpu \in Proc
        /\ t \in Seq(Frames) /\ t # <<>> /\ current \in Proc
    BY <1>0, <1>1, <2>3, BecomeShapes, SwitchFacts
  <2>5. PICK f \in Frames : f = Frame("switch_to", current) /\ f.pc = "switch_to"
    <3>1. "switch_to" \in PCs
      BY DEF PCs
    <3> QED BY <2>4, <3>1, FrameType, Zenon
  <2>6. u = <<f>> \o Tail(t) /\ \A p \in Proc \ {cpu} : stk'[p] = stk[p]
    BY <2>1, <2>3, <2>5, IInvTypes, NewStack
  <2>7. Swap(t, u, "switch_to")
    BY <2>4, <2>5, <2>6, ShapeSwap
  <2>8. /\ Len(u) = Len(t) /\ PcAt(u, Len(t)) = "switch_to" /\ Len(t) \in 0 .. Len(u)
        /\ Window(u, Len(t))
    BY <2>4, <2>7 DEF Swap, Window
  <2>9. PICK w \in 0 .. Len(t) : Window(t, w) /\ Modes(t, w)
    BY <2>3 DEF WaitState
  <2>10. Free(t) \/ Held(t, w)
    BY <2>4, <2>9, TokenTop, OtherTop DEF Modes
  <2>11. CASE Free(t)
    <3>1. LowStack(u)
      <4>1. Adds(t, u, Low)
        BY <2>7 DEF Adds, Low
      <4> QED BY <2>4, <2>11, <4>1, LowStep DEF Free
    <3>2. Modes(u, Len(t))'
      BY <1>1, <2>11, <3>1 DEF Free, Modes
    <3>3. Sleeping'
      BY <1>1, <2>6, <2>11, KernelAssumption DEF Sleeping, WaitState, Free
    <3> QED BY <1>1, <2>3, <2>8, <3>2, <3>3, Zenon
            DEF WaitState, Modes, Free, Token, Held, Other, WaitsAbove, CountAt
  <2>12. CASE Held(t, w)
    <3>1. holder = cpu /\ value = 0 /\ waiters = <<>>
      BY <2>2, <2>12 DEF Held
    <3>2. Stuck(u, Len(t)) /\ \A d \in Len(t) + 1 .. Len(u) : PcAt(u, d) \in Low \cup Waiting
      BY <2>4, <2>8 DEF Stuck
    <3>3. WaitsAbove(u, Len(t))' /\ holder' \notin {NULL, current'}
      BY <1>1, <1>3, <2>1, <2>2, <2>4, <3>1, KernelAssumption DEF WaitsAbove
    <3>4. Modes(u, Len(t))'
      BY <1>1, <3>1, <3>2, <3>3 DEF Modes, Other
    <3>5. Sleeping'
      BY <1>1, <2>2, <2>6, <3>1 DEF Sleeping, WaitState
    <3> QED BY <1>1, <2>3, <2>8, <3>4, <3>5, Zenon
            DEF WaitState, Modes, Free, Token, Held, Other, WaitsAbove, CountAt
  <2> QED BY <2>10, <2>11, <2>12
<1> QED BY <1>2, <1>3

\* A stack that was saved has no frame in a switch but the one of switch_to's
\* return.
LEMMA ParkedPlaces ==
    ASSUME NEW v \in Seq(Frames), v # <<>>, Calm(Tail(v)),
           Head(v).pc \notin {"switch", "switch_to"}
    PROVE  \A d \in 1 .. Len(v) : PcAt(v, d) \notin {"switch", "switch_to"}
<1>1. /\ Len(v) \in Nat /\ Len(v) > 0 /\ Head(v) = v[1] /\ Len(Tail(v)) = Len(v) - 1
      /\ \A i \in 1 .. Len(v) - 1 : Tail(v)[i] = v[i + 1]
  OBVIOUS
<1>2. ASSUME NEW i \in 1 .. Len(v) PROVE v[i].pc \notin {"switch", "switch_to"}
  <2>1. CASE i = 1
    BY <1>1, <2>1
  <2>2. CASE i # 1
    <3>1. i - 1 \in 1 .. Len(v) - 1 /\ (i - 1) + 1 = i
      BY <1>1, <2>2
    <3>2. Tail(v)[i - 1] = v[i]
      BY <1>1, <3>1
    <3> QED BY <1>1, <3>1, <3>2 DEF Calm, SwitchPCs
  <2> QED BY <2>1, <2>2
<1>3. ASSUME NEW d \in 1 .. Len(v) PROVE Len(v) + 1 - d \in 1 .. Len(v)
  BY <1>1
<1> QED BY <1>2, <1>3 DEF PcAt

\* switch_to: the next thread goes on; nobody can be waiting.
LEMMA SwitchToWait ==
    ASSUME IInv, SwitchInv, failed = {}, WaitState, switch_to
    PROVE  WaitState'
<1>0. Base
  BY DEF IInv
<1>1. /\ pc = "switch_to" /\ cpu' = current /\ Goto("resumed")
      /\ UNCHANGED <<current, holder, repeat, value, waiters>>
  BY Zenon DEF switch_to, lockVars
<1>2. current # cpu
  <2>1. pc \in SwitchPCs
    BY <1>1 DEF SwitchPCs
  <2>2. Stage(Head(stk[cpu]))
    BY <2>1, SwitchRuns
  <2> QED BY <1>1, <2>2 DEF Stage, pc
<1>3. PICK t, u, v : t = stk[cpu] /\ u = stk'[cpu] /\ v = stk[current]
  OBVIOUS
<1>4. /\ cpu \in Proc /\ current \in Proc /\ NULL \notin Proc
      /\ Len(t) \in Nat /\ Len(t) > 0 /\ PcAt(t, Len(t)) = "switch_to"
  BY <1>0, <1>1, <1>3, BecomeShapes, SwitchFacts, KernelAssumption
<1>5. Swap(t, u, "resumed") /\ \A p \in Proc \ {cpu} : stk'[p] = stk[p]
  <2>1. "resumed" \in PCs
    BY DEF PCs
  <2> QED BY <1>0, <1>1, <1>3, <2>1, BecomeShapes DEF Goto
<1>6. PICK w \in 0 .. Len(t) : Window(t, w) /\ Modes(t, w)
  BY <1>3 DEF WaitState
<1>7. w = Len(t)
  BY <1>4, <1>6 DEF Window
<1>8. v = stk'[cpu'] /\ LowStack(v)
  BY <1>1, <1>2, <1>3, <1>4, <1>5 DEF WaitState, Sleeping
<1>9. /\ v \in Seq(Frames) /\ v # <<>>
      /\ \A d \in 1 .. Len(v) : PcAt(v, d) \notin {"switch", "switch_to"}
  <2>1. v \in Seq(Frames) /\ v # <<>>
    BY <1>3, <1>4, SwitchFacts
  <2>2. Calm(Tail(v)) /\ Head(v).pc \notin {"switch", "switch_to"}
    BY <1>2, <1>3, <1>4 DEF SwitchInv, Parked
  <2> QED BY <2>1, <2>2, ParkedPlaces
<1>10. 0 \in 0 .. Len(v) /\ Window(v, 0)
  BY <1>9 DEF Window
<1>11. CASE Free(t)
  <2>1. Modes(v, 0)'
    BY <1>1, <1>8, <1>11 DEF Modes, Free
  <2>2. LowStack(u)
    <3>1. Adds(t, u, Low)
      BY <1>5 DEF Adds, Low
    <3> QED BY <1>4, <1>11, <3>1, LowStep DEF Free
  <2>3. Sleeping'
    <3> SUFFICES ASSUME NEW p \in Proc \ {current} PROVE LowStack(stk'[p])
      BY <1>1 DEF Sleeping
    <3>1. CASE p = cpu
      BY <1>3, <2>2, <3>1
    <3>2. CASE p # cpu
      BY <1>4, <1>5, <1>11, <3>2 DEF WaitState, Sleeping, Free
    <3> QED BY <3>1, <3>2
  <2> QED BY <1>8, <1>10, <2>1, <2>3, Zenon
          DEF WaitState, Modes, Free, Token, Held, Other, WaitsAbove, CountAt
<1>12. CASE Other(t, w)
  <2>1. holder = cpu /\ value = 0 /\ waiters = <<>>
    BY <1>4, <1>7, <1>12 DEF Other, WaitsAbove
  <2>2. Stuck(v, 0) /\ \A d \in 0 + 1 .. Len(v) : PcAt(v, d) \in Low \cup Waiting
    BY <1>8, <1>9 DEF Stuck, LowStack
  <2>3. WaitsAbove(v, 0)' /\ holder' \notin {NULL, current'} /\ value' = 0
    BY <1>1, <1>2, <1>4, <2>1 DEF WaitsAbove
  <2>4. Modes(v, 0)'
    BY <2>2, <2>3 DEF Modes, Other
  <2>5. Sleeping'
    BY <1>1, <1>5, <2>1 DEF WaitState, Sleeping
  <2> QED BY <1>8, <1>10, <2>4, <2>5, Zenon
          DEF WaitState, Modes, Free, Token, Held, Other, WaitsAbove, CountAt
<1>13. ~Token(t, w) /\ ~Held(t, w)
  BY <1>4, <1>7 DEF Token, Held
<1> QED BY <1>6, <1>11, <1>12, <1>13 DEF Modes

\* What the modes depend on.
LEMMA WaitSame ==
    ASSUME WaitState, UNCHANGED <<cpu, current, stk, holder, repeat, value, waiters>>
    PROVE  WaitState'
<1>1. Sleeping'
  BY DEF WaitState, Sleeping
<1>2. PICK w \in 0 .. Len(stk[cpu]) : Window(stk[cpu], w) /\ Modes(stk[cpu], w)
  BY DEF WaitState
<1>3. Free(stk[cpu]) => Free(stk[cpu])'
  BY Zenon DEF Free
<1>4. Token(stk[cpu], w) => Token(stk[cpu], w)'
  BY Zenon DEF Token, WaitsAbove
<1>5. Held(stk[cpu], w) => Held(stk[cpu], w)'
  BY Zenon DEF Held, CountAt
<1>6. Other(stk[cpu], w) => Other(stk[cpu], w)'
  BY Zenon DEF Other, WaitsAbove
<1>7. Modes(stk[cpu], w)'
  BY <1>2, <1>3, <1>4, <1>5, <1>6, Zenon DEF Modes
<1>8. (w \in 0 .. Len(stk[cpu]) /\ Window(stk[cpu], w))'
  BY <1>2, Zenon
<1> QED BY <1>1, <1>7, <1>8, Zenon DEF WaitState

\* The set of failed assertions does not become empty again.
LEMMA FailedStays == ASSUME [Next]_vars, failed' = {} PROVE failed = {}
<1>1. \A msg : Fail(msg) => FALSE
  BY DEF Fail
<1> QED BY <1>1, Zenon DEF Next, Execute, vars, threadVars, lockVars, req_lock, sema_down,
   thread_block_end, set_holder, check_repeat, set_repeat, console_done, check_holder,
   release_repeat, clear_holder, clear_repeat, sema_up, thread_unblock, schedule,
   switch_thread, switch_to, switch_end, iret, panic, printk, kthread_create,
   timer_callback, printing_interrupt, Ok

\* Every step keeps the invariant.
LEMMA NextWaitInv == IInv /\ SwitchInv /\ WaitInv /\ [Next]_vars => WaitInv'
<1> SUFFICES ASSUME IInv, SwitchInv, WaitInv, [Next]_vars, failed' = {} PROVE WaitState'
  BY DEF WaitInv
<1>0. Base
  BY DEF IInv
<1>1. failed = {}
  BY FailedStays
<1>2. WaitState
  BY <1>1 DEF WaitInv
<1>3. CASE Execute
  <2>1. ~panic
    <3>1. stk[cpu] \in Seq(Frames) /\ stk[cpu] # <<>> /\ cpu \in Proc
      BY SwitchFacts
    <3>2. Head(stk[cpu]) = stk[cpu][1] /\ 1 \in 1 .. Len(stk[cpu])
      BY <3>1
    <3> QED BY <1>1, <3>1, <3>2 DEF SwitchInv, NoPanic, panic, pc, PanicPCs
  <2> QED BY <1>0, <1>1, <1>2, <1>3, <2>1, AcquireWait, ReleaseWait, OutsideWait, ScheduleWait,
             SwitchWait, SwitchToWait DEF Execute
<1>4. CASE printk
  BY <1>0, <1>2, <1>4, OutsideWait
<1>5. CASE timer_callback \/ printing_interrupt
  BY <1>0, <1>2, <1>5, InterruptWait
<1>6. ASSUME UNCHANGED <<cpu, current, stk, holder, repeat, value, waiters>> PROVE WaitState'
  BY <1>2, <1>6, WaitSame
<1>7. ASSUME NEW t \in Threads, kthread_create(t) PROVE WaitState'
  BY <1>6, <1>7, Zenon DEF kthread_create, lockVars
<1>8. CASE UNCHANGED vars
  BY <1>6, <1>8 DEF vars, threadVars, lockVars
<1> QED BY <1>3, <1>4, <1>5, <1>7, <1>8 DEF Next

LEMMA WaitInvariance == ShortSwitch => (Spec => []WaitInv)
<1> SUFFICES ASSUME ShortSwitch PROVE Spec => []WaitInv
  OBVIOUS
<1>1. Init => WaitInv
  BY InitWaitInv
<1>2. IInv /\ SwitchInv /\ WaitInv /\ [Next]_vars => WaitInv'
  BY NextWaitInv
<1> QED BY <1>1, <1>2, Invariance, SwitchInvariance, PTL DEF Spec

\* The semaphore that a thread gives back has nobody waiting for it.
LEMMA NobodyToWake ==
    ASSUME Base, WaitState
    PROVE  pc = "up" => waiters = <<>>
<1>1. PICK t : t = stk[cpu]
  OBVIOUS
<1>2. Len(t) \in Nat /\ Len(t) > 0 /\ PcAt(t, Len(t)) = pc
  BY <1>1, BecomeShapes
<1>3. PICK w \in 0 .. Len(t) : Window(t, w) /\ Modes(t, w)
  BY <1>1 DEF WaitState
<1> QED BY <1>2, <1>3, OnlyToken

\* Until an assertion fails, the thread in the waiters list is the current
\* one: thread_block's schedule() does not give up the CPU, and nobody gets
\* past the waiting printk, however interrupts nest.
THEOREM WaiterStaysCurrent == ShortSwitch => (Spec => [](failed = {} => WaiterIsCurrent))
<1> SUFFICES ASSUME ShortSwitch PROVE Spec => [](failed = {} => WaiterIsCurrent)
  OBVIOUS
<1>1. WaitInv => (failed = {} => WaiterIsCurrent)
  <2> SUFFICES ASSUME WaitState PROVE WaiterIsCurrent
    BY DEF WaitInv
  <2>1. waiters = <<>> \/ waiters = <<current>>
    BY DEF WaitState, Modes, Free, Token, Held, Other, WaitsAbove
  <2>2. CASE waiters = <<>>
    <3>1. DOMAIN waiters = {}
      BY <2>2
    <3> QED BY <3>1 DEF WaiterIsCurrent
  <2>3. CASE waiters = <<current>>
    <3>1. DOMAIN waiters = {1} /\ waiters[1] = current
      BY <2>3
    <3> QED BY <3>1 DEF WaiterIsCurrent
  <2> QED BY <2>1, <2>2, <2>3
<1> QED BY <1>1, WaitInvariance, PTL

(***************************************************************************)
(* The ready list                                                          *)
(***************************************************************************)
InReady(p) == \E i \in 1 .. Len(ready) : ready[i] = p

\* The ready list holds, once each, the threads that exist and are not
\* chosen; the current and the chosen thread exist.
QueueState ==
    /\ Distinct(ready)
    /\ \A p \in Proc : InReady(p) <=> state[p] # "CREATE" /\ p # Chosen
    /\ Chosen \in Proc /\ state[Chosen] # "CREATE" /\ state[current] # "CREATE"

QueueInv == failed = {} => QueueState

(***************************************************************************)
(* The chosen thread                                                       *)
(***************************************************************************)

ChosenOf(s, c) ==
    IF Has(s, {"switch"})
    THEN s[CHOOSE i \in DOMAIN s :
              /\ s[i].pc = "switch"
              /\ \A j \in DOMAIN s : s[j].pc = "switch" => i <= j].arg
    ELSE c

\* Chosen is read off the stack of the CPU.
LEMMA ChosenDef == Chosen = ChosenOf(stk[cpu], current) /\ Chosen' = ChosenOf(stk'[cpu'], current')
  BY DEF Chosen, ChosenOf

\* The frame of the switch tells who is chosen.
LEMMA ChosenValue ==
    ASSUME NEW s \in Seq(Frames), NEW c
    PROVE  /\ Calm(s) => ChosenOf(s, c) = c
           /\ \A f \in Frames : SwitchAt(s, f) /\ f.pc = "switch" => ChosenOf(s, c) = f.arg
           /\ \A f \in Frames : SwitchAt(s, f) /\ f.pc # "switch" => ChosenOf(s, c) = c
<1>1. DOMAIN s = 1 .. Len(s) /\ Len(s) \in Nat
  OBVIOUS
<1>2. ASSUME Calm(s) PROVE ChosenOf(s, c) = c
  BY <1>1, <1>2 DEF Calm, Has, SwitchPCs, ChosenOf
<1>3. ASSUME NEW f \in Frames, SwitchAt(s, f) PROVE
         /\ f.pc = "switch" => ChosenOf(s, c) = f.arg
         /\ f.pc # "switch" => ChosenOf(s, c) = c
  <2>1. PICK k \in 1 .. Len(s) :
            s[k] = f /\ \A i \in 1 .. Len(s) : i # k => s[i].pc \notin SwitchPCs
    BY <1>3 DEF SwitchAt
  <2>2. \A i \in 1 .. Len(s) : s[i].pc = "switch" => i = k
    BY <2>1 DEF SwitchPCs
  <2>3. CASE f.pc = "switch"
    <3> DEFINE Q(i) == s[i].pc = "switch" /\ \A j \in DOMAIN s : s[j].pc = "switch" => i <= j
    <3>1. k \in DOMAIN s /\ Q(k)
      BY <1>1, <2>1, <2>2, <2>3
    <3>2. (CHOOSE i \in DOMAIN s : Q(i)) \in DOMAIN s /\ Q(CHOOSE i \in DOMAIN s : Q(i))
      BY <3>1, Zenon
    <3>3. (CHOOSE i \in DOMAIN s : Q(i)) = k
      BY <1>1, <2>2, <3>2
    <3>4. Has(s, {"switch"})
      BY <1>1, <2>1, <2>3 DEF Has
    <3>5. ChosenOf(s, c) = s[CHOOSE i \in DOMAIN s : Q(i)].arg
      BY <3>4, Zenon DEF ChosenOf
    <3> QED BY <2>1, <2>3, <3>3, <3>5
  <2>4. CASE f.pc # "switch"
    <3>1. ~Has(s, {"switch"})
      BY <1>1, <2>1, <2>2, <2>4 DEF Has
    <3> QED BY <2>4, <3>1 DEF ChosenOf
  <2> QED BY <2>3, <2>4
<1> QED BY <1>2, <1>3

\* A step that leaves the switch as it is does not change the choice.
LEMMA SameChoice ==
    ASSUME IInv, IInv', SwitchInv, failed = {}, UNCHANGED <<cpu, current>>,
           Calm(stk[cpu]) => Calm(stk'[cpu]),
           \A f \in Frames : SwitchAt(stk[cpu], f) /\ f.pc \in SwitchPCs => SwitchAt(stk'[cpu], f)
    PROVE  Chosen' = Chosen
<1>1. stk[cpu] \in Seq(Frames) /\ stk'[cpu] \in Seq(Frames)
  <2>1. cpu \in Proc /\ stk \in [Proc -> Seq(Frames)] /\ stk' \in [Proc -> Seq(Frames)]
    BY DEF IInv, Base, TypeOK
  <2> QED BY <2>1
<1>2. CASE Calm(stk[cpu])
  BY <1>1, <1>2, ChosenDef, ChosenValue
<1>3. ASSUME NEW f \in Frames, SwitchAt(stk[cpu], f), Stage(f) PROVE Chosen' = Chosen
  <2>1. SwitchAt(stk'[cpu], f)
    BY <1>3, StagePC
  <2>2. CASE f.pc = "switch"
    BY <1>1, <1>3, <2>1, <2>2, ChosenDef, ChosenValue
  <2>3. CASE f.pc # "switch"
    BY <1>1, <1>3, <2>1, <2>3, ChosenDef, ChosenValue
  <2> QED BY <2>2, <2>3
<1> QED BY <1>2, <1>3 DEF SwitchInv, SwitchState

(***************************************************************************)
(* Steps                                                                   *)
(***************************************************************************)

\* The step does nothing to the abstract scheduler.
Idles == ready' = ready /\ Chosen' = Chosen

\* A step that idles and creates no thread keeps the ready list exact.
LEMMA IdlesQueue ==
    ASSUME IInv, QueueState, Idles, UNCHANGED current,
           \A p \in Proc : state'[p] # "CREATE" <=> state[p] # "CREATE"
    PROVE  QueueState'
<1>1. \A p \in Proc : InReady(p)' <=> InReady(p)
  BY DEF Idles, InReady
<1>2. Distinct(ready') /\ current \in Proc
  BY DEF QueueState, Idles, IInv, Base, TypeOK
<1> QED BY <1>1, <1>2 DEF QueueState, Idles

\* A thread that exists goes to another state.
LEMMA StateKept ==
    ASSUME IInv, NEW p \in Proc, state[p] # "CREATE", NEW x, x # "CREATE",
           state' = [state EXCEPT ![p] = x]
    PROVE  \A q \in Proc : state'[q] # "CREATE" <=> state[q] # "CREATE"
<1>1. state \in [Proc -> States]
  BY DEF IInv, Base, TypeOK
<1> QED BY <1>1

\* The lock functions, while nobody is woken.
LEMMA LockQueue ==
    ASSUME IInv, IInv', SwitchInv, QueueState, failed' = {}, pc = "up" => waiters = <<>>,
           LockSteps
    PROVE  QueueState' /\ Idles
<1>1. /\ failed = {} /\ pc \notin SwitchPCs
      /\ UNCHANGED <<cpu, current, ticks, burst>>
  BY LockInert
<1>2. PICK s : Inert(s) /\ Become(s)
  BY LockInert
<1>3. Chosen' = Chosen
  <2>1. NoPanic /\ Parked
    BY <1>1 DEF SwitchInv
  <2>2. /\ Calm(stk[cpu]) => Calm(stk'[cpu])
        /\ \A f \in Frames : SwitchAt(stk[cpu], f) /\ f.pc \in SwitchPCs => SwitchAt(stk'[cpu], f)
    BY <1>1, <1>2, <2>1, InertStack
  <2> QED BY <1>1, <2>2, SameChoice
<1>4. ready' = ready
  <2>1. CASE sema_up
    <3>1. ~(pc = "up" /\ waiters # <<>>)
      OBVIOUS
    <3> QED BY <2>1, <3>1, Zenon DEF sema_up
  <2>2. CASE ~sema_up
    BY <2>2, Zenon DEF LockSteps, req_lock, sema_down, thread_block_end, set_holder,
       check_repeat, set_repeat, console_done, check_holder, release_repeat, clear_holder,
       clear_repeat, iret, panic, printk, threadVars
  <2> QED BY <2>1, <2>2
<1>5. state' = state \/ state' = [state EXCEPT ![current] = "BLOCKED"]
  <2>1. CASE sema_up
    <3>1. ~(pc = "up" /\ waiters # <<>>)
      OBVIOUS
    <3> QED BY <2>1, <3>1, Zenon DEF sema_up
  <2>2. CASE ~sema_up
    BY <2>2, Zenon DEF LockSteps, req_lock, sema_down, thread_block_end, set_holder,
       check_repeat, set_repeat, console_done, check_holder, release_repeat, clear_holder,
       clear_repeat, iret, panic, printk, threadVars
  <2> QED BY <2>1, <2>2
<1>6. \A p \in Proc : state'[p] # "CREATE" <=> state[p] # "CREATE"
  <2>1. current \in Proc /\ state[current] # "CREATE" /\ "BLOCKED" # "CREATE"
    BY DEF QueueState, IInv, Base, TypeOK
  <2> QED BY <1>5, <2>1, StateKept
<1>7. Idles
  BY <1>3, <1>4 DEF Idles
<1> QED BY <1>1, <1>6, <1>7, IdlesQueue

\* Interrupts do not touch the ready list themselves.
LEMMA InterruptQueue ==
    ASSUME IInv, IInv', SwitchInv, QueueState, failed' = {},
           timer_callback \/ printing_interrupt
    PROVE  QueueState' /\ Idles
<1>1. UNCHANGED <<cpu, current, failed, ready, state>>
  BY Zenon DEF timer_callback, printing_interrupt, threadVars
<1>2. NoPanic /\ Parked /\ failed = {}
  BY <1>1 DEF SwitchInv
<1>3. PICK l \in {"sched", "req"} : Interrupt(l)
  BY Zenon DEF timer_callback, printing_interrupt
<1>4. stk' = [stk EXCEPT ![cpu] = <<At(l), At("iret")>> \o stk[cpu]]
  BY <1>3 DEF Interrupt
<1>5. Inert(<<At(l), At("iret")>>)
  <2>1. {l, "iret"} \subseteq PCs \ (SwitchPCs \cup PanicPCs)
    BY DEF PCs, SwitchPCs, PanicPCs
  <2> QED BY <2>1, InertShapes
<1>6. /\ Calm(stk[cpu]) => Calm(stk'[cpu])
      /\ \A f \in Frames : SwitchAt(stk[cpu], f) /\ f.pc \in SwitchPCs => SwitchAt(stk'[cpu], f)
  BY <1>1, <1>2, <1>4, <1>5, InertStack
<1>7. Idles
  BY <1>1, <1>2, <1>6, SameChoice DEF Idles
<1> QED BY <1>1, <1>7, IdlesQueue

\* kthread_create: a thread that did not exist joins at the back.
LEMMA CreateQueue ==
    ASSUME IInv, QueueState, NEW t \in Threads, kthread_create(t)
    PROVE  QueueState' /\ RR!Create(t)
<1>1. /\ state[t] = "CREATE" /\ state' = [state EXCEPT ![t] = "READY"]
      /\ ready' = Append(ready, t) /\ UNCHANGED <<cpu, current, stk>>
  BY Zenon DEF kthread_create
<1>2. t \in Proc /\ ready \in Seq(Proc) /\ state \in [Proc -> States] /\ current \in Proc
  BY DEF Proc, IInv, Base, TypeOK
<1>3. Chosen' = Chosen
  BY <1>1, ChosenDef
<1>4. ~InReady(t) /\ t # Chosen
  BY <1>1, <1>2 DEF QueueState
<1>5. /\ Len(ready) \in Nat /\ Len(ready') = Len(ready) + 1
      /\ \A i \in 1 .. Len(ready) : ready'[i] = ready[i]
      /\ ready'[Len(ready) + 1] = t
  BY <1>1, <1>2
<1>6. \A p \in Proc : InReady(p)' <=> InReady(p) \/ p = t
  BY <1>5 DEF InReady
<1>7. Distinct(ready')
  BY <1>4, <1>5 DEF QueueState, Distinct, InReady
<1>8. state'[t] = "READY" /\ \A p \in Proc \ {t} : state'[p] = state[p]
  BY <1>1, <1>2
<1>9. QueueState'
  <2>1. ASSUME NEW p \in Proc
        PROVE  InReady(p)' <=> state'[p] # "CREATE" /\ p # Chosen
    BY <1>4, <1>6, <1>8 DEF QueueState
  <2>2. state'[Chosen] # "CREATE" /\ state'[current] # "CREATE" /\ Chosen \in Proc
    BY <1>2, <1>8 DEF QueueState
  <2> QED BY <1>1, <1>3, <1>7, <2>1, <2>2 DEF QueueState
<1>10. RR!Create(t)
  <2>1. DOMAIN ready = 1 .. Len(ready)
    BY <1>2
  <2>2. t \notin RR!Queued \cup {Chosen}
    BY <1>4, <2>1 DEF RR!Queued, InReady
  <2> QED BY <1>1, <1>3, <2>2 DEF RR!Create
<1> QED BY <1>9, <1>10

\* schedule(): it returns, or the thread at the front of the list is chosen
\* and the one that ran goes to the back.
LEMMA ScheduleQueue ==
    ASSUME IInv, IInv', SwitchInv, QueueState, failed' = {}, ShortSwitch, schedule
    PROVE  QueueState' /\ (Idles \/ RR!Switch)
<1>1. pc = "sched" /\ UNCHANGED <<cpu, current, burst, failed>>
  BY Zenon DEF schedule
<1>2. failed = {} /\ NoPanic /\ Parked /\ pc \notin SwitchPCs
  BY <1>1 DEF SwitchInv, SwitchPCs
<1>3. CASE Become(<<>>) /\ UNCHANGED <<ready, state>>
  <2>1. /\ Calm(stk[cpu]) => Calm(stk'[cpu])
        /\ \A f \in Frames : SwitchAt(stk[cpu], f) /\ f.pc \in SwitchPCs => SwitchAt(stk'[cpu], f)
    BY <1>1, <1>2, <1>3, InertShapes, InertStack
  <2>2. Idles
    BY <1>1, <1>2, <1>3, <2>1, SameChoice DEF Idles
  <2> QED BY <1>1, <1>3, <2>2, IdlesQueue
<1>4. CASE /\ ticks[current] = 0 /\ ready # <<>>
           /\ ready' = Append(Tail(ready), current)
           /\ state' = [state EXCEPT ![current] = "READY", ![Head(ready)] = "RUNNING"]
           /\ Become(<<At("req"), Frame("switch", Head(ready))>>)
  <2>1. /\ current \in Proc /\ ready \in Seq(Proc) /\ state \in [Proc -> States]
        /\ stk[cpu] \in Seq(Frames) /\ stk[cpu] # <<>> /\ stk'[cpu] \in Seq(Frames)
    <3>1. cpu \in Proc /\ stk' \in [Proc -> Seq(Frames)]
      BY DEF IInv, Base, TypeOK
    <3> QED BY <3>1, SwitchFacts DEF IInv, Base, TypeOK
  <2>2. Calm(stk[cpu])
    BY <1>2, <1>4, SwitchHasTicks
  <2>3. Chosen = current
    BY <2>1, <2>2, ChosenDef, ChosenValue
  <2>4. Head(ready) \in Proc /\ Head(ready) = ready[1] /\ Len(ready) \in Nat /\ Len(ready) > 0
    BY <1>4, <2>1
  <2>5. Chosen' = Head(ready)
    <3>1. "req" \in PCs /\ "switch" \in PCs /\ "req" \notin SwitchPCs
      BY DEF PCs, SwitchPCs
    <3>2. At("req") \in Frames /\ At("req").pc = "req"
      BY <3>1, AtType
    <3>3. /\ Frame("switch", Head(ready)) \in Frames
          /\ Frame("switch", Head(ready)).pc = "switch"
          /\ Frame("switch", Head(ready)).arg = Head(ready)
      BY <2>4, <3>1, FrameType
    <3>4. /\ stk'[cpu] = <<At("req"), Frame("switch", Head(ready))>> \o Tail(stk[cpu])
          /\ Tail(stk[cpu]) \in Seq(Frames)
      BY <1>4, IInvTypes, NewStack
    <3>5. SwitchAt(stk'[cpu], Frame("switch", Head(ready)))
      <4>1. Calm(Tail(stk[cpu]))
        BY <2>1, <2>2, CalmTop
      <4> QED BY <3>1, <3>2, <3>3, <3>4, <4>1, SwitchPutTwo
    <3> QED BY <1>1, <2>1, <3>3, <3>5, ChosenDef, ChosenValue
  <2>6. /\ Len(ready') = Len(ready)
        /\ \A i \in 1 .. Len(ready) - 1 : ready'[i] = ready[i + 1]
        /\ ready'[Len(ready)] = current
    BY <1>4, <2>1, RotateElements
  <2>7. ~InReady(current) /\ InReady(Head(ready))
    <3>1. ~InReady(current)
      BY <2>1, <2>3 DEF QueueState
    <3>2. 1 \in 1 .. Len(ready)
      BY <2>4
    <3> QED BY <2>4, <3>1, <3>2 DEF InReady
  <2>8. Distinct(ready') /\ Absent(ready', Head(ready))
    <3>1. Absent(ready, current)
      BY <2>7 DEF Absent, InReady
    <3> QED BY <1>4, <2>1, <3>1, RotateDistinct DEF QueueState
  <2>9. \A p \in Proc : InReady(p)' <=> (InReady(p) /\ p # Head(ready)) \/ p = current
    <3> SUFFICES ASSUME NEW p \in Proc
                 PROVE  InReady(p)' <=> (InReady(p) /\ p # Head(ready)) \/ p = current
      OBVIOUS
    <3>1. ASSUME InReady(p)' PROVE (InReady(p) /\ p # Head(ready)) \/ p = current
      <4>1. PICK i \in 1 .. Len(ready') : ready'[i] = p
        BY <3>1 DEF InReady
      <4>2. p # Head(ready)
        BY <2>8, <4>1 DEF Absent
      <4>3. CASE i \in 1 .. Len(ready) - 1
        <5>1. i + 1 \in 1 .. Len(ready) /\ ready[i + 1] = p
          BY <2>4, <2>6, <4>1, <4>3
        <5> QED BY <4>2, <5>1 DEF InReady
      <4>4. CASE i = Len(ready)
        BY <2>6, <4>1, <4>4
      <4> QED BY <2>4, <2>6, <4>3, <4>4
    <3>2. ASSUME InReady(p), p # Head(ready) PROVE InReady(p)'
      <4>1. PICK i \in 1 .. Len(ready) : ready[i] = p
        BY <3>2 DEF InReady
      <4>2. i - 1 \in 1 .. Len(ready) - 1 /\ (i - 1) + 1 = i
        BY <2>4, <3>2, <4>1
      <4>3. ready'[i - 1] = p /\ i - 1 \in 1 .. Len(ready')
        BY <2>4, <2>6, <4>1, <4>2
      <4> QED BY <4>3 DEF InReady
    <3>3. ASSUME p = current PROVE InReady(p)'
      <4>1. Len(ready) \in 1 .. Len(ready')
        BY <2>4, <2>6
      <4> QED BY <2>6, <3>3, <4>1 DEF InReady
    <3> QED BY <3>1, <3>2, <3>3
  <2>10. \A p \in Proc : state'[p] # "CREATE" <=> state[p] # "CREATE"
    <3>1. state[current] # "CREATE" /\ state[Head(ready)] # "CREATE"
      BY <2>4, <2>7 DEF QueueState
    <3> QED BY <1>4, <2>1, <2>4, <3>1
  <2>11. Head(ready) # current
    BY <2>7
  <2>12. QueueState'
    <3>1. ASSUME NEW p \in Proc
          PROVE  InReady(p)' <=> state'[p] # "CREATE" /\ p # Head(ready)
      BY <2>3, <2>7, <2>9, <2>10, <2>11 DEF QueueState
    <3>2. state'[Head(ready)] # "CREATE" /\ state'[current] # "CREATE"
      BY <2>1, <2>4, <2>7, <2>10 DEF QueueState
    <3> QED BY <1>1, <2>4, <2>5, <2>8, <3>1, <3>2 DEF QueueState
  <2>13. RR!Switch
    BY <1>4, <2>3, <2>5 DEF RR!Switch
  <2> QED BY <2>12, <2>13
<1> QED BY <1>3, <1>4, Zenon DEF schedule, Return

\* The stages of a switch carry out the choice.
LEMMA StagesQueue ==
    ASSUME IInv, IInv', SwitchInv, SwitchInv', QueueState, failed' = {},
           switch_thread \/ switch_to \/ switch_end
    PROVE  QueueState' /\ Idles
<1> DEFINE t == stk[cpu]
<1>1. /\ pc \in SwitchPCs /\ Head(t).pc = pc /\ Head(t).arg = arg
      /\ UNCHANGED <<ready, failed>> /\ failed = {}
  BY Zenon DEF switch_thread, switch_to, switch_end, pc, arg, SwitchPCs
<1>2. Stage(Head(t)) /\ Calm(Tail(t)) /\ Parked
  BY <1>1, SwitchRuns DEF SwitchInv
<1>3. /\ cpu \in Proc /\ current \in Proc /\ t \in Seq(Frames) /\ t # <<>>
      /\ Head(t) \in Frames /\ \A p \in Proc : stk[p] \in Seq(Frames) /\ stk[p] # <<>>
  BY SwitchFacts
<1>4. \A p \in Proc : stk'[p] \in Seq(Frames)
  BY DEF IInv, Base, TypeOK
<1>5. SwitchAt(t, Head(t))
  BY <1>1, <1>2, <1>3, CalmRest
<1>6. ASSUME Become(<<>>), UNCHANGED <<cpu, current>> PROVE Chosen' = current
  <2>1. stk'[cpu] = <<>> \o Tail(t) /\ Tail(t) \in Seq(Frames)
    BY <1>6, IInvTypes, NewStack
  <2>2. stk'[cpu] = Tail(t)
    BY <2>1
  <2> QED BY <1>2, <1>6, <2>1, <2>2, ChosenDef, ChosenValue
<1>7. CASE switch_end
  <2>1. /\ pc = "resumed" /\ Become(<<>>) /\ UNCHANGED <<cpu, current>>
        /\ state' = [state EXCEPT ![current] = "RUNNING"]
    BY <1>7, Zenon DEF switch_end, Return
  <2>2. Chosen = current
    BY <1>1, <1>3, <1>5, <2>1, ChosenDef, ChosenValue
  <2>3. Idles
    BY <1>1, <1>6, <2>1, <2>2 DEF Idles
  <2>4. \A p \in Proc : state'[p] # "CREATE" <=> state[p] # "CREATE"
    <3>1. state[current] # "CREATE" /\ "RUNNING" # "CREATE"
      BY DEF QueueState
    <3> QED BY <1>3, <2>1, <3>1, StateKept
  <2> QED BY <2>1, <2>3, <2>4, IdlesQueue
<1>8. CASE switch_thread
  <2>1. pc = "switch" /\ UNCHANGED cpu
    BY <1>8, Zenon DEF switch_thread
  <2>2. Chosen = arg
    BY <1>1, <1>3, <1>5, <2>1, ChosenDef, ChosenValue
  <2>3. CASE current = arg
    <3>1. Become(<<>>) /\ UNCHANGED <<current, state>>
      BY <1>8, <2>3, Zenon DEF switch_thread, Return
    <3>2. Idles
      BY <1>1, <1>6, <2>1, <2>2, <2>3, <3>1 DEF Idles
    <3> QED BY <3>1, <3>2, IdlesQueue
  <2>4. CASE current # arg
    <3>1. /\ current' = arg /\ Become(<<Frame("switch_to", current)>>)
          /\ state' = [state EXCEPT ![current] = "READY"]
      BY <1>8, <2>4, Zenon DEF switch_thread
    <3>2. /\ Frame("switch_to", current) \in Frames
          /\ Frame("switch_to", current).pc = "switch_to"
      <4>1. "switch_to" \in PCs
        BY DEF PCs
      <4> QED BY <1>3, <4>1, FrameType
    <3>3. SwitchAt(stk'[cpu], Frame("switch_to", current))
      BY <1>2, <3>1, <3>2, IInvTypes, NewStack, SwitchPut
    <3>4. Chosen' = arg
      BY <1>3, <1>4, <2>1, <3>1, <3>2, <3>3, ChosenDef, ChosenValue
    <3>5. \A p \in Proc : state'[p] # "CREATE" <=> state[p] # "CREATE"
      <4>1. state[current] # "CREATE" /\ "READY" # "CREATE"
        BY DEF QueueState
      <4> QED BY <1>3, <3>1, <4>1, StateKept
    <3>6. \A p \in Proc : InReady(p)' <=> InReady(p)
      BY <1>1 DEF InReady
    <3>7. arg \in Proc /\ state[arg] # "CREATE"
      BY <2>2 DEF QueueState
    <3>8. QueueState'
      BY <1>1, <2>2, <3>1, <3>4, <3>5, <3>6, <3>7 DEF QueueState
    <3> QED BY <1>1, <2>2, <3>4, <3>8 DEF Idles
  <2> QED BY <2>3, <2>4
<1>9. CASE switch_to
  <2>1. /\ pc = "switch_to" /\ cpu' = current /\ UNCHANGED <<current, state>>
        /\ Become(<<At("resumed")>>)
    BY <1>9, Zenon DEF switch_to, Goto
  <2>2. Chosen = current /\ current # cpu
    BY <1>1, <1>2, <1>3, <1>5, <2>1, ChosenDef, ChosenValue DEF Stage
  <2>3. stk'[current] = stk[current]
    BY <1>3, <2>1, <2>2, IInvTypes, NewStack
  <2>4. /\ Calm(Tail(stk[current])) /\ Head(stk[current]).pc \notin {"switch", "switch_to"}
        /\ Head(stk[current]) \in Frames
    BY <1>2, <1>3, <2>2 DEF Parked
  <2>5. Chosen' = current
    <3>1. CASE Head(stk[current]).pc \in SwitchPCs
      <4>1. SwitchAt(stk[current], Head(stk[current]))
        BY <1>3, <2>4, <3>1, CalmRest
      <4> QED BY <1>3, <2>1, <2>3, <2>4, <4>1, ChosenDef, ChosenValue
    <3>2. CASE Head(stk[current]).pc \notin SwitchPCs
      <4>1. Calm(stk[current])
        BY <1>3, <2>4, <3>2, CalmRest
      <4> QED BY <1>3, <2>1, <2>3, <4>1, ChosenDef, ChosenValue
    <3> QED BY <3>1, <3>2
  <2>6. Idles
    BY <1>1, <2>2, <2>5 DEF Idles
  <2> QED BY <2>1, <2>6, IdlesQueue
<1> QED BY <1>7, <1>8, <1>9

\* One step, as long as no assertion fails and nobody is woken.
LEMMA NextQueue ==
    ASSUME ShortSwitch, IInv, IInv', SwitchInv, SwitchInv', QueueState, failed' = {},
           pc = "up" => waiters = <<>>, [Next]_vars
    PROVE  QueueState' /\ (Idles \/ RR!RRNext)
<1>1. CASE Execute
  BY <1>1, LockQueue, ScheduleQueue, StagesQueue DEF Execute, LockSteps, RR!RRNext
<1>2. CASE printk
  BY <1>2, LockQueue DEF LockSteps
<1>3. ASSUME NEW t \in Threads, kthread_create(t) PROVE QueueState' /\ RR!RRNext
  <2>1. t \in Proc
    BY DEF Proc
  <2> QED BY <1>3, <2>1, CreateQueue DEF RR!RRNext
<1>4. CASE timer_callback \/ printing_interrupt
  BY <1>4, InterruptQueue
<1>5. CASE UNCHANGED vars
  <2>1. UNCHANGED <<cpu, current, stk, ready, state>>
    BY <1>5 DEF vars, threadVars
  <2>2. Idles
    BY <2>1, ChosenDef DEF Idles
  <2> QED BY <2>1, <2>2, IdlesQueue
<1> QED BY <1>1, <1>2, <1>3, <1>4, <1>5 DEF Next

(***************************************************************************)
(* The theorems                                                            *)
(***************************************************************************)

LEMMA InitQueue == Init => QueueInv /\ RR!RRInit
<1> SUFFICES ASSUME Init PROVE QueueState /\ RR!RRInit
  BY DEF QueueInv
<1>1. /\ stk = [p \in Proc |-> <<At("body")>>] /\ cpu = Idle /\ current = Idle /\ ready = <<>>
      /\ state = [p \in Proc |-> IF p = Idle THEN "RUNNING" ELSE "CREATE"]
  BY DEF Init
<1>2. Idle \in Proc
  BY DEF Proc
<1>3. At("body") \in Frames /\ At("body").pc = "body"
  BY AtType DEF PCs
<1>4. stk[cpu] = <<At("body")>>
  BY <1>1, <1>2
<1>5. stk[cpu] \in Seq(Frames) /\ Calm(stk[cpu])
  BY <1>3, <1>4 DEF Calm, SwitchPCs
<1>6. Chosen = Idle
  BY <1>1, <1>5, ChosenDef, ChosenValue
<1>7. Len(ready) = 0 /\ Distinct(ready) /\ \A p \in Proc : ~InReady(p)
  BY <1>1 DEF Distinct, InReady
<1>8. QueueState
  BY <1>1, <1>2, <1>6, <1>7 DEF QueueState
<1> QED BY <1>1, <1>6, <1>8 DEF RR!RRInit

\* What one step does to the ready list, from the invariants alone.
LEMMA StepQueue ==
    ASSUME ShortSwitch, IInv, IInv', SwitchInv, SwitchInv', WaitInv, QueueInv, [Next]_vars,
           failed' = {}
    PROVE  QueueState' /\ (Idles \/ RR!RRNext)
<1>1. failed = {}
  BY FailedStays
<1>2. QueueState /\ (pc = "up" => waiters = <<>>)
  BY <1>1, NobodyToWake DEF QueueInv, WaitInv, IInv
<1> QED BY <1>2, NextQueue

LEMMA QueueInvariance == ShortSwitch => (Spec => []QueueInv)
<1> SUFFICES ASSUME ShortSwitch PROVE Spec => []QueueInv
  OBVIOUS
<1>1. Init => QueueInv
  BY InitQueue
<1>2. IInv /\ IInv' /\ SwitchInv /\ SwitchInv' /\ WaitInv /\ QueueInv /\ [Next]_vars => QueueInv'
  BY StepQueue DEF QueueInv
<1> QED BY <1>1, <1>2, Invariance, SwitchInvariance, WaitInvariance, PTL DEF Spec

\* Until an assertion fails the ready list holds, once each, all threads but
\* the one that the scheduler has chosen: schedule() loses and duplicates no
\* thread, wherever interrupts land.
THEOREM ReadyExactCorrect == ShortSwitch => (Spec => []ReadyExact)
<1> SUFFICES ASSUME ShortSwitch PROVE Spec => []ReadyExact
  OBVIOUS
<1>1. IInv /\ QueueInv => ReadyExact
  <2> SUFFICES ASSUME IInv, QueueState
               PROVE  /\ IsInjective(ready)
                      /\ ToSet(ready) = {p \in Proc : state[p] # "CREATE"} \ {Chosen}
    BY DEF QueueInv, ReadyExact
  <2>1. ready \in Seq(Proc) /\ DOMAIN ready = 1 .. Len(ready)
    BY DEF IInv, Base, TypeOK
  <2>2. IsInjective(ready)
    BY <2>1 DEF IsInjective, QueueState, Distinct
  <2>3. ToSet(ready) = {p \in Proc : InReady(p)}
    BY <2>1 DEF ToSet, InReady
  <2> QED BY <2>2, <2>3 DEF QueueState
<1> QED BY <1>1, Invariance, QueueInvariance, PTL

\* Kernel implements RoundRobin: creating a thread appends it, a switch takes
\* the front thread and appends the one that ran, and nothing else is
\* visible, however interrupts nest, until an assertion fails.
THEOREM RoundRobinCorrect == ShortSwitch => (Spec => ImplementsRoundRobin)
<1> SUFFICES ASSUME ShortSwitch PROVE Spec => ImplementsRoundRobin
  OBVIOUS
<1>1. Init => RR!RRInit
  BY InitQueue
<1>2. IInv /\ IInv' /\ SwitchInv /\ SwitchInv' /\ WaitInv /\ QueueInv /\ [Next]_vars
          => [failed' = {} => RR!RRNext]_(RR!rrVars)
  BY StepQueue DEF Idles, RR!rrVars
<1> QED BY <1>1, <1>2, Invariance, SwitchInvariance, WaitInvariance, QueueInvariance, PTL
        DEF Spec, ImplementsRoundRobin

(***************************************************************************)
(* Booting (module Boot).  Unless an interrupt prints before init_sched or *)
(* over the lock functions, no assertion fails from the zeroed image on.   *)
(*                                                                         *)
(* The argument follows kern_init.  Until init_sched the CPU runs straight *)
(* through swap_init's one printk, which enters the zeroed lock as if it   *)
(* held it and leaves it free.  Then the invariants of Kernel hold, but    *)
(* for the quantum of IDLE, zero until thread_idle: no timer is registered *)
(* yet and nobody waits, so no schedule() sees it.  The stores of          *)
(* console_init come when the lock is free and change nothing.             *)
(***************************************************************************)

Bodies == [p \in Proc |-> <<At("body")>>]

\* The quanta of the zeroed image: the memory of a later thread is set up
\* with its priority, the boot thread has none.
BootTicks == [p \in Proc |-> IF p = Idle THEN 0 ELSE Prio[p]]

\* The zeroed image, apart from the place of the boot code and the lock.
Zeroed ==
    /\ cpu = Idle /\ current = NULL /\ ready = <<>>
    /\ state = [p \in Proc |-> "CREATE"]
    /\ ticks = BootTicks
    /\ holder = NULL /\ waiters = <<>>
    /\ intr \in BOOLEAN
    /\ burst = 0 /\ failed = {}

\* swap_init's printk at place l.
FirstPrint(l) ==
    /\ stk = [p \in Proc |-> IF p = Idle THEN <<At(l), At("body")>> ELSE <<At("body")>>]
    /\ value = 0
    /\ \/ l \in {"req", "up"} /\ repeat = 0
       \/ l \in {"crit", "rel", "relcnt", "relown", "relrep"} /\ repeat = 1

Early ==
    \/ phase = "init_mm" /\ ~intr /\ stk = Bodies /\ repeat = 0 /\ value = 0
    \/ phase = "swap_init" /\ stk = Bodies /\ repeat = 0 /\ value = 0
    \/ phase = "init_sched" /\ stk = Bodies /\ repeat = 0 /\ value = 1
    \/ phase = "init_sched" /\ \E l \in PCs : FirstPrint(l)

EarlyPhases == {"init_mm", "swap_init", "init_sched"}

BootState ==
    \/ phase \in EarlyPhases /\ Zeroed /\ Early
    \/ phase = "thread_idle" /\ Base /\ LockInv /\ NoSched /\ ticks = BootTicks
    \/ phase \in Phases \ (EarlyPhases \cup {"thread_idle"}) /\ IInv /\ LockInv

BootInv ==
    /\ hit \in BOOLEAN
    /\ phase \in EarlyPhases \cup {"thread_idle"} => "timer" \notin handlers
    /\ ~early /\ ~hit => BootState

\* A handler's mark of a print over the lock functions stays.
LEMMA HitStays == ASSUME [Next]_vars, ~hit' PROVE ~hit
  BY Zenon DEF Next, Execute, vars, threadVars, lockVars, req_lock, sema_down, thread_block_end,
     set_holder, check_repeat, set_repeat, console_done, check_holder, release_repeat,
     clear_holder, clear_repeat, sema_up, schedule, switch_thread, switch_to, switch_end, iret,
     panic, printk, kthread_create, timer_callback, printing_interrupt

\* The steps of booting, seen from Kernel.
LEMMA BootSteps ==
    ASSUME [BootNext]_allVars
    PROVE  \/ kern_init
           \/ [Next]_vars /\ UNCHANGED bootVars /\ (phase = "Test" \/ Execute \/ UNCHANGED vars)
           \/ [Next]_vars /\ UNCHANGED bootVars /\ "timer" \in handlers
           \/ printing_interrupt /\ Next /\ BootPrint
  BY Zenon DEF BootNext, allVars, Running, BootTimer, BootPrint, BootExecute, ExecuteAt, Next

\* The threads that have not run stand at the start of their functions.
LEMMA BodiesFacts ==
    ASSUME stk = Bodies
    PROVE  StackOK /\ SchedTop /\ ArgOK /\ NoSched /\ \A p \in Proc : NoLock(stk[p])
<1>1. At("body") \in Frames /\ At("body").pc = "body"
  BY AtType DEF PCs
<1>2. StackOK
  BY <1>1 DEF StackOK, Bodies
<1>3. \A p \in Proc : \A i \in 1 .. Len(stk[p]) : stk[p][i].pc = "body"
  BY <1>1 DEF Bodies
<1>4. "body" \notin LockPCs
  BY DEF LockPCs
<1> QED BY <1>2, <1>3, <1>4 DEF SchedTop, ArgOK, NoSched, NoLock

LEMMA BodiesTop == ASSUME stk = Bodies, cpu = Idle PROVE pc = "body"
<1>1. Idle \in Proc /\ At("body").pc = "body"
  BY AtType DEF Proc, PCs
<1>2. stk[cpu] = <<At("body")>>
  BY <1>1 DEF Bodies
<1> QED BY <1>1, <1>2 DEF pc

\* The stacks while the boot code is in one call.
PrintStack(l) == [p \in Proc |-> IF p = Idle THEN <<At(l), At("body")>> ELSE <<At("body")>>]

LEMMA PrintTop ==
    ASSUME NEW l \in PCs, stk = PrintStack(l), cpu = Idle
    PROVE  /\ pc = l
           /\ \A m \in PCs : Goto(m) => stk' = PrintStack(m)
           /\ Return => stk' = Bodies
<1>1. Idle \in Proc /\ At(l).pc = l
  BY AtType DEF Proc
<1>2. stk[cpu] = <<At(l), At("body")>> /\ Head(stk[cpu]) = At(l) /\ Tail(stk[cpu]) = <<At("body")>>
  BY <1>1 DEF PrintStack
<1>3. ASSUME NEW m \in PCs, Goto(m) PROVE stk' = PrintStack(m)
  <2>1. stk' = [stk EXCEPT ![Idle] = <<At(m)>> \o Tail(@)]
    BY <1>3 DEF Goto, Become
  <2>2. <<At(m)>> \o Tail(stk[Idle]) = <<At(m), At("body")>>
    <3>1. At(m) \in Frames /\ At("body") \in Frames
      BY AtType DEF PCs
    <3>2. PICK a \in Frames, b \in Frames : a = At(m) /\ b = At("body")
      BY <3>1
    <3>3. <<a>> \o <<b>> = <<a, b>>
      <4>1. /\ <<a>> \o <<b>> \in Seq(Frames) /\ <<a, b>> \in Seq(Frames)
            /\ Len(<<a>> \o <<b>>) = 2 /\ Len(<<a, b>>) = 2
            /\ (<<a>> \o <<b>>)[1] = a /\ (<<a>> \o <<b>>)[2] = b
        OBVIOUS
      <4>2. PICK u \in Seq(Frames), w \in Seq(Frames) : u = <<a>> \o <<b>> /\ w = <<a, b>>
        BY <4>1
      <4>3. Len(u) = Len(w) /\ \A i \in 1 .. Len(u) : u[i] = w[i]
        <5>1. Len(u) = 2 /\ Len(w) = 2 /\ u[1] = a /\ u[2] = b /\ w[1] = a /\ w[2] = b
          BY <4>1, <4>2
        <5> QED BY <5>1
      <4>4. u = w
        BY <4>3, SeqEqual
      <4> QED BY <4>2, <4>4
    <3> QED BY <1>2, <3>2, <3>3
  <2>3. stk' = [stk EXCEPT ![Idle] = <<At(m), At("body")>>]
    BY <2>1, <2>2
  <2> QED BY <1>1, <2>3 DEF PrintStack
<1>4. ASSUME Return PROVE stk' = Bodies
  <2>1. stk' = [stk EXCEPT ![Idle] = <<>> \o Tail(@)]
    BY <1>4 DEF Return, Become
  <2>2. <<>> \o Tail(stk[Idle]) = <<At("body")>>
    BY <1>2
  <2>3. stk' = [stk EXCEPT ![Idle] = <<At("body")>>]
    BY <2>1, <2>2
  <2> QED BY <1>1, <2>3 DEF PrintStack, Bodies
<1> QED BY <1>1, <1>2, <1>3, <1>4 DEF pc

LEMMA CallsPrint == ASSUME stk = Bodies, cpu = Idle, Call("req", "body") PROVE stk' = PrintStack("req")
<1>1. Idle \in Proc
  BY DEF Proc
<1>2. stk[Idle] = <<At("body")>>
  BY <1>1 DEF Bodies
<1>3. stk' = [stk EXCEPT ![Idle] = <<At("req"), At("body")>> \o Tail(@)]
  BY DEF Call, Become
<1>4. <<At("req"), At("body")>> \o Tail(stk[Idle]) = <<At("req"), At("body")>>
  BY <1>2
<1>5. stk' = [stk EXCEPT ![Idle] = <<At("req"), At("body")>>]
  BY <1>3, <1>4
<1> QED BY <1>1, <1>5 DEF PrintStack, Bodies

\* The image that the loader leaves.
LEMMA InitBootInv == BootInit => BootInv
<1> SUFFICES ASSUME BootInit PROVE BootInv
  OBVIOUS
<1>1. Zeroed /\ stk = Bodies /\ ~intr
  BY DEF BootInit, Zeroed, BootTicks, Bodies
<1>2. phase = "init_mm" /\ handlers = {} /\ repeat = 0 /\ value = 0 /\ hit = FALSE
  BY DEF BootInit
<1> QED BY <1>1, <1>2 DEF BootInv, BootState, Early, EarlyPhases

\* swap_init's printk, from the zeroed lock to the free one.
LEMMA FirstPrintStep ==
    ASSUME Zeroed, NEW l \in PCs, FirstPrint(l), Execute
    PROVE  Zeroed' /\ ((stk' = Bodies /\ repeat' = 0 /\ value' = 1) \/ \E m \in PCs : FirstPrint(m)')
<1>1. stk = PrintStack(l) /\ cpu = Idle /\ current = NULL /\ holder = NULL /\ waiters = <<>>
  BY DEF FirstPrint, PrintStack, Zeroed
<1>2. /\ pc = l /\ (\A m \in PCs : Goto(m) => stk' = PrintStack(m)) /\ (Return => stk' = Bodies)
  BY <1>1, PrintTop
<1>3. {"req", "crit", "rel", "relcnt", "relown", "relrep", "up"} \subseteq PCs
  BY DEF PCs
<1>4. ASSUME NEW m \in {"crit", "rel", "relcnt", "relown", "relrep", "up"}, Goto(m), value' = 0,
             \/ m = "up" /\ repeat' = 0
             \/ m # "up" /\ repeat' = 1
      PROVE  \E k \in PCs : FirstPrint(k)'
  <2>1. m \in PCs /\ stk' = PrintStack(m)
    BY <1>2, <1>3, <1>4
  <2>2. FirstPrint(m)'
    BY <1>4, <2>1 DEF FirstPrint, PrintStack
  <2> QED BY <2>1, <2>2
<1>5. /\ value = 0
      /\ \/ l \in {"req", "up"} /\ repeat = 0
         \/ l \in {"crit", "rel", "relcnt", "relown", "relrep"} /\ repeat = 1
  BY DEF FirstPrint
<1>6. CASE l = "req"
  <2>1. req_lock
    BY <1>2, <1>6, Zenon DEF Execute, req_lock, sema_down, thread_block_end,
       set_holder, check_repeat, set_repeat, console_done, check_holder, release_repeat,
       clear_holder, clear_repeat, sema_up, schedule, switch_thread, switch_to, switch_end, iret,
       panic
  <2>2. /\ Goto("crit") /\ repeat' = repeat + 1
        /\ UNCHANGED <<cpu, current, ready, state, ticks, holder, value, waiters, intr, burst, failed>>
    BY <1>1, <2>1, Zenon DEF req_lock, threadVars
  <2>3. \E k \in PCs : FirstPrint(k)'
    BY <1>4, <1>5, <1>6, <2>2
  <2> QED BY <2>2, <2>3 DEF Zeroed
<1>7. CASE l = "crit"
  <2>1. console_done
    BY <1>2, <1>7, Zenon DEF Execute, req_lock, sema_down, thread_block_end,
       set_holder, check_repeat, set_repeat, console_done, check_holder, release_repeat,
       clear_holder, clear_repeat, sema_up, schedule, switch_thread, switch_to, switch_end, iret,
       panic
  <2>2. /\ Goto("rel") /\ UNCHANGED repeat
        /\ UNCHANGED <<cpu, current, ready, state, ticks, holder, value, waiters, intr, burst, failed>>
    BY <2>1, Zenon DEF console_done, threadVars, lockVars
  <2>3. \E k \in PCs : FirstPrint(k)'
    BY <1>4, <1>5, <1>7, <2>2
  <2> QED BY <2>2, <2>3 DEF Zeroed
<1>8. CASE l = "rel"
  <2>1. check_holder
    BY <1>2, <1>8, Zenon DEF Execute, req_lock, sema_down, thread_block_end,
       set_holder, check_repeat, set_repeat, console_done, check_holder, release_repeat,
       clear_holder, clear_repeat, sema_up, schedule, switch_thread, switch_to, switch_end, iret,
       panic
  <2>2. /\ Goto("relcnt") /\ UNCHANGED repeat
        /\ UNCHANGED <<cpu, current, ready, state, ticks, holder, value, waiters, intr, burst, failed>>
    BY <1>1, <2>1, Zenon DEF check_holder, threadVars, lockVars, Ok
  <2>3. \E k \in PCs : FirstPrint(k)'
    BY <1>4, <1>5, <1>8, <2>2
  <2> QED BY <2>2, <2>3 DEF Zeroed
<1>9. CASE l = "relcnt"
  <2>1. release_repeat
    BY <1>2, <1>9, Zenon DEF Execute, req_lock, sema_down, thread_block_end,
       set_holder, check_repeat, set_repeat, console_done, check_holder, release_repeat,
       clear_holder, clear_repeat, sema_up, schedule, switch_thread, switch_to, switch_end, iret,
       panic
  <2>2. repeat = 1 /\ ~(repeat > 1)
    BY <1>5, <1>9
  <2>3. /\ Goto("relown") /\ UNCHANGED repeat
        /\ UNCHANGED <<cpu, current, ready, state, ticks, holder, value, waiters, intr, burst, failed>>
    BY <2>1, <2>2, Zenon DEF release_repeat, threadVars, Ok
  <2>4. \E k \in PCs : FirstPrint(k)'
    BY <1>4, <1>5, <1>9, <2>3
  <2> QED BY <2>3, <2>4 DEF Zeroed
<1>10. CASE l = "relown"
  <2>1. clear_holder
    BY <1>2, <1>10, Zenon DEF Execute, req_lock, sema_down, thread_block_end,
       set_holder, check_repeat, set_repeat, console_done, check_holder, release_repeat,
       clear_holder, clear_repeat, sema_up, schedule, switch_thread, switch_to, switch_end, iret,
       panic
  <2>2. /\ Goto("relrep") /\ UNCHANGED repeat /\ holder' = NULL
        /\ UNCHANGED <<cpu, current, ready, state, ticks, value, waiters, intr, burst, failed>>
    BY <2>1, Zenon DEF clear_holder, threadVars
  <2>3. \E k \in PCs : FirstPrint(k)'
    BY <1>4, <1>5, <1>10, <2>2
  <2> QED BY <2>2, <2>3 DEF Zeroed
<1>11. CASE l = "relrep"
  <2>1. clear_repeat
    BY <1>2, <1>11, Zenon DEF Execute, req_lock, sema_down, thread_block_end,
       set_holder, check_repeat, set_repeat, console_done, check_holder, release_repeat,
       clear_holder, clear_repeat, sema_up, schedule, switch_thread, switch_to, switch_end, iret,
       panic
  <2>2. /\ Goto("up") /\ repeat' = 0
        /\ UNCHANGED <<cpu, current, ready, state, ticks, holder, value, waiters, intr, burst, failed>>
    BY <2>1, Zenon DEF clear_repeat, threadVars
  <2>3. \E k \in PCs : FirstPrint(k)'
    BY <1>4, <1>5, <1>11, <2>2
  <2> QED BY <2>2, <2>3 DEF Zeroed
<1>12. CASE l = "up"
  <2>1. sema_up
    BY <1>2, <1>12, Zenon DEF Execute, req_lock, sema_down, thread_block_end,
       set_holder, check_repeat, set_repeat, console_done, check_holder, release_repeat,
       clear_holder, clear_repeat, sema_up, schedule, switch_thread, switch_to, switch_end, iret,
       panic
  <2>2. /\ value' = (value + 1) % 256 /\ intr' = TRUE
        /\ (IF value' = 1 THEN Ok(Return) ELSE Fail("after V sema must be 1"))
        /\ UNCHANGED <<cpu, current, ticks, holder, repeat, burst, waiters, ready, state>>
    BY <1>1, <1>5, <2>1, Zenon DEF sema_up
  <2>3. value' = 1
    BY <1>5, <2>2
  <2>4. stk' = Bodies /\ UNCHANGED failed
    BY <1>2, <2>2, <2>3 DEF Ok
  <2> QED BY <1>5, <1>12, <2>2, <2>3, <2>4 DEF Zeroed
<1> QED BY <1>5, <1>6, <1>7, <1>8, <1>9, <1>10, <1>11, <1>12

\* init_sched, when the first printk has left the lock free: what Kernel
\* asks of a state holds but for the quantum of IDLE.
LEMMA InitSched ==
    ASSUME Zeroed, stk = Bodies, repeat = 0, value = 1, hit \in BOOLEAN, init_sched
    PROVE  /\ phase' = "thread_idle" /\ Base' /\ NoSched' /\ lock_init' /\ ticks' = BootTicks
           /\ UNCHANGED <<cpu, stk, failed>>
<1>1. /\ phase' = "thread_idle" /\ current' = Idle
      /\ UNCHANGED <<cpu, ready, state, ticks, holder, repeat, value, waiters, burst,
                     failed, intr, stk, hit>>
  BY Zenon DEF init_sched, Step, lockVars
<1>2. lock_init'
  BY <1>1 DEF lock_init, Zeroed
<1>3. StackOK /\ SchedTop /\ ArgOK /\ NoSched
  BY BodiesFacts
<1>4. StackOK' /\ SchedTop' /\ ArgOK' /\ NoSched'
  BY <1>1, <1>3 DEF StackOK, SchedTop, ArgOK, NoSched
<1>5. Idle \in Proc /\ Prio \in [Proc -> 1 .. 255]
  BY KernelAssumption DEF Proc
<1>6. ticks' = BootTicks
  BY <1>1 DEF Zeroed
<1>7. TicksOK'
  <2>1. \A p \in Proc : BootTicks[p] \in 0 .. 255 /\ BootTicks[p] <= Prio[p]
    BY <1>5 DEF BootTicks
  <2>2. BootTicks \in [Proc -> 0 .. 255]
    BY <2>1 DEF BootTicks
  <2> QED BY <1>6, <2>1, <2>2 DEF TicksOK
<1>8. RestOK'
  <2>1. cpu' \in Proc /\ current' \in Proc /\ intr' \in BOOLEAN /\ hit' \in BOOLEAN
        /\ failed' \subseteq Messages /\ holder' \in Proc \cup {NULL}
    BY <1>1, <1>5, Zenon DEF Zeroed
  <2>2. state' \in [Proc -> States]
    BY <1>1 DEF Zeroed, States
  <2>3. ready' \in Seq(Proc) /\ waiters' \in Seq(Proc)
    BY <1>1, EmptySeq DEF Zeroed
  <2>4. repeat' \in Nat /\ value' \in 0 .. 255 /\ burst' \in 0 .. MaxBurst
    BY <1>1, <1>2, KernelAssumption DEF lock_init, Zeroed
  <2> QED BY <2>1, <2>2, <2>3, <2>4 DEF RestOK
<1>9. Base'
  BY <1>4, <1>7, <1>8 DEF Base, TypeOK, StackOK, TicksOK, RestOK
<1> QED BY <1>1, <1>2, <1>4, <1>6, <1>9

\* Before init_sched there is no current thread: a handler that prints is
\* early, and no timer is registered.
LEMMA EarlyStep ==
    ASSUME BootInv, phase \in EarlyPhases, Zeroed, Early, ~hit, ~early', [BootNext]_allVars
    PROVE  BootState'
<1>1. "timer" \notin handlers /\ hit \in BOOLEAN
  BY DEF BootInv
<1>2. ~BootPrint
  BY DEF BootPrint, Zeroed
<1>3. CASE kern_init
  <2>1. cpu = Idle /\ pc = "body"
    BY <1>3, Zenon DEF kern_init, init_mm, swap_init, init_sched, thread_idle, init_timer,
       init_kbd, enable, console_init, console_clear, Step
  <2>2. stk = Bodies /\ repeat = 0
    <3>1. ASSUME NEW l \in PCs, FirstPrint(l) PROVE FALSE
      <4>1. stk = PrintStack(l) /\ l # "body"
        BY <3>1 DEF FirstPrint, PrintStack
      <4> QED BY <2>1, <4>1, PrintTop
    <3> QED BY <3>1 DEF Early
  <2>3. \/ phase = "init_mm" /\ init_mm
        \/ phase = "swap_init" /\ swap_init
        \/ phase = "init_sched" /\ init_sched
    BY <1>3, Zenon DEF kern_init, init_mm, swap_init, init_sched, thread_idle, init_timer,
       init_kbd, enable, console_init, console_clear, Step, EarlyPhases
  <2>4. CASE phase = "init_mm" /\ init_mm
    <3>1. /\ phase' = "swap_init" /\ intr' = TRUE
          /\ UNCHANGED <<cpu, current, ready, state, ticks, holder, repeat, value, waiters, burst,
                         failed, stk>>
      BY <2>4, Zenon DEF init_mm, Step, lockVars
    <3>2. value = 0
      BY <2>4 DEF Early
    <3> QED BY <2>2, <3>1, <3>2 DEF BootState, EarlyPhases, Early, Zeroed, Bodies
  <2>5. CASE phase = "swap_init" /\ swap_init
    <3>1. /\ phase' = "init_sched" /\ Call("req", "body")
          /\ UNCHANGED <<cpu, current, ready, state, ticks, holder, repeat, value, waiters, burst,
                         failed, intr>>
      BY <2>5, Zenon DEF swap_init, Step, lockVars
    <3>2. value = 0
      BY <2>5 DEF Early
    <3>3. FirstPrint("req")'
      BY <2>1, <2>2, <3>1, <3>2, CallsPrint DEF FirstPrint, PrintStack
    <3>4. "req" \in PCs
      BY DEF PCs
    <3> QED BY <3>1, <3>3, <3>4 DEF BootState, EarlyPhases, Early, Zeroed
  <2>6. CASE phase = "init_sched" /\ init_sched
    <3>1. value = 1
      <4>1. ~\E l \in PCs : FirstPrint(l)
        <5>1. ASSUME NEW l \in PCs, FirstPrint(l) PROVE FALSE
          <6>1. stk = PrintStack(l) /\ l # "body"
            BY <5>1 DEF FirstPrint, PrintStack
          <6> QED BY <2>1, <6>1, PrintTop
        <5> QED BY <5>1
      <4> QED BY <2>6, <4>1 DEF Early
    <3>2. /\ phase' = "thread_idle" /\ Base' /\ NoSched' /\ lock_init' /\ ticks' = BootTicks
          /\ UNCHANGED <<cpu, stk, failed>>
      BY <1>1, <2>2, <2>6, <3>1, InitSched
    <3>3. LockInv'
      <4>1. \A p \in Proc : NoLock(stk'[p])
        BY <2>2, <3>2, BodiesFacts
      <4>2. failed' = {} /\ cpu' \in Proc
        BY <3>2 DEF Zeroed, Proc
      <4> QED BY <3>2, <4>1, <4>2 DEF LockInv, LockState, lock_init
    <3>4. (ticks = BootTicks)'
      BY <3>2 DEF BootTicks
    <3> QED BY <3>2, <3>3, <3>4 DEF BootState
  <2> QED BY <2>3, <2>4, <2>5, <2>6
<1>4. CASE UNCHANGED bootVars /\ UNCHANGED vars
  <2>1. UNCHANGED <<phase, cpu, current, ready, state, ticks, holder, repeat, value, waiters, burst,
                    failed, intr, stk>>
    BY <1>4, Zenon DEF bootVars, vars, threadVars, lockVars
  <2>2. Zeroed' /\ Early'
    BY <2>1 DEF Zeroed, BootTicks, Early, Bodies, FirstPrint
  <2> QED BY <2>1, <2>2 DEF BootState
<1>5. CASE UNCHANGED bootVars /\ Execute
  <2>1. ASSUME stk = Bodies PROVE FALSE
    <3>1. pc = "body"
      BY <2>1, BodiesTop DEF Zeroed
    <3> QED BY <1>5, <3>1, Zenon DEF Execute, req_lock, sema_down, thread_block_end,
       set_holder, check_repeat, set_repeat, console_done, check_holder, release_repeat,
       clear_holder, clear_repeat, sema_up, schedule, switch_thread, switch_to, switch_end, iret,
       panic
  <2>2. phase = "init_sched" /\ \E l \in PCs : FirstPrint(l)
    BY <2>1 DEF Early
  <2>3. Zeroed' /\ ((stk' = Bodies /\ repeat' = 0 /\ value' = 1) \/ \E m \in PCs : FirstPrint(m)')
    BY <1>5, <2>2, FirstPrintStep
  <2>4. phase' = "init_sched"
    BY <1>5, <2>2, Zenon DEF bootVars
  <2>5. Early'
    BY <2>3, <2>4 DEF Early, Bodies
  <2> QED BY <2>3, <2>4, <2>5 DEF BootState, EarlyPhases
<1> QED BY <1>1, <1>2, <1>3, <1>4, <1>5, BootSteps DEF EarlyPhases

\* Between init_sched and thread_idle: IDLE is current with no quantum, and
\* no schedule() is called.
LEMMA NoQuantumStep ==
    ASSUME BootInv, phase = "thread_idle", Base, LockInv, NoSched, ticks = BootTicks,
           ~hit, ~hit', [BootNext]_allVars
    PROVE  BootState'
<1>1. "timer" \notin handlers /\ TypeOK
  BY DEF BootInv, Base
<1>2. StackOK /\ TicksOK /\ RestOK /\ SchedTop /\ ArgOK /\ cpu \in Proc
  BY <1>1, TypeParts DEF Base, RestOK
<1>3. ~Blocking
  <2>1. ASSUME pc \in {"down", "again"} PROVE value = 1
    <3>1. pc \in LockPCs
      BY <2>1 DEF LockPCs
    <3>2. LockAt(pc)
      BY <1>1, <3>1, Inside
    <3> QED BY <2>1, <3>2 DEF LockAt, lock_init
  <2> QED BY <2>1 DEF Blocking
<1>4. pc # "sched"
  <2>1. stk[cpu] \in Seq(Frames) /\ Len(stk[cpu]) > 0
    BY <1>2 DEF StackOK
  <2> QED BY <1>2, <2>1 DEF NoSched, pc
<1>5. ASSUME Kept, [Next]_vars, UNCHANGED <<phase, ticks>> PROVE BootState'
  <2>1. Base' /\ NoSched'
    BY <1>3, <1>5 DEF Kept
  <2>2. LockInv'
    BY <1>1, <1>5, NextLockInv
  <2>3. (ticks = BootTicks)'
    BY <1>5 DEF BootTicks
  <2> QED BY <1>5, <2>1, <2>2, <2>3 DEF BootState
<1>6. CASE kern_init
  <2>1. thread_idle
    BY <1>6, Zenon DEF kern_init, init_mm, swap_init, init_sched, thread_idle, init_timer,
       init_kbd, enable, console_init, console_clear, Step
  <2>2. /\ phase' = "init_timer" /\ state' = [state EXCEPT ![Idle] = "RUNNING"]
        /\ ticks' = [ticks EXCEPT ![Idle] = Prio[Idle]]
        /\ UNCHANGED <<cpu, current, ready, holder, repeat, value, waiters, burst,
                       failed, intr, stk, hit>>
    BY <2>1, Zenon DEF thread_idle, Step, lockVars
  <2>3. Idle \in Proc /\ Prio \in [Proc -> 1 .. 255]
    BY KernelAssumption DEF Proc
  <2>4. \A p \in Proc : ticks'[p] = Prio[p]
    BY <2>2, <2>3 DEF BootTicks
  <2>5. TicksOK'
    <3>1. ticks' \in [Proc -> 0 .. 255]
      <4>1. PICK n \in 0 .. 255 : n = Prio[Idle]
        BY <2>3
      <4>2. ticks \in [Proc -> 0 .. 255] /\ ticks' = [ticks EXCEPT ![Idle] = n]
        BY <1>2, <2>2, <4>1 DEF TicksOK
      <4> QED BY <4>2
    <3> QED BY <2>3, <2>4, <3>1 DEF TicksOK
  <2>6. QuantumLeft'
    <3>1. \A p \in Proc : ticks'[p] # 0
      BY <2>3, <2>4
    <3> QED BY <3>1 DEF QuantumLeft
  <2>7. state' \in [Proc -> States]
    BY <1>2, <2>2 DEF RestOK, States
  <2>8. RestOK'
    BY <1>2, <2>2, <2>7 DEF RestOK
  <2>9. StackOK' /\ SchedTop' /\ ArgOK'
    BY <1>2, <2>2 DEF StackOK, SchedTop, ArgOK
  <2>10. IInv'
    BY <2>5, <2>6, <2>8, <2>9 DEF IInv, Base, TypeOK, StackOK, TicksOK, RestOK
  <2>11. LockInv'
    BY <2>2 DEF LockInv, LockState, LockAt, lock_init
  <2> QED BY <2>2, <2>10, <2>11 DEF BootState, Phases, EarlyPhases
<1>7. CASE [Next]_vars /\ UNCHANGED bootVars /\ Execute
  <2>1. UNCHANGED ticks
    BY <1>4, <1>7, Zenon DEF Execute, req_lock, sema_down, thread_block_end,
       set_holder, check_repeat, set_repeat, console_done, check_holder, release_repeat,
       clear_holder, clear_repeat, sema_up, schedule, switch_thread, switch_to, switch_end, iret,
       panic, threadVars
  <2>2. ~schedule
    BY <1>4 DEF schedule
  <2>3. Kept
    BY <1>7, <2>2, ReqLockIInv, SemaDownIInv, LockStepsIInv, CheckStepsIInv, SemaUpIInv,
       SwitchIInv, IretPanicIInv DEF Execute
  <2>4. UNCHANGED phase
    BY <1>7, Zenon DEF bootVars
  <2> QED BY <1>5, <1>7, <2>1, <2>3, <2>4
<1>8. CASE UNCHANGED bootVars /\ UNCHANGED vars
  <2>1. UNCHANGED <<phase, cpu, current, ready, state, ticks, holder, repeat, value, waiters, burst,
                    failed, intr, stk, hit>>
    BY <1>8, Zenon DEF bootVars, vars, threadVars, lockVars
  <2>2. Base' /\ NoSched' /\ LockInv' /\ (ticks = BootTicks)'
    BY <2>1 DEF Base, TypeOK, SchedTop, ArgOK, NoSched, LockInv, LockState, LockAt, lock_init,
       BootTicks
  <2> QED BY <2>1, <2>2 DEF BootState
<1>9. CASE printing_interrupt /\ Next /\ BootPrint
  <2>1. UNCHANGED <<phase, ticks>>
    BY <1>9, Zenon DEF BootPrint, printing_interrupt, threadVars
  <2> QED BY <1>5, <1>9, <2>1, PrintingIInv
<1> QED BY <1>1, <1>6, <1>7, <1>8, <1>9, BootSteps

\* From init_timer on the invariants of Kernel hold: console_init writes what
\* is there already.
LEMMA LaterStep ==
    ASSUME phase \in Phases \ (EarlyPhases \cup {"thread_idle"}), IInv, LockInv,
           ~hit, ~hit', [BootNext]_allVars
    PROVE  BootState'
<1>1. TypeOK /\ Base
  BY DEF IInv, Base
<1>2. ASSUME IInv', LockInv', UNCHANGED phase PROVE BootState'
  BY <1>2 DEF BootState, Phases, EarlyPhases
<1>3. CASE [Next]_vars /\ UNCHANGED bootVars
  <2>1. IInv' /\ LockInv' /\ UNCHANGED phase
    BY <1>1, <1>3, NextIInv, NextLockInv DEF bootVars
  <2> QED BY <1>2, <2>1
<1>4. CASE Next /\ BootPrint
  <2>1. IInv' /\ LockInv' /\ UNCHANGED phase
    BY <1>1, <1>4, NextIInv, NextLockInv DEF BootPrint
  <2> QED BY <1>2, <2>1
<1>5. CASE kern_init
  <2>1. cpu = Idle /\ pc = "body"
    BY <1>5, Zenon DEF kern_init, init_mm, swap_init, init_sched, thread_idle, init_timer,
       init_kbd, enable, console_init, console_clear, Step
  <2>2. lock_init
    <3>1. pc \notin LockPCs /\ pc \notin {"sched", "iret"}
      BY <2>1 DEF LockPCs
    <3> QED BY <1>1, <3>1, Outside
  <2>3. phase' \in Phases \ (EarlyPhases \cup {"thread_idle"})
    <3>1. \/ phase' \in {"init_kbd", "sti", "holder", "repeat", "value", "waiters",
                         "console_clear", "Test"}
          \/ phase \in {"init_mm", "swap_init", "init_sched", "thread_idle"}
      BY <1>5, Zenon DEF kern_init, init_mm, swap_init, init_sched, thread_idle, init_timer,
         init_kbd, enable, console_init, console_clear, Step
    <3> QED BY <3>1 DEF Phases, EarlyPhases
  <2>4. /\ UNCHANGED <<cpu, current, ready, state, ticks, burst, failed, hit, stk>>
        /\ UNCHANGED <<holder, repeat, value, waiters>>
        /\ intr' = intr \/ intr' = TRUE
    <3>1. phase \notin {"init_mm", "swap_init", "init_sched", "thread_idle"}
      BY DEF EarlyPhases
    <3>2. holder = NULL /\ repeat = 0 /\ value = 1 /\ waiters = <<>>
      BY <2>2 DEF lock_init
    <3>3. init_timer \/ init_kbd \/ enable \/ console_init \/ console_clear
      BY <1>5, <3>1, Zenon DEF kern_init, init_mm, swap_init, init_sched, thread_idle, Step
    <3> QED BY <3>2, <3>3, Zenon DEF init_timer, init_kbd, enable, console_init, console_clear,
               Step, lockVars
  <2>5. NoSched
    <3>1. StackOK /\ SchedTop /\ cpu \in Proc
      BY <1>1, TypeParts DEF Base, RestOK
    <3>2. stk[cpu] \in Seq(Frames) /\ Len(stk[cpu]) > 0
      BY <3>1 DEF StackOK
    <3>3. stk[cpu][1].pc = "body"
      BY <2>1, <3>2 DEF pc
    <3> QED BY <3>1, <3>3 DEF NoSched, SchedTop
  <2>6. SchedTop'
    BY <2>4, <2>5 DEF NoSched, SchedTop
  <2>7. TypeOK'
    <3>1. intr' \in BOOLEAN
      BY <1>1, <2>4, Zenon DEF TypeOK
    <3> QED BY <1>1, <2>4, <3>1 DEF TypeOK
  <2>8. ArgOK' /\ QuantumLeft'
    BY <1>1, <2>4 DEF IInv, Base, ArgOK, QuantumLeft
  <2>9. LockInv'
    BY <2>4 DEF LockInv, LockState, LockAt, lock_init
  <2> QED BY <2>3, <2>6, <2>7, <2>8, <2>9 DEF BootState, IInv, Base
<1> QED BY <1>3, <1>4, <1>5, BootSteps

\* No timer handler before init_timer.
LEMMA HandlersStep ==
    ASSUME BootInv, [BootNext]_allVars,
           phase' \in EarlyPhases \cup {"thread_idle"}
    PROVE  "timer" \notin handlers'
<1>1. CASE kern_init
  <2>1. \/ handlers' = {"pgfault"}
        \/ phase \in {"swap_init", "init_sched"} /\ UNCHANGED handlers
        \/ phase' \in {"init_timer", "init_kbd", "sti", "holder", "repeat", "value", "waiters",
                       "console_clear", "Test"}
    BY <1>1, Zenon DEF kern_init, init_mm, swap_init, init_sched, thread_idle, init_timer,
       init_kbd, enable, console_init, console_clear, Step
  <2> QED BY <2>1 DEF BootInv, EarlyPhases
<1>2. CASE UNCHANGED <<phase, handlers>>
  BY <1>2 DEF BootInv
<1> QED BY <1>1, <1>2, BootSteps DEF bootVars, BootPrint

\* Every step of booting keeps the invariant.
LEMMA NextBootInv == BootInv /\ [BootNext]_allVars => BootInv'
<1> SUFFICES ASSUME BootInv, [BootNext]_allVars PROVE BootInv'
  OBVIOUS
<1>1. hit' \in BOOLEAN
  <2>1. \/ hit' = hit \/ hit' \in BOOLEAN
    BY Zenon DEF BootNext, kern_init, init_mm, swap_init, init_sched, thread_idle, init_timer,
       init_kbd, enable, console_init, console_clear, Step, Running, BootTimer, BootPrint,
       BootExecute, ExecuteAt, allVars, Execute, vars, threadVars, lockVars, req_lock, sema_down,
       thread_block_end, set_holder, check_repeat, set_repeat, console_done, check_holder,
       release_repeat, clear_holder, clear_repeat, sema_up, schedule, switch_thread, switch_to,
       switch_end, iret, panic, printk, kthread_create, timer_callback, printing_interrupt
  <2> QED BY <2>1 DEF BootInv
<1>2. phase' \in EarlyPhases \cup {"thread_idle"} => "timer" \notin handlers'
  BY HandlersStep
<1>3. ASSUME ~early', ~hit' PROVE BootState'
  <2>1. ~early
    <3>1. CASE kern_init
      BY <1>3, <3>1, Zenon DEF kern_init, init_mm, swap_init, init_sched, thread_idle, init_timer,
         init_kbd, enable, console_init, console_clear, Step
    <3>2. CASE UNCHANGED bootVars \/ BootPrint
      BY <1>3, <3>2, Zenon DEF bootVars, BootPrint
    <3> QED BY <3>1, <3>2, BootSteps
  <2>2. ~hit
    <3>1. CASE kern_init
      BY <1>3, <3>1, Zenon DEF kern_init, init_mm, swap_init, init_sched, thread_idle, init_timer,
         init_kbd, enable, console_init, console_clear, Step
    <3>2. CASE [Next]_vars
      BY <1>3, <3>2, HitStays
    <3> QED BY <3>1, <3>2, BootSteps
  <2>3. BootState
    BY <2>1, <2>2 DEF BootInv
  <2> QED BY <1>3, <2>2, <2>3, EarlyStep, NoQuantumStep, LaterStep DEF BootState
<1> QED BY <1>1, <1>2, <1>3 DEF BootInv

\* Booting, from the zeroed image through the re-initialisation of the lock
\* under live handlers to the running threads, fails no assertion unless an
\* interrupt printed before there was a current thread or over the lock.
THEOREM BootAssertionsHold == BootSpec => []FailsOnlyIfEarlyOrHit
<1>1. BootInit => BootInv
  BY InitBootInv
<1>2. BootInv /\ [BootNext]_allVars => BootInv'
  BY NextBootInv
<1>3. BootInv => FailsOnlyIfEarlyOrHit
  <2> SUFFICES ASSUME BootInv, ~early, ~hit PROVE failed = {}
    BY DEF FailsOnlyIfEarlyOrHit
  <2>1. BootState
    BY DEF BootInv
  <2> QED BY <2>1 DEF BootState, Zeroed, LockInv
<1> QED BY <1>1, <1>2, <1>3, PTL DEF BootSpec

(***************************************************************************)
(* Where the boot ends.  The boot code is alone: nothing is in the ready   *)
(* list, so no schedule() switches, and all frames are on its own stack.   *)
(***************************************************************************)

\* Where frames above the boot code stand, until an assertion fails.
SoloPCs == PCs \ (SwitchPCs \cup PanicPCs \cup {"body", "upinc"})

\* The frames that an entry in the repeat count may stand for.
Entering   == Counted \cup {"relrep"}
Entered(s) == {d \in 1 .. Len(s) : PcAt(s, d) \in Entering}

\* A frame that enables interrupts again.
Masked(s) == \E d \in 1 .. Len(s) : PcAt(s, d) \in {"iret", "blocked"}

Solo(s) == \A d \in 2 .. Len(s) : PcAt(s, d) \in SoloPCs

Alone ==
    /\ cpu = Idle /\ ready = <<>> /\ StackOK
    /\ \A p \in Threads : stk[p] = <<At("body")>>
    /\ stk[Idle][Len(stk[Idle])] = At("body") /\ Solo(stk[Idle])
    /\ repeat \in Nat /\ repeat <= Cardinality(Entered(stk[Idle]))
    /\ intr \in BOOLEAN /\ (phase # "init_mm" /\ ~intr => Masked(stk[Idle]))

\* What a step of the boot code and of its handlers does to the stack and to
\* the count of entries,
SoloMove(t, u) ==
    LET top == PcAt(t, Len(t)) IN
    \/ \E l \in SoloPCs : Swap(t, u, l) /\ UNCHANGED repeat /\ (top \in Entering => l \in Entering)
    \/ Swap(t, u, "up") /\ repeat' = 0
    \/ Swap(t, u, "crit") /\ top \notin Entering /\ repeat' \in Nat /\ repeat' <= repeat + 1
    \/ Pop(t, u) /\ top = "relcnt" /\ repeat > 1 /\ repeat' = repeat - 1
    \/ Pop(t, u) /\ top \notin Entering /\ UNCHANGED repeat
    \/ Two(t, u, "sched", "blocked") /\ top \notin Entering /\ UNCHANGED repeat
    \/ \E f \in {"sched", "req"} : Over(t, u, f) /\ UNCHANGED repeat

\* and to the interrupt flag.
MaskMove(t, u) ==
    \/ intr' = TRUE
    \/ intr' = FALSE /\ (Two(t, u, "sched", "blocked") \/ \E f \in {"sched", "req"} : Over(t, u, f))
    \/ UNCHANGED intr /\ PcAt(t, Len(t)) \notin {"iret", "blocked"}

LEMMA SoloAdds ==
    ASSUME NEW t, NEW u, SoloMove(t, u)
    PROVE  Adds(t, u, SoloPCs)
<1>1. {"up", "crit", "sched", "blocked", "req"} \subseteq SoloPCs
  BY DEF SoloPCs, PCs, SwitchPCs, PanicPCs
<1> QED BY <1>1 DEF SoloMove, Adds

LEMMA SoloPlaces ==
    ASSUME NEW t, NEW u, Len(t) \in Nat, Len(t) > 0, Solo(t), SoloMove(t, u), Keeps(t, u, 1)
    PROVE  Len(u) \in Nat /\ Len(u) > 0 /\ Solo(u)
<1>1. "iret" \in SoloPCs
  BY DEF SoloPCs, PCs, SwitchPCs, PanicPCs
<1>2. 1 \in 0 .. Len(t) /\ \A d \in 1 + 1 .. Len(t) : PcAt(t, d) \in SoloPCs
  BY DEF Solo
<1>3. /\ 1 <= Len(u) /\ Len(u) \in Nat
      /\ \A d \in 1 + 1 .. Len(u) : PcAt(u, d) \in SoloPCs
  BY <1>1, <1>2, SoloAdds, RangeStep
<1> QED BY <1>3 DEF Solo

LEMMA EnteredFinite ==
    ASSUME NEW s, Len(s) \in Nat
    PROVE  /\ IsFiniteSet(Entered(s)) /\ Cardinality(Entered(s)) \in Nat
           /\ Entered(s) \subseteq 1 .. Len(s)
<1>1. IsFiniteSet(1 .. Len(s)) /\ Entered(s) \subseteq 1 .. Len(s)
  BY FS_Interval DEF Entered
<1>2. IsFiniteSet(Entered(s))
  BY <1>1, FS_Subset
<1> QED BY <1>1, <1>2, FS_CardinalityType

\* The count of entries never exceeds the frames that may have entered.
LEMMA SoloCount ==
    ASSUME NEW t, NEW u, Len(t) \in Nat, Len(t) > 0, Len(u) \in Nat, SoloMove(t, u),
           repeat \in Nat, repeat <= Cardinality(Entered(t))
    PROVE  repeat' \in Nat /\ repeat' <= Cardinality(Entered(u))
<1> DEFINE E == Entered(t)
           F == Entered(u)
           n == Len(t)
<1>1. IsFiniteSet(E) /\ Cardinality(E) \in Nat /\ E \subseteq 1 .. n
  BY EnteredFinite
<1>2. IsFiniteSet(F) /\ Cardinality(F) \in Nat
  BY EnteredFinite
<1>0. PICK i \in Nat, j \in Nat : i = Cardinality(E) /\ j = Cardinality(F) /\ repeat <= i
  BY <1>1, <1>2
<1>3. ASSUME E \subseteq F, UNCHANGED repeat PROVE repeat' \in Nat /\ repeat' <= Cardinality(F)
  <2>1. Cardinality(E) <= Cardinality(F)
    BY <1>2, <1>3, FS_Subset
  <2>2. i <= j
    BY <1>0, <2>1
  <2> QED BY <1>0, <1>3, <2>2
<1>4. ASSUME NEW l \in SoloPCs, Swap(t, u, l), UNCHANGED repeat,
             PcAt(t, n) \in Entering => l \in Entering
      PROVE  repeat' \in Nat /\ repeat' <= Cardinality(F)
  <2>1. E \subseteq F
    BY <1>4 DEF Entered, Swap, Under
  <2> QED BY <1>3, <1>4, <2>1
<1>5. CASE Swap(t, u, "up") /\ repeat' = 0
  <2>1. repeat' \in Nat /\ repeat' <= j
    BY <1>5
  <2> QED BY <1>0, <2>1
<1>6. CASE Swap(t, u, "crit") /\ PcAt(t, n) \notin Entering /\ repeat' \in Nat /\ repeat' <= repeat + 1
  <2>1. "crit" \in Entering
    BY DEF Entering, Counted
  <2>2. n \in F /\ n \notin E /\ E \cup {n} \subseteq F
    BY <1>6, <2>1 DEF Entered, Swap, Under
  <2>3. Cardinality(E \cup {n}) = Cardinality(E) + 1
    BY <1>1, <2>2, FS_AddElement
  <2>4. Cardinality(E \cup {n}) <= Cardinality(F)
    BY <1>2, <2>2, FS_Subset
  <2>5. i + 1 <= j
    BY <1>0, <2>3, <2>4
  <2>6. repeat' \in Nat /\ repeat' <= j
    BY <1>0, <1>6, <2>5
  <2> QED BY <1>0, <2>6
<1>7. CASE Pop(t, u) /\ PcAt(t, n) = "relcnt" /\ repeat > 1 /\ repeat' = repeat - 1
  <2>1. "relcnt" \in Entering
    BY DEF Entering, Counted
  <2>2. n \in E /\ E \ {n} \subseteq F
    BY <1>7, <2>1 DEF Entered, Pop, Under
  <2>3. Cardinality(E \ {n}) = Cardinality(E) - 1
    BY <1>1, <2>2, FS_RemoveElement
  <2>4. Cardinality(E \ {n}) <= Cardinality(F)
    BY <1>2, <2>2, FS_Subset
  <2>5. i - 1 <= j
    BY <1>0, <2>3, <2>4
  <2>6. repeat' \in Nat /\ repeat' <= j
    BY <1>0, <1>7, <2>5
  <2> QED BY <1>0, <2>6
<1>8. CASE Pop(t, u) /\ PcAt(t, n) \notin Entering /\ UNCHANGED repeat
  <2>1. E \subseteq F
    BY <1>8 DEF Entered, Pop, Under
  <2> QED BY <1>3, <1>8, <2>1
<1>9. CASE Two(t, u, "sched", "blocked") /\ PcAt(t, n) \notin Entering /\ UNCHANGED repeat
  <2>1. E \subseteq F
    BY <1>9 DEF Entered, Two, Under
  <2> QED BY <1>3, <1>9, <2>1
<1>10. ASSUME NEW f, Over(t, u, f), UNCHANGED repeat
       PROVE  repeat' \in Nat /\ repeat' <= Cardinality(F)
  <2>1. E \subseteq F
    BY <1>10 DEF Entered, Over, Under
  <2> QED BY <1>3, <1>10, <2>1
<1> QED BY <1>4, <1>5, <1>6, <1>7, <1>8, <1>9, <1>10 DEF SoloMove

\* Interrupts are disabled only under a frame that enables them.
LEMMA SoloMask ==
    ASSUME NEW t, NEW u, Len(t) \in Nat, Len(t) > 0, SoloMove(t, u), MaskMove(t, u),
           intr \in BOOLEAN, NEW G, G /\ ~intr => Masked(t)
    PROVE  intr' \in BOOLEAN /\ (G /\ ~intr' => Masked(u))
<1>1. CASE intr' = TRUE
  BY <1>1
<1>2. CASE Two(t, u, "sched", "blocked") \/ \E f \in {"sched", "req"} : Over(t, u, f)
  <2>1. Masked(u)
    <3>1. CASE Two(t, u, "sched", "blocked")
      <4>1. Len(t) \in 1 .. Len(u) /\ PcAt(u, Len(t)) = "blocked"
        BY <3>1 DEF Two
      <4> QED BY <4>1 DEF Masked
    <3>2. ASSUME NEW f, Over(t, u, f) PROVE Masked(u)
      <4>1. Len(t) + 1 \in 1 .. Len(u) /\ PcAt(u, Len(t) + 1) = "iret"
        BY <3>2 DEF Over
      <4> QED BY <4>1 DEF Masked
    <3> QED BY <1>2, <3>1, <3>2
  <2> QED BY <2>1, Zenon DEF MaskMove
<1>3. CASE UNCHANGED intr /\ PcAt(t, Len(t)) \notin {"iret", "blocked"}
  <2>1. ASSUME Masked(t) PROVE Masked(u)
    <3>1. PICK d \in 1 .. Len(t) : PcAt(t, d) \in {"iret", "blocked"}
      BY <2>1 DEF Masked
    <3>2. d \in 1 .. Len(t) - 1
      BY <1>3, <3>1
    <3>3. Len(u) >= Len(t) - 1 /\ Len(u) \in Nat /\ Under(t, u, Len(t) - 1)
      <4>1. ASSUME NEW f, Over(t, u, f) PROVE Under(t, u, Len(t) - 1)
        BY <4>1 DEF Over, Under
      <4>2. ASSUME NEW f, Over(t, u, f) PROVE Len(u) >= Len(t) - 1 /\ Len(u) \in Nat
        BY <4>2 DEF Over
      <4> QED BY <4>1, <4>2 DEF SoloMove, Swap, Pop, Two
    <3>4. d \in 1 .. Len(u) /\ PcAt(u, d) = PcAt(t, d)
      BY <3>2, <3>3 DEF Under
    <3> QED BY <3>1, <3>4 DEF Masked
  <2> QED BY <1>3, <2>1, Zenon
<1> QED BY <1>1, <1>2, <1>3 DEF MaskMove

\* The step of a frame over the boot code keeps the stacks and their bottom.
LEMMA SoloStacks ==
    ASSUME StackOK, cpu \in Proc, pc # "body",
           \/ \E l \in PCs : Goto(l)
           \/ Return
           \/ \E f, l \in PCs : Call(f, l)
    PROVE  /\ StackOK' /\ \A p \in Proc \ {cpu} : stk'[p] = stk[p]
           /\ stk'[cpu][Len(stk'[cpu])] = stk[cpu][Len(stk[cpu])]
           /\ Len(stk[cpu]) > 1
<1>1. PICK s \in Seq(Frames) : Become(s)
  <2>1. ASSUME NEW l \in PCs, Goto(l) PROVE \E s \in Seq(Frames) : Become(s)
    <3>1. <<At(l)>> \in Seq(Frames)
      BY AtType
    <3> QED BY <2>1, <3>1 DEF Goto
  <2>2. ASSUME Return PROVE \E s \in Seq(Frames) : Become(s)
    <3>1. <<>> \in Seq(Frames)
      BY EmptySeq
    <3> QED BY <2>2, <3>1 DEF Return
  <2>3. ASSUME NEW f \in PCs, NEW l \in PCs, Call(f, l) PROVE \E s \in Seq(Frames) : Become(s)
    <3>1. <<At(f), At(l)>> \in Seq(Frames)
      BY AtType
    <3> QED BY <2>3, <3>1 DEF Call
  <2> QED BY <2>1, <2>2, <2>3
<1>2. /\ stk' \in [Proc -> Seq(Frames)]
      /\ \A p \in Proc \ {cpu} : stk'[p] = stk[p]
      /\ Len(stk[cpu]) > 1
      /\ Len(stk'[cpu]) = Len(s) + Len(stk[cpu]) - 1
      /\ \A i \in Len(s) + 1 .. Len(stk'[cpu]) : stk'[cpu][i] = stk[cpu][i - Len(s) + 1]
  BY <1>1, BecomeFrames
<1>3. Len(stk[cpu]) \in Nat /\ Len(s) \in Nat /\ stk[cpu][Len(stk[cpu])].pc = "body"
  BY DEF StackOK
<1>4. Len(stk'[cpu]) > 0 /\ stk'[cpu][Len(stk'[cpu])] = stk[cpu][Len(stk[cpu])]
  BY <1>2, <1>3, LastKept
<1>5. StackOK'
  BY <1>2, <1>3, <1>4 DEF StackOK
<1> QED BY <1>2, <1>4, <1>5

\* The steps of the lock functions and of schedule() while nobody is ready.
SoloStep ==
    \/ \E l \in SoloPCs : /\ Goto(l) /\ UNCHANGED repeat /\ (pc \in Entering => l \in Entering)
                          /\ intr' = TRUE \/ (UNCHANGED intr /\ pc \notin {"iret", "blocked"})
    \/ pc = "relrep" /\ Goto("up") /\ repeat' = 0 /\ UNCHANGED intr
    \/ pc \in {"req", "checked"} /\ Goto("crit") /\ repeat' \in {1, repeat + 1} /\ UNCHANGED intr
    \/ pc = "relcnt" /\ Return /\ repeat > 1 /\ repeat' = repeat - 1 /\ UNCHANGED intr
    \/ pc \in {"up", "iret"} /\ Return /\ UNCHANGED repeat /\ intr' = TRUE
    \/ pc = "sched" /\ Return /\ UNCHANGED <<repeat, intr>>
    \/ pc \in {"down", "again"} /\ Call("sched", "blocked") /\ UNCHANGED repeat /\ intr' = FALSE

LEMMA SoloTable ==
    ASSUME Execute, failed' = {}, pc \in SoloPCs, ready = <<>>, pc = "up" => waiters = <<>>
    PROVE  SoloStep /\ UNCHANGED <<cpu, current, ready, burst>>
<1>1. ~ \E msg : Fail(msg)
  BY DEF Fail
<1>2. {"down", "crit", "gotsema", "again", "owned", "checked", "rel", "relcnt", "relown", "relrep"}
         \subseteq SoloPCs
  BY DEF SoloPCs, PCs, SwitchPCs, PanicPCs
<1>3. /\ {"crit", "rel", "relcnt", "relown", "relrep"} \subseteq Entering
      /\ \A l \in {"req", "down", "again", "gotsema", "owned", "checked", "blocked"} : l \notin Entering
  BY DEF Entering, Counted
<1>4. CASE req_lock
  BY <1>2, <1>3, <1>4, Zenon DEF req_lock, SoloStep, threadVars
<1>5. CASE sema_down
  <2>1. /\ pc \in {"down", "again"} /\ UNCHANGED <<cpu, current, ready, burst, repeat>>
        /\ (intr' = FALSE /\ Call("sched", "blocked")) \/ (intr' = TRUE /\ Goto("gotsema"))
    BY <1>1, <1>5, Zenon DEF sema_down, Ok
  <2> QED BY <1>2, <1>3, <2>1, Zenon DEF SoloStep
<1>6. CASE thread_block_end
  BY <1>2, <1>3, <1>6, Zenon DEF thread_block_end, SoloStep, threadVars, lockVars
<1>7. CASE set_holder
  BY <1>2, <1>3, <1>7, Zenon DEF set_holder, SoloStep, threadVars
<1>8. CASE check_repeat
  <2>1. /\ pc = "owned" /\ Goto("checked") /\ UNCHANGED <<cpu, current, ready, burst, repeat, intr>>
    BY <1>1, <1>8, Zenon DEF check_repeat, Ok, threadVars, lockVars
  <2> QED BY <1>2, <1>3, <2>1, Zenon DEF SoloStep
<1>9. CASE set_repeat
  <2>1. /\ pc = "checked" /\ Goto("crit") /\ repeat' = 1
        /\ UNCHANGED <<cpu, current, ready, burst, intr>>
    BY <1>9, Zenon DEF set_repeat, threadVars
  <2> QED BY <2>1, Zenon DEF SoloStep
<1>10. CASE console_done
  BY <1>2, <1>3, <1>10, Zenon DEF console_done, SoloStep, threadVars, lockVars
<1>11. CASE check_holder
  <2>1. /\ pc = "rel" /\ Goto("relcnt") /\ UNCHANGED <<cpu, current, ready, burst, repeat, intr>>
    BY <1>1, <1>11, Zenon DEF check_holder, Ok, threadVars, lockVars
  <2> QED BY <1>2, <1>3, <2>1, Zenon DEF SoloStep
<1>12. CASE release_repeat
  <2>1. /\ pc = "relcnt" /\ UNCHANGED <<cpu, current, ready, burst, intr>>
        /\ \/ repeat > 1 /\ repeat' = repeat - 1 /\ Return
           \/ Goto("relown") /\ UNCHANGED repeat
    BY <1>1, <1>12, Zenon DEF release_repeat, Ok, threadVars
  <2> QED BY <1>2, <1>3, <2>1, Zenon DEF SoloStep
<1>13. CASE clear_holder
  BY <1>2, <1>3, <1>13, Zenon DEF clear_holder, SoloStep, threadVars
<1>14. CASE clear_repeat
  BY <1>14, Zenon DEF clear_repeat, SoloStep, threadVars
<1>15. CASE sema_up
  <2>1. pc = "up"
    <3>1. "upinc" \notin SoloPCs
      BY DEF SoloPCs
    <3> QED BY <1>15, <3>1 DEF sema_up
  <2>2. /\ Return /\ intr' = TRUE /\ UNCHANGED <<cpu, current, ready, burst, repeat>>
    BY <1>1, <1>15, <2>1, Zenon DEF sema_up, Ok
  <2> QED BY <2>1, <2>2, Zenon DEF SoloStep
<1>16. CASE schedule
  <2>1. /\ pc = "sched" /\ Return /\ UNCHANGED <<cpu, current, ready, burst, repeat, intr>>
    BY <1>16, Zenon DEF schedule, lockVars
  <2> QED BY <2>1, Zenon DEF SoloStep
<1>17. CASE iret
  BY <1>17, Zenon DEF iret, SoloStep, threadVars, lockVars
<1>18. ~(switch_thread \/ switch_to \/ switch_end \/ panic)
  BY DEF switch_thread, switch_to, switch_end, panic, SoloPCs, SwitchPCs, PanicPCs
<1> QED BY <1>4, <1>5, <1>6, <1>7, <1>8, <1>9, <1>10, <1>11, <1>12, <1>13, <1>14, <1>15, <1>16,
           <1>17, <1>18 DEF Execute

LEMMA AloneStep ==
    ASSUME Alone, UNCHANGED <<cpu, ready, phase>>, StackOK',
           \A p \in Proc \ {cpu} : stk'[p] = stk[p],
           stk'[cpu][Len(stk'[cpu])] = stk[cpu][Len(stk[cpu])],
           SoloMove(stk[cpu], stk'[cpu]), MaskMove(stk[cpu], stk'[cpu]), Keeps(stk[cpu], stk'[cpu], 1)
    PROVE  Alone'
<1>1. cpu = Idle /\ cpu' = Idle /\ ready' = <<>> /\ Idle \in Proc /\ Threads \subseteq Proc \ {Idle}
  BY KernelAssumption DEF Alone, Proc
<1>2. PICK t, u : t = stk[Idle] /\ u = stk'[Idle]
  OBVIOUS
<1>3. Len(t) \in Nat /\ Len(t) > 0
  BY <1>1, <1>2 DEF Alone, StackOK
<1>4. SoloMove(t, u) /\ MaskMove(t, u) /\ Keeps(t, u, 1) /\ u[Len(u)] = At("body")
  BY <1>1, <1>2 DEF Alone
<1>5. Len(u) \in Nat /\ Len(u) > 0 /\ Solo(u)
  BY <1>2, <1>3, <1>4, SoloPlaces DEF Alone
<1>6. repeat' \in Nat /\ repeat' <= Cardinality(Entered(u))
  BY <1>2, <1>3, <1>4, <1>5, SoloCount DEF Alone
<1>7. intr' \in BOOLEAN /\ (phase # "init_mm" /\ ~intr' => Masked(u))
  <2>1. PICK G : G = (phase # "init_mm")
    OBVIOUS
  <2>2. intr \in BOOLEAN /\ (G /\ ~intr => Masked(t))
    BY <1>2, <2>1 DEF Alone
  <2>3. intr' \in BOOLEAN /\ (G /\ ~intr' => Masked(u))
    BY <1>3, <1>4, <2>2, SoloMask
  <2> QED BY <2>1, <2>3
<1>8. \A p \in Threads : stk'[p] = <<At("body")>>
  BY <1>1 DEF Alone
<1> QED BY <1>1, <1>2, <1>4, <1>5, <1>6, <1>7, <1>8 DEF Alone

LEMMA AloneFacts ==
    ASSUME Alone
    PROVE  /\ cpu \in Proc /\ cpu = Idle /\ Len(stk[cpu]) \in Nat /\ Len(stk[cpu]) > 0
           /\ PcAt(stk[cpu], Len(stk[cpu])) = pc
           /\ pc = "body" <=> Len(stk[cpu]) = 1
           /\ pc # "body" => pc \in SoloPCs /\ Len(stk[cpu]) > 1
<1>1. cpu \in Proc /\ StackOK /\ cpu = Idle
  BY DEF Alone, Proc
<1>2. PICK t : t = stk[cpu]
  OBVIOUS
<1>3. Len(t) \in Nat /\ Len(t) > 0 /\ PcAt(t, Len(t)) = pc
  BY <1>1, <1>2, StackShapes
<1>4. ASSUME Len(t) = 1 PROVE pc = "body"
  <2>1. t[Len(t)].pc = "body" /\ Len(t) + 1 - Len(t) = Len(t)
    BY <1>1, <1>2, <1>4 DEF StackOK
  <2> QED BY <1>3, <2>1 DEF PcAt
<1>5. ASSUME Len(t) # 1 PROVE pc \in SoloPCs /\ Len(t) > 1
  <2>1. Len(t) > 1 /\ Len(t) \in 2 .. Len(t)
    <3>1. PICK n \in Nat : n = Len(t) /\ n > 0 /\ n # 1
      BY <1>3, <1>5
    <3>2. n > 1 /\ n \in 2 .. n
      BY <3>1
    <3> QED BY <3>1, <3>2
  <2>2. Solo(t)
    BY <1>1, <1>2 DEF Alone
  <2> QED BY <1>3, <2>1, <2>2 DEF Solo
<1>6. "body" \notin SoloPCs
  BY DEF SoloPCs
<1> QED BY <1>1, <1>2, <1>3, <1>4, <1>5, <1>6

LEMMA NotBody == ASSUME Execute PROVE pc # "body"
  BY Zenon DEF Execute, req_lock, sema_down, thread_block_end, set_holder, check_repeat, set_repeat,
     console_done, check_holder, release_repeat, clear_holder, clear_repeat, sema_up, schedule,
     switch_thread, switch_to, switch_end, iret, panic

LEMMA SoloExecute ==
    ASSUME Alone, Execute, failed' = {}, pc = "up" => waiters = <<>>, UNCHANGED phase
    PROVE  /\ Alone' /\ UNCHANGED <<cpu, current, ready, burst>> /\ pc \in SoloPCs
           /\ SoloStep /\ StackOK /\ cpu \in Proc
<1>1. cpu \in Proc /\ pc # "body" /\ pc \in SoloPCs /\ PcAt(stk[cpu], Len(stk[cpu])) = pc
  BY AloneFacts, NotBody
<1>2. SoloStep /\ UNCHANGED <<cpu, current, ready, burst>>
  BY <1>1, SoloTable DEF Alone
<1>3. /\ {"up", "crit", "sched", "blocked"} \subseteq PCs /\ SoloPCs \subseteq PCs
      /\ {"relcnt", "relrep", "crit"} \subseteq Entering
      /\ \A l \in {"req", "checked", "up", "iret", "sched", "down", "again"} : l \notin Entering
  BY DEF PCs, SoloPCs, Entering, Counted
<1>4. (\E l \in PCs : Goto(l)) \/ Return \/ (\E f, l \in PCs : Call(f, l))
  BY <1>2, <1>3, Zenon DEF SoloStep
<1>5. /\ StackOK' /\ \A p \in Proc \ {cpu} : stk'[p] = stk[p]
      /\ stk'[cpu][Len(stk'[cpu])] = stk[cpu][Len(stk[cpu])]
      /\ Len(stk[cpu]) > 1
  BY <1>1, <1>4, SoloStacks DEF Alone
<1>6. StackOK /\ repeat \in Nat
  BY DEF Alone
<1>7. SoloMove(stk[cpu], stk'[cpu])
  <2>1. repeat + 1 \in Nat /\ 1 \in Nat /\ 1 <= repeat + 1 /\ repeat + 1 <= repeat + 1
    BY <1>6
  <2>2. PICK t, u : t = stk[cpu] /\ u = stk'[cpu]
    OBVIOUS
  <2>3. /\ PcAt(t, Len(t)) = pc
        /\ \A l \in PCs : Goto(l) => Swap(t, u, l)
        /\ Return => Pop(t, u)
        /\ \A f, l \in PCs : Call(f, l) => Two(t, u, f, l)
    BY <1>1, <1>6, <2>2, StackShapes
  <2>4. SoloMove(t, u)
    BY <1>2, <1>3, <2>1, <2>3 DEF SoloStep, SoloMove
  <2> QED BY <2>2, <2>4
<1>8. MaskMove(stk[cpu], stk'[cpu])
  <2>1. \A f, l \in PCs : Call(f, l) => Two(stk[cpu], stk'[cpu], f, l)
    BY <1>1, <1>6, StackShapes
  <2>2. ASSUME pc \in {"relrep", "req", "checked", "relcnt", "sched"}, UNCHANGED intr
        PROVE MaskMove(stk[cpu], stk'[cpu])
    BY <1>1, <2>2 DEF MaskMove
  <2> QED BY <1>1, <1>2, <1>3, <2>1, <2>2, Zenon DEF SoloStep, MaskMove
<1>9. Keeps(stk[cpu], stk'[cpu], 1)
  BY <1>5 DEF Keeps
<1>10. Alone'
  BY <1>2, <1>5, <1>7, <1>8, <1>9, AloneStep
<1> QED BY <1>1, <1>2, <1>6, <1>10

LEMMA SoloInterrupt ==
    ASSUME Alone, timer_callback \/ printing_interrupt, UNCHANGED phase
    PROVE  Alone' /\ UNCHANGED <<cpu, current, ready, holder, repeat, value, waiters, state, failed>>
<1>1. cpu \in Proc /\ StackOK /\ Len(stk[cpu]) \in Nat /\ Len(stk[cpu]) > 0
  BY AloneFacts DEF Alone
<1>2. UNCHANGED <<cpu, current, ready, holder, repeat, value, waiters, state, failed>>
  BY Zenon DEF timer_callback, printing_interrupt, threadVars, lockVars
<1>3. PICK l \in {"sched", "req"} : Interrupt(l)
  BY Zenon DEF timer_callback, printing_interrupt
<1>4. l \in PCs
  BY DEF PCs
<1>5. /\ StackOK'
      /\ \A p \in Proc \ {cpu} : stk'[p] = stk[p]
      /\ Len(stk'[cpu]) = Len(stk[cpu]) + 2 /\ Len(stk[cpu]) \in Nat
      /\ \A i \in 3 .. Len(stk'[cpu]) : stk'[cpu][i] = stk[cpu][i - 2]
  BY <1>1, <1>3, <1>4, InterruptFrames
<1>6. stk'[cpu][Len(stk'[cpu])] = stk[cpu][Len(stk[cpu])]
  <2>1. PICK n \in Nat : n = Len(stk[cpu]) /\ n > 0 /\ Len(stk'[cpu]) = n + 2
    BY <1>1, <1>5
  <2>2. n + 2 \in 3 .. n + 2 /\ (n + 2) - 2 = n
    BY <2>1
  <2> QED BY <1>5, <2>1, <2>2
<1>7. Over(stk[cpu], stk'[cpu], l)
  <2>1. stk[cpu] \in Seq(Frames) /\ stk \in [Proc -> Seq(Frames)]
    BY <1>1 DEF StackOK
  <2>2. stk'[cpu] = <<At(l), At("iret")>> \o stk[cpu]
    BY <1>1, <1>3, <2>1, Zenon DEF Interrupt
  <2> QED BY <1>4, <2>1, <2>2, ShapeOver
<1>8. SoloMove(stk[cpu], stk'[cpu]) /\ Keeps(stk[cpu], stk'[cpu], 1)
  BY <1>2, <1>7, Zenon DEF SoloMove, Keeps
<1>9. MaskMove(stk[cpu], stk'[cpu])
  BY <1>3, <1>7, Zenon DEF MaskMove, Interrupt
<1> QED BY <1>2, <1>5, <1>6, <1>8, <1>9, AloneStep

\* The boot code itself runs: there is nothing above it.
LEMMA AloneBody ==
    ASSUME Alone, pc = "body"
    PROVE  stk = Bodies /\ repeat = 0 /\ Len(stk[Idle]) = 1 /\ (phase # "init_mm" => intr)
<1>1. Idle \in Proc /\ cpu = Idle /\ StackOK
  BY DEF Alone, Proc
<1>2. PICK t : t = stk[Idle]
  OBVIOUS
<1>3. Len(t) = 1 /\ t \in Seq(Frames)
  BY <1>1, <1>2, AloneFacts DEF StackOK
<1>4. At("body") \in Frames /\ At("body").pc = "body"
  BY AtType DEF PCs
<1>5. t = <<At("body")>>
  <2>1. t[1] = At("body")
    BY <1>2, <1>3 DEF Alone
  <2>2. PICK u \in Seq(Frames) : u = <<At("body")>> /\ Len(u) = 1 /\ u[1] = At("body")
    <3>1. PICK b \in Frames : b = At("body")
      BY <1>4
    <3>2. <<b>> \in Seq(Frames) /\ Len(<<b>>) = 1 /\ <<b>>[1] = b
      OBVIOUS
    <3> QED BY <3>1, <3>2
  <2>3. Len(t) = Len(u) /\ \A i \in 1 .. Len(t) : t[i] = u[i]
    BY <1>3, <2>1, <2>2
  <2>4. t = u
    BY <1>3, <2>3, SeqEqual
  <2> QED BY <2>2, <2>4
<1>6. stk = Bodies
  <2>1. stk = [p \in Proc |-> stk[p]]
    BY <1>1 DEF StackOK
  <2>2. \A p \in Proc : stk[p] = <<At("body")>>
    BY <1>2, <1>5 DEF Alone, Proc
  <2> QED BY <2>1, <2>2 DEF Bodies
<1>7. PcAt(t, 1) = "body" /\ \A d \in 1 .. Len(t) : d = 1
  BY <1>3, <1>4, <1>5 DEF PcAt
<1>8. repeat = 0
  <2>1. Entered(t) = {}
    <3>1. "body" \notin Entering
      BY DEF Entering, Counted
    <3> QED BY <1>7, <3>1 DEF Entered
  <2>2. Cardinality(Entered(t)) = 0
    BY <2>1, FS_EmptySet
  <2>3. repeat \in Nat /\ repeat <= 0
    BY <1>2, <2>2 DEF Alone
  <2> QED BY <2>3
<1>9. ~Masked(t)
  BY <1>7 DEF Masked
<1> QED BY <1>2, <1>3, <1>6, <1>8, <1>9 DEF Alone

\* The boot code goes on with the next part.
LEMMA AloneOn ==
    ASSUME Alone, pc = "body", UNCHANGED <<cpu, ready, stk, repeat>>,
           intr' = TRUE \/ (UNCHANGED intr /\ phase # "init_mm")
    PROVE  Alone' /\ intr' = TRUE
<1>1. phase # "init_mm" => intr
  BY AloneBody
<1>2. intr' = TRUE
  BY <1>1, Zenon DEF Alone
<1>3. StackOK'
  BY DEF Alone, StackOK
<1> QED BY <1>2, <1>3 DEF Alone

(***************************************************************************)
(* Before init_sched: no current thread and a lock that is all zero.       *)
(***************************************************************************)
PrintPCs == {"req", "crit", "rel", "relcnt", "relown", "relrep", "up"}

\* All prints enter the zeroed lock as if they held it.
Printing(s) == \A d \in 2 .. Len(s) : PcAt(s, d) \in PrintPCs \cup {"iret"}

\* The print of swap_init is the lowest frame until it has freed the lock.
FirstFrees(s) == phase = "init_sched" /\ value = 0 => Len(s) > 1 /\ PcAt(s, 2) \in PrintPCs

Starting ==
    /\ phase \in EarlyPhases /\ Alone /\ Zeroed /\ value \in {0, 1}
    /\ Printing(stk[Idle]) /\ FirstFrees(stk[Idle])

StartStep ==
    \/ pc \in PrintPCs /\ (\E l \in PrintPCs : Goto(l)) /\ UNCHANGED value
    \/ pc = "relcnt" /\ repeat > 1 /\ Return /\ UNCHANGED value
    \/ pc = "up" /\ Return /\ value' = 1
    \/ pc = "iret" /\ Return /\ UNCHANGED value

LEMMA StartTable ==
    ASSUME Zeroed, value \in {0, 1}, Execute, failed' = {}, pc \in PrintPCs \cup {"iret"}
    PROVE  StartStep /\ UNCHANGED <<state, ticks, waiters>> /\ holder' = NULL
<1>1. ~ \E msg : Fail(msg)
  BY DEF Fail
<1>2. current = NULL /\ holder = NULL /\ waiters = <<>>
  BY DEF Zeroed
<1>3. {"req", "crit", "rel", "relcnt", "relown", "relrep", "up"} \subseteq PrintPCs
  BY DEF PrintPCs
<1>4. CASE req_lock
  <2>1. pc = "req" /\ Goto("crit") /\ UNCHANGED <<state, ticks, holder, value, waiters>>
    BY <1>2, <1>4, Zenon DEF req_lock, threadVars
  <2> QED BY <1>2, <1>3, <2>1, Zenon DEF StartStep
<1>5. CASE console_done
  <2>1. pc = "crit" /\ Goto("rel") /\ UNCHANGED <<state, ticks, holder, value, waiters>>
    BY <1>5, Zenon DEF console_done, threadVars, lockVars
  <2> QED BY <1>2, <1>3, <2>1, Zenon DEF StartStep
<1>6. CASE check_holder
  <2>1. pc = "rel" /\ Goto("relcnt") /\ UNCHANGED <<state, ticks, holder, value, waiters>>
    BY <1>1, <1>6, Zenon DEF check_holder, Ok, threadVars, lockVars
  <2> QED BY <1>2, <1>3, <2>1, Zenon DEF StartStep
<1>7. CASE release_repeat
  <2>1. /\ pc = "relcnt" /\ ((repeat > 1 /\ Return) \/ Goto("relown"))
        /\ UNCHANGED <<state, ticks, holder, value, waiters>>
    BY <1>1, <1>7, Zenon DEF release_repeat, Ok, threadVars
  <2> QED BY <1>2, <1>3, <2>1, Zenon DEF StartStep
<1>8. CASE clear_holder
  <2>1. pc = "relown" /\ Goto("relrep") /\ holder' = NULL /\ UNCHANGED <<state, ticks, value, waiters>>
    BY <1>8, Zenon DEF clear_holder, threadVars
  <2> QED BY <1>3, <2>1, Zenon DEF StartStep
<1>9. CASE clear_repeat
  <2>1. pc = "relrep" /\ Goto("up") /\ UNCHANGED <<state, ticks, holder, value, waiters>>
    BY <1>9, Zenon DEF clear_repeat, threadVars
  <2> QED BY <1>2, <1>3, <2>1, Zenon DEF StartStep
<1>10. CASE sema_up
  <2>1. pc = "up"
    BY <1>10 DEF sema_up, PrintPCs
  <2>2. Return /\ value' = 1 /\ UNCHANGED <<state, ticks, holder, waiters>>
    BY <1>1, <1>2, <1>10, <2>1, Zenon DEF sema_up, Ok
  <2> QED BY <1>2, <2>1, <2>2, Zenon DEF StartStep
<1>11. CASE iret
  <2>1. pc = "iret" /\ Return /\ UNCHANGED <<state, ticks, holder, value, waiters>>
    BY <1>11, Zenon DEF iret, threadVars, lockVars
  <2> QED BY <1>2, <2>1, Zenon DEF StartStep
<1>12. ~(sema_down \/ thread_block_end \/ set_holder \/ check_repeat \/ set_repeat \/ schedule
         \/ switch_thread \/ switch_to \/ switch_end \/ panic)
  BY DEF sema_down, thread_block_end, set_holder, check_repeat, set_repeat, schedule,
     switch_thread, switch_to, switch_end, panic, PrintPCs
<1> QED BY <1>4, <1>5, <1>6, <1>7, <1>8, <1>9, <1>10, <1>11, <1>12 DEF Execute

\* With one frame above the boot code there is at most one entry.
LEMMA OneEntry ==
    ASSUME Alone, Len(stk[Idle]) = 2
    PROVE  ~(repeat > 1)
<1>1. PICK t : t = stk[Idle]
  OBVIOUS
<1>2. Len(t) = 2 /\ t[2].pc = "body"
  <2>1. Idle \in Proc /\ StackOK
    BY DEF Alone, Proc
  <2> QED BY <1>1, <2>1 DEF StackOK
<1>3. PcAt(t, 1) = "body"
  BY <1>2 DEF PcAt
<1>4. Entered(t) \subseteq {2}
  <2>1. "body" \notin Entering
    BY DEF Entering, Counted
  <2>2. \A d \in 1 .. Len(t) : d = 1 \/ d = 2
    BY <1>2
  <2> QED BY <1>3, <2>1, <2>2 DEF Entered
<1>5. Cardinality(Entered(t)) <= 1
  <2>1. IsFiniteSet({2}) /\ Cardinality({2}) = 1
    BY FS_Singleton
  <2> QED BY <1>4, <2>1, FS_Subset
<1>6. Cardinality(Entered(t)) \in Nat
  <2>1. Len(t) \in Nat
    BY <1>2
  <2> QED BY <2>1, EnteredFinite
<1>7. PICK n \in Nat : n = Cardinality(Entered(t)) /\ n <= 1
  BY <1>5, <1>6
<1>8. repeat \in Nat /\ repeat <= n
  BY <1>1, <1>7 DEF Alone
<1> QED BY <1>7, <1>8

LEMMA StartFacts ==
    ASSUME Starting
    PROVE  /\ cpu = Idle /\ cpu \in Proc /\ StackOK /\ Alone /\ Zeroed
           /\ Len(stk[Idle]) \in Nat /\ Len(stk[Idle]) > 0
           /\ PcAt(stk[Idle], Len(stk[Idle])) = pc
           /\ pc # "body" => Len(stk[Idle]) > 1 /\ pc \in PrintPCs \cup {"iret"}
<1>1. Alone /\ Zeroed /\ cpu = Idle /\ StackOK
  BY DEF Starting, Alone
<1>2. /\ cpu \in Proc /\ Len(stk[Idle]) \in Nat /\ Len(stk[Idle]) > 0
      /\ PcAt(stk[Idle], Len(stk[Idle])) = pc
      /\ pc # "body" => Len(stk[Idle]) > 1
  BY <1>1, AloneFacts
<1>3. ASSUME pc # "body" PROVE pc \in PrintPCs \cup {"iret"}
  <2>1. PICK n \in Nat : n = Len(stk[Idle]) /\ n > 1
    BY <1>2, <1>3
  <2>2. n \in 2 .. n
    BY <2>1
  <2> QED BY <1>2, <2>1, <2>2 DEF Starting, Printing
<1> QED BY <1>1, <1>2, <1>3

\* A step of a print or of a handler before init_sched.
LEMMA StartExecute ==
    ASSUME Starting, Execute, failed' = {}, UNCHANGED phase
    PROVE  Starting'
<1>1. /\ cpu = Idle /\ cpu \in Proc /\ StackOK /\ Alone /\ Zeroed
      /\ pc \in PrintPCs \cup {"iret"} /\ Len(stk[Idle]) > 1 /\ value \in {0, 1}
      /\ PcAt(stk[Idle], Len(stk[Idle])) = pc
  BY StartFacts, NotBody DEF Starting
<1>2. Alone' /\ UNCHANGED <<cpu, current, ready, burst>>
  <2>1. waiters = <<>>
    BY <1>1 DEF Zeroed
  <2> QED BY <1>1, <2>1, SoloExecute
<1>3. StartStep /\ UNCHANGED <<state, ticks, waiters>> /\ holder' = NULL
  BY <1>1, StartTable
<1>4. Zeroed'
  <2>1. intr' \in BOOLEAN
    BY <1>2 DEF Alone
  <2> QED BY <1>1, <1>2, <1>3, <2>1 DEF Zeroed, BootTicks
<1>5. value' \in {0, 1} /\ (value' = 0 => value = 0)
  <2>1. UNCHANGED value \/ value' = 1
    BY <1>3, Zenon DEF StartStep
  <2> QED BY <1>1, <2>1
<1>6. PICK t, u, n : t = stk[Idle] /\ u = stk'[Idle] /\ n = Len(t)
  OBVIOUS
<1>7. n \in Nat /\ n > 1 /\ Len(t) = n /\ PcAt(t, n) = pc
  BY <1>1, <1>6, StartFacts
<1>8. PrintPCs \subseteq PCs /\ "iret" \notin PrintPCs
  BY DEF PrintPCs, PCs
<1>9. \/ pc \in PrintPCs /\ \E l \in PrintPCs : Swap(t, u, l)
      \/ Pop(t, u) /\ ((pc = "relcnt" /\ repeat > 1) \/ (pc = "up" /\ value' = 1) \/ pc = "iret")
  <2>1. (\A l \in PCs : Goto(l) => Swap(t, u, l)) /\ (Return => Pop(t, u))
    BY <1>1, <1>6, StackShapes
  <2> QED BY <1>3, <1>8, <2>1, Zenon DEF StartStep
<1>10. Printing(u)
  <2>1. Adds(t, u, PrintPCs \cup {"iret"}) /\ Keeps(t, u, 1)
    BY <1>7, <1>9 DEF Adds, Keeps
  <2>2. 1 \in 0 .. Len(t) /\ \A d \in 1 + 1 .. Len(t) : PcAt(t, d) \in PrintPCs \cup {"iret"}
    <3>1. Printing(t)
      BY <1>6 DEF Starting
    <3> QED BY <1>7, <3>1 DEF Printing
  <2>3. \A d \in 1 + 1 .. Len(u) : PcAt(u, d) \in PrintPCs \cup {"iret"}
    BY <1>7, <2>1, <2>2, RangeStep
  <2> QED BY <2>3 DEF Printing
<1>11. ASSUME phase = "init_sched", value' = 0 PROVE Len(u) > 1 /\ PcAt(u, 2) \in PrintPCs
  <2>1. PcAt(t, 2) \in PrintPCs
    BY <1>5, <1>6, <1>11 DEF Starting, FirstFrees
  <2>2. CASE n = 2
    <3>1. pc \in PrintPCs
      BY <1>7, <2>1, <2>2
    <3>2. ~(repeat > 1)
      BY <1>1, <1>6, <2>2, OneEntry
    <3>3. \E l \in PrintPCs : Swap(t, u, l)
      BY <1>8, <1>9, <1>11, <3>1, <3>2
    <3> QED BY <1>7, <2>2, <3>3 DEF Swap
  <2>3. CASE n > 2
    <3>1. Len(u) >= n - 1 /\ Len(u) \in Nat /\ Under(t, u, n - 1)
      BY <1>7, <1>9 DEF Swap, Pop
    <3>2. 2 \in 1 .. n - 1
      BY <1>7, <2>3
    <3> QED BY <1>7, <2>1, <2>3, <3>1, <3>2 DEF Under
  <2> QED BY <1>7, <2>2, <2>3
<1>12. phase' \in EarlyPhases
  BY DEF Starting
<1>13. FirstFrees(stk[Idle])'
  BY <1>6, <1>11 DEF FirstFrees
<1>14. Printing(stk[Idle])'
  BY <1>6, <1>10
<1> QED BY <1>2, <1>4, <1>5, <1>12, <1>13, <1>14 DEF Starting

\* An interrupt before init_sched prints.
LEMMA StartInterrupt ==
    ASSUME Starting, printing_interrupt, UNCHANGED phase
    PROVE  Starting'
<1>1. /\ cpu = Idle /\ cpu \in Proc /\ StackOK /\ Alone /\ Zeroed
      /\ Len(stk[Idle]) \in Nat /\ Len(stk[Idle]) > 0
  BY StartFacts
<1>2. Alone' /\ UNCHANGED <<cpu, current, ready, holder, repeat, value, waiters, state, failed>>
  BY <1>1, SoloInterrupt
<1>3. UNCHANGED <<ticks, burst>> /\ Interrupt("req")
  BY Zenon DEF printing_interrupt, threadVars
<1>4. Zeroed'
  <2>1. intr' \in BOOLEAN
    BY <1>2 DEF Alone
  <2> QED BY <1>1, <1>2, <1>3, <2>1 DEF Zeroed, BootTicks
<1>5. PICK t, u : t = stk[Idle] /\ u = stk'[Idle]
  OBVIOUS
<1>6. Over(t, u, "req")
  <2>1. t \in Seq(Frames) /\ stk \in [Proc -> Seq(Frames)]
    BY <1>1, <1>5 DEF StackOK
  <2>2. u = <<At("req"), At("iret")>> \o t
    BY <1>1, <1>3, <1>5, <2>1, Zenon DEF Interrupt
  <2>3. "req" \in PCs
    BY DEF PCs
  <2> QED BY <2>1, <2>2, <2>3, ShapeOver
<1>7. PICK n \in Nat : n = Len(t) /\ n > 0
  BY <1>1, <1>5
<1>8. Printing(u)
  <2>1. Printing(t) /\ "req" \in PrintPCs
    BY <1>5 DEF Starting, PrintPCs
  <2>2. /\ Len(u) = n + 2 /\ PcAt(u, n + 1) = "iret" /\ PcAt(u, n + 2) = "req"
        /\ \A d \in 1 .. n : PcAt(u, d) = PcAt(t, d)
    BY <1>6, <1>7 DEF Over, Under
  <2>3. \A d \in 2 .. n + 2 : d \in 2 .. n \/ d = n + 1 \/ d = n + 2
    BY <1>7
  <2>4. \A d \in 2 .. n : d \in 1 .. n /\ PcAt(t, d) \in PrintPCs \cup {"iret"}
    BY <1>7, <2>1 DEF Printing
  <2> QED BY <2>1, <2>2, <2>3, <2>4 DEF Printing
<1>9. ASSUME phase = "init_sched", value = 0 PROVE Len(u) > 1 /\ PcAt(u, 2) \in PrintPCs
  <2>1. n > 1 /\ PcAt(t, 2) \in PrintPCs
    BY <1>5, <1>7, <1>9 DEF Starting, FirstFrees
  <2>2. 2 \in 1 .. n /\ Len(u) = n + 2
    BY <1>6, <1>7, <2>1 DEF Over
  <2> QED BY <1>6, <1>7, <2>1, <2>2 DEF Over, Under
<1>10. FirstFrees(stk[Idle])'
  BY <1>2, <1>5, <1>9 DEF FirstFrees
<1>11. Printing(stk[Idle])'
  BY <1>5, <1>8
<1> QED BY <1>2, <1>4, <1>10, <1>11 DEF Starting

(***************************************************************************)
(* From init_sched on: IDLE is current, and the modes of the lock hold.    *)
(***************************************************************************)

\* Nobody has waited, and thread_idle has made IDLE a running thread or not.
Untouched(ph) == state = [p \in Proc |-> IF p = Idle /\ ph # "thread_idle" THEN "RUNNING" ELSE "CREATE"]

Settled ==
    /\ phase \in Phases \ (EarlyPhases \cup {"Test"}) /\ Alone /\ Base /\ WaitState
    /\ current = Idle /\ holder \in {NULL, Idle}
    /\ \A p \in Threads : ticks[p] # 0
    /\ waiters = <<>> => Untouched(phase)
    /\ phase = "thread_idle" \/ QuantumLeft

LEMMA StartInit == BootInit => Starting
<1> SUFFICES ASSUME BootInit PROVE Starting
  OBVIOUS
<1>1. /\ stk = Bodies /\ cpu = Idle /\ ready = <<>> /\ phase = "init_mm" /\ value = 0 /\ repeat = 0
      /\ intr = FALSE /\ Idle \in Proc /\ Threads \subseteq Proc
  BY DEF BootInit, Bodies, Proc
<1>2. StackOK
  BY <1>1, BodiesFacts
<1>3. \A p \in Proc : stk[p] = <<At("body")>>
  BY <1>1 DEF Bodies
<1>4. Len(stk[Idle]) = 1 /\ stk[Idle][1] = At("body")
  <2>1. PICK b : b = At("body")
    OBVIOUS
  <2>2. Len(<<b>>) = 1 /\ <<b>>[1] = b
    OBVIOUS
  <2> QED BY <1>1, <1>3, <2>1, <2>2
<1>5. Solo(stk[Idle]) /\ Printing(stk[Idle])
  <2>1. \A d \in 2 .. 1 : FALSE
    OBVIOUS
  <2> QED BY <1>4, <2>1 DEF Solo, Printing
<1>6. Cardinality(Entered(stk[Idle])) \in Nat
  <2>1. Len(stk[Idle]) \in Nat
    BY <1>4
  <2> QED BY <2>1, EnteredFinite
<1>7. repeat <= Cardinality(Entered(stk[Idle]))
  <2>1. PICK n \in Nat : n = Cardinality(Entered(stk[Idle]))
    BY <1>6
  <2> QED BY <1>1, <2>1
<1>8. Alone
  BY <1>1, <1>2, <1>3, <1>4, <1>5, <1>7 DEF Alone
<1>9. Zeroed
  BY DEF BootInit, Zeroed, BootTicks
<1>10. FirstFrees(stk[Idle])
  BY <1>1 DEF FirstFrees
<1> QED BY <1>1, <1>5, <1>8, <1>9, <1>10 DEF Starting, EarlyPhases

\* swap_init prints.
LEMMA StartPrint ==
    ASSUME Starting, pc = "body", phase # "init_mm", Call("req", "body"), phase' = "init_sched",
           UNCHANGED <<cpu, current, ready, state, ticks, holder, repeat, value, waiters, burst,
                       failed, intr>>
    PROVE  Starting'
<1>1. Alone /\ Zeroed /\ cpu = Idle /\ Idle \in Proc /\ Threads \subseteq Proc \ {Idle}
  BY KernelAssumption DEF Starting, Alone, Proc
<1>2. stk = Bodies /\ repeat = 0 /\ intr
  BY <1>1, AloneBody
<1>3. stk' = PrintStack("req")
  BY <1>1, <1>2, CallsPrint
<1>4. PICK a \in Frames, b \in Frames : a = At("req") /\ b = At("body") /\ a.pc = "req" /\ b.pc = "body"
  BY AtType DEF PCs
<1>5. stk'[Idle] = <<a, b>> /\ \A p \in Threads : stk'[p] = <<b>>
  BY <1>1, <1>3, <1>4 DEF PrintStack
<1>6. PICK u \in Seq(Frames) : u = stk'[Idle] /\ Len(u) = 2 /\ u[1] = a /\ u[2] = b
  <2>1. <<a, b>> \in Seq(Frames) /\ Len(<<a, b>>) = 2 /\ <<a, b>>[1] = a /\ <<a, b>>[2] = b
    OBVIOUS
  <2> QED BY <1>5, <2>1
<1>7. PcAt(u, 2) = "req" /\ \A d \in 2 .. Len(u) : d = 2
  BY <1>4, <1>6 DEF PcAt
<1>8. "req" \in SoloPCs /\ "req" \in PrintPCs
  BY DEF SoloPCs, PCs, SwitchPCs, PanicPCs, PrintPCs
<1>9. Solo(u) /\ Printing(u)
  BY <1>7, <1>8 DEF Solo, Printing
<1>10. StackOK'
  <2>1. \A p \in Threads : <<b>> \in Seq(Frames) /\ Len(<<b>>) = 1 /\ <<b>>[1] = b
    OBVIOUS
  <2>2. ASSUME NEW p \in Proc
        PROVE  stk'[p] \in Seq(Frames) /\ Len(stk'[p]) > 0 /\ stk'[p][Len(stk'[p])].pc = "body"
    <3>1. CASE p = Idle
      BY <1>4, <1>6, <3>1
    <3>2. CASE p \in Threads
      <4>1. PICK v \in Seq(Frames) : v = <<b>> /\ Len(v) = 1 /\ v[1] = b
        BY <2>1, <3>2
      <4>2. stk'[p] = v
        BY <1>5, <3>2, <4>1
      <4> QED BY <1>4, <4>1, <4>2
    <3> QED BY <3>1, <3>2 DEF Proc
  <2>3. stk' = [p \in Proc |-> stk'[p]]
    BY <1>3 DEF PrintStack
  <2>4. stk' \in [Proc -> Seq(Frames)]
    BY <2>2, <2>3
  <2> QED BY <2>2, <2>4 DEF StackOK
<1>11. repeat' \in Nat /\ repeat' <= Cardinality(Entered(u))
  <2>1. PICK n \in Nat : n = Cardinality(Entered(u))
    BY EnteredFinite
  <2> QED BY <1>2, <2>1
<1>12. Alone'
  <2>1. intr' = TRUE
    BY <1>1, <1>2, Zenon DEF Alone
  <2>2. u[Len(u)] = At("body")
    BY <1>4, <1>6
  <2> QED BY <1>1, <1>4, <1>5, <1>6, <1>9, <1>10, <1>11, <2>1, <2>2 DEF Alone
<1>13. Zeroed'
  BY <1>1 DEF Zeroed, BootTicks
<1>14. FirstFrees(stk[Idle])'
  BY <1>6, <1>7, <1>8 DEF FirstFrees
<1>15. Printing(stk[Idle])'
  BY <1>6, <1>9
<1>16. value' \in {0, 1}
  BY DEF Starting
<1> QED BY <1>12, <1>13, <1>14, <1>15, <1>16 DEF Starting, EarlyPhases

\* The parts of kern_init up to init_sched, which leaves the lock free.
LEMMA StartKern ==
    ASSUME Starting, kern_init, hit \in BOOLEAN
    PROVE  Starting' \/ Settled'
<1>1. cpu = Idle /\ pc = "body"
  BY Zenon DEF kern_init, init_mm, swap_init, init_sched, thread_idle, init_timer,
     init_kbd, enable, console_init, console_clear, Step
<1>2. \/ phase = "init_mm" /\ init_mm
      \/ phase = "swap_init" /\ swap_init
      \/ phase = "init_sched" /\ init_sched
  BY Zenon DEF Starting, kern_init, init_mm, swap_init, init_sched, thread_idle, init_timer,
     init_kbd, enable, console_init, console_clear, Step, EarlyPhases
<1>3. Alone /\ Zeroed /\ Idle \in Proc
  BY DEF Starting, Proc
<1>4. CASE phase = "init_mm" /\ init_mm
  <2>1. /\ phase' = "swap_init" /\ intr' = TRUE
        /\ UNCHANGED <<cpu, current, ready, state, ticks, holder, repeat, value, waiters, burst,
                       failed, stk>>
    BY <1>4, Zenon DEF init_mm, Step, lockVars
  <2>2. Alone'
    BY <1>1, <1>3, <2>1, AloneOn
  <2>3. Zeroed'
    BY <1>3, <2>1 DEF Zeroed, BootTicks
  <2>4. Printing(stk[Idle])' /\ FirstFrees(stk[Idle])'
    BY <2>1 DEF Starting, Printing, FirstFrees
  <2> QED BY <2>1, <2>2, <2>3, <2>4 DEF Starting, EarlyPhases
<1>5. CASE phase = "swap_init" /\ swap_init
  <2>1. /\ phase' = "init_sched" /\ Call("req", "body")
        /\ UNCHANGED <<cpu, current, ready, state, ticks, holder, repeat, value, waiters, burst,
                       failed, intr>>
    BY <1>5, Zenon DEF swap_init, Step, lockVars
  <2> QED BY <1>1, <1>5, <2>1, StartPrint
<1>6. CASE phase = "init_sched" /\ init_sched
  <2>1. stk = Bodies /\ repeat = 0 /\ Len(stk[Idle]) = 1 /\ phase # "init_mm"
    BY <1>1, <1>3, <1>6, AloneBody
  <2>2. value = 1
    BY <1>6, <2>1 DEF Starting, FirstFrees
  <2>3. /\ phase' = "thread_idle" /\ Base' /\ lock_init' /\ ticks' = BootTicks
        /\ UNCHANGED <<cpu, stk, failed>>
    BY <1>3, <1>6, <2>1, <2>2, InitSched
  <2>4. current' = Idle /\ UNCHANGED <<ready, state, intr, repeat>>
    BY <1>6, Zenon DEF init_sched, Step, lockVars
  <2>5. Alone'
    BY <1>1, <1>3, <2>1, <2>3, <2>4, AloneOn
  <2>6. WaitState'
    <3>1. /\ \A p \in Proc : LowStack(stk[p])
          /\ Window(stk[cpu], 0) /\ 0 \in 0 .. Len(stk[cpu])
      BY <1>1, <1>3, <2>1, BodiesLow DEF Bodies
    <3>2. Sleeping'
      BY <2>3, <3>1 DEF Sleeping
    <3>3. Free(stk[cpu])'
      BY <1>1, <1>3, <2>3, <3>1 DEF Free, lock_init
    <3>4. (0 \in 0 .. Len(stk[cpu]) /\ Window(stk[cpu], 0))'
      BY <2>3, <3>1
    <3> QED BY <3>2, <3>3, <3>4 DEF WaitState, Modes
  <2>7. \A p \in Threads : ticks'[p] # 0
    <3>1. \A p \in Threads : ticks'[p] = Prio[p] /\ p \in Proc
      BY <2>3, KernelAssumption DEF BootTicks, Proc
    <3> QED BY <3>1, KernelAssumption
  <2>8. Untouched(phase)'
    BY <1>3, <2>3, <2>4 DEF Untouched, Zeroed
  <2>9. holder' = NULL
    BY <2>3 DEF lock_init
  <2> QED BY <2>3, <2>4, <2>5, <2>6, <2>7, <2>8, <2>9 DEF Settled, Phases, EarlyPhases
<1> QED BY <1>2, <1>4, <1>5, <1>6

\* What the lock functions and schedule() leave alone.
LEMMA SettledEffects ==
    ASSUME Execute, failed' = {}, pc \in SoloPCs, ready = <<>>, pc = "up" => waiters = <<>>,
           current = Idle, ticks \in [Proc -> 0 .. 255]
    PROVE  /\ holder' \in {holder, NULL, Idle}
           /\ waiters' = <<>> => waiters = <<>> /\ UNCHANGED state
           /\ \A p \in Threads : ticks'[p] = ticks[p]
<1>1. ~ \E msg : Fail(msg)
  BY DEF Fail
<1>2. ~(switch_thread \/ switch_to \/ switch_end \/ panic)
  BY DEF switch_thread, switch_to, switch_end, panic, SoloPCs, SwitchPCs, PanicPCs
<1>3. holder' \in {holder, NULL, Idle}
  <2>1. holder' = holder \/ holder' = NULL \/ holder' = current
    BY <1>2, Zenon DEF Execute, lockVars, req_lock, sema_down, thread_block_end,
       set_holder, check_repeat, set_repeat, console_done, check_holder, release_repeat,
       clear_holder, clear_repeat, sema_up, schedule, iret
  <2> QED BY <2>1
<1>4. ASSUME waiters' = <<>> PROVE waiters = <<>> /\ UNCHANGED state
  <2>1. CASE sema_down
    <3>1. ASSUME waiters' = Append(waiters, current) PROVE FALSE
      BY <1>4, <3>1
    <3> QED BY <1>4, <2>1, <3>1, Zenon DEF sema_down
  <2>2. CASE sema_up
    <3>1. pc # "upinc"
      BY DEF SoloPCs
    <3>2. pc = "up"
      BY <2>2, <3>1 DEF sema_up
    <3> QED BY <2>2, <3>2, Zenon DEF sema_up
  <2>3. CASE schedule
    BY <1>4, <2>3, Zenon DEF schedule, lockVars
  <2> QED BY <1>2, <1>4, <2>1, <2>2, <2>3, Zenon DEF Execute, lockVars, threadVars, req_lock,
       thread_block_end, set_holder, check_repeat, set_repeat, console_done, check_holder,
       release_repeat, clear_holder, clear_repeat, iret
<1>5. ASSUME NEW p \in Threads PROVE ticks'[p] = ticks[p]
  <2>1. ticks' = ticks \/ ticks' = [ticks EXCEPT ![Idle] = Prio[Idle]]
    BY <1>2, Zenon DEF Execute, threadVars, req_lock, sema_down, thread_block_end,
       set_holder, check_repeat, set_repeat, console_done, check_holder, release_repeat,
       clear_holder, clear_repeat, sema_up, schedule, iret
  <2>2. p # Idle /\ p \in Proc
    BY KernelAssumption DEF Proc
  <2> QED BY <2>1, <2>2
<1> QED BY <1>3, <1>4, <1>5

LEMMA SettledExecute ==
    ASSUME Settled, Execute, failed' = {}, UNCHANGED phase
    PROVE  Settled'
<1>1. Alone /\ Base /\ WaitState /\ current = Idle /\ ready = <<>>
  BY DEF Settled, Alone
<1>2. pc = "up" => waiters = <<>>
  BY <1>1, NobodyToWake
<1>3. Alone' /\ UNCHANGED <<cpu, current, ready, burst>> /\ pc \in SoloPCs
  BY <1>1, <1>2, SoloExecute
<1>4. ~(switch_thread \/ switch_to \/ switch_end \/ panic)
  BY <1>3 DEF switch_thread, switch_to, switch_end, panic, SoloPCs, SwitchPCs, PanicPCs
<1>5. Base' /\ (QuantumLeft => QuantumLeft')
  <2>1. CASE schedule
    <3>1. Base'
      BY <1>1, <2>1, ScheduleBase
    <3>2. ASSUME QuantumLeft PROVE QuantumLeft'
      <4>1. IInv'
        BY <1>1, <2>1, <3>2, ScheduleIInv DEF IInv
      <4> QED BY <4>1 DEF IInv
    <3> QED BY <3>1, <3>2
  <2>2. CASE ~schedule
    <3>1. Kept
      BY <1>1, <1>4, <2>2, ReqLockIInv, SemaDownIInv, LockStepsIInv, CheckStepsIInv, SemaUpIInv,
         IretPanicIInv DEF Execute
    <3> QED BY <3>1 DEF Kept
  <2> QED BY <2>1, <2>2
<1>6. WaitState'
  BY <1>1, <1>4, AcquireWait, ReleaseWait, OutsideWait, ScheduleWait DEF Execute
<1>7. /\ holder' \in {holder, NULL, Idle}
      /\ waiters' = <<>> => waiters = <<>> /\ UNCHANGED state
      /\ \A p \in Threads : ticks'[p] = ticks[p]
  <2>1. ticks \in [Proc -> 0 .. 255]
    BY <1>1 DEF Base, TypeOK
  <2> QED BY <1>1, <1>2, <1>3, <2>1, SettledEffects
<1>8. holder' \in {NULL, Idle} /\ (\A p \in Threads : ticks'[p] # 0)
  BY <1>7 DEF Settled
<1>9. waiters' = <<>> => Untouched(phase)'
  BY <1>7 DEF Settled, Untouched
<1>10. phase' \in Phases \ (EarlyPhases \cup {"Test"}) /\ (phase' = "thread_idle" \/ QuantumLeft')
  BY <1>5 DEF Settled
<1>11. current' = Idle
  BY <1>1, <1>3
<1> QED BY <1>3, <1>5, <1>6, <1>8, <1>9, <1>10, <1>11 DEF Settled

LEMMA SettledInterrupt ==
    ASSUME Settled, (timer_callback /\ phase # "thread_idle") \/ printing_interrupt, UNCHANGED phase
    PROVE  Settled'
<1>1. Alone /\ Base /\ WaitState /\ current = Idle
  BY DEF Settled
<1>2. Alone' /\ UNCHANGED <<cpu, current, ready, holder, repeat, value, waiters, state, failed>>
  BY <1>1, SoloInterrupt
<1>3. WaitState'
  BY <1>1, InterruptWait
<1>4. Base' /\ (phase = "thread_idle" \/ QuantumLeft')
  <2>1. CASE timer_callback /\ phase # "thread_idle"
    <3>1. IInv
      BY <1>1, <2>1 DEF Settled, IInv
    <3>2. IInv'
      BY <2>1, <3>1, TimerIInv
    <3> QED BY <3>2 DEF IInv
  <2>2. CASE printing_interrupt
    <3>1. Kept
      BY <1>1, <2>2, PrintingIInv
    <3> QED BY <3>1 DEF Kept, Settled
  <2> QED BY <2>1, <2>2
<1>5. ASSUME NEW p \in Threads PROVE ticks'[p] = ticks[p]
  <2>1. UNCHANGED ticks \/ ticks' = [ticks EXCEPT ![current] = (@ - 1) % 256]
    BY Zenon DEF timer_callback, printing_interrupt, threadVars
  <2>2. p # current /\ p \in Proc /\ ticks \in [Proc -> 0 .. 255]
    BY <1>1, KernelAssumption DEF Proc, Base, TypeOK
  <2> QED BY <2>1, <2>2
<1>6. holder' \in {NULL, Idle} /\ (\A p \in Threads : ticks'[p] # 0) /\ current' = Idle
  BY <1>1, <1>2, <1>5 DEF Settled
<1>7. waiters' = <<>> => Untouched(phase)'
  BY <1>2 DEF Settled, Untouched
<1>8. phase' \in Phases \ (EarlyPhases \cup {"Test"})
  BY DEF Settled
<1> QED BY <1>2, <1>3, <1>4, <1>6, <1>7, <1>8 DEF Settled

\* Between two parts of kern_init the lock is free and nobody has waited.
LEMMA SettledBody ==
    ASSUME Settled, pc = "body"
    PROVE  stk = Bodies /\ lock_init /\ intr /\ Untouched(phase)
<1>1. Alone /\ WaitState /\ cpu = Idle /\ Idle \in Proc /\ phase # "init_mm"
  BY DEF Settled, Alone, Proc, EarlyPhases
<1>2. stk = Bodies /\ repeat = 0 /\ Len(stk[Idle]) = 1 /\ intr
  BY <1>1, AloneBody
<1>3. PICK t : t = stk[cpu]
  OBVIOUS
<1>4. Len(t) = 1 /\ PcAt(t, 1) \in Low
  <2>1. LowStack(t)
    BY <1>1, <1>2, <1>3, BodiesLow DEF Bodies
  <2>2. Len(t) = 1 /\ 1 \in 1 .. 1
    BY <1>1, <1>2, <1>3
  <2> QED BY <2>1, <2>2 DEF LowStack
<1>5. PICK w \in 0 .. Len(t) : Window(t, w) /\ Modes(t, w)
  BY <1>1, <1>3 DEF WaitState
<1>6. PcAt(t, 1) = "body"
  <2>1. At("body").pc = "body"
    BY AtType DEF PCs
  <2>2. t = <<At("body")>>
    BY <1>1, <1>2, <1>3 DEF Bodies
  <2>3. t[1].pc = "body"
    <3>1. PICK b : b = At("body")
      OBVIOUS
    <3>2. <<b>>[1] = b
      OBVIOUS
    <3> QED BY <2>1, <2>2, <3>1, <3>2
  <2> QED BY <1>4, <2>3 DEF PcAt
<1>7. \A a \in w + 1 .. Len(t) : a = 1
  BY <1>4, <1>5
<1>8. "body" \notin Between /\ "body" \notin Owning
  BY DEF Between, Owning
<1>9. ~Token(t, w) /\ ~Held(t, w)
  BY <1>6, <1>7, <1>8 DEF Token, Held, TokenAt, HeldAt
<1>10. ~Other(t, w)
  BY DEF Settled, Other
<1>11. Free(t)
  BY <1>5, <1>9, <1>10 DEF Modes
<1>12. lock_init
  BY <1>2, <1>11 DEF Free, lock_init
<1>13. waiters = <<>>
  BY <1>12 DEF lock_init
<1> QED BY <1>2, <1>12, <1>13 DEF Settled

\* thread_idle gives IDLE its quantum.
LEMMA SettledIdle ==
    ASSUME Settled, thread_idle
    PROVE  Settled'
<1>1. /\ pc = "body" /\ phase = "thread_idle" /\ phase' = "init_timer"
      /\ state' = [state EXCEPT ![Idle] = "RUNNING"]
      /\ ticks' = [ticks EXCEPT ![Idle] = Prio[Idle]]
      /\ UNCHANGED <<cpu, current, ready, holder, repeat, value, waiters, burst,
                     failed, intr, stk, hit>>
  BY Zenon DEF thread_idle, Step, lockVars
<1>2. Alone /\ Base /\ WaitState /\ Idle \in Proc /\ Threads \subseteq Proc /\ Idle \notin Threads
  BY KernelAssumption DEF Settled, Proc
<1>3. Alone'
  BY <1>1, <1>2, AloneOn
<1>4. StackOK /\ TicksOK /\ RestOK /\ SchedTop /\ ArgOK
  BY <1>2, TypeParts DEF Base
<1>5. PICK n \in 1 .. 255 : n = Prio[Idle]
  BY <1>2, KernelAssumption
<1>6. ticks' \in [Proc -> 0 .. 255] /\ ticks'[Idle] = n /\ \A p \in Threads : ticks'[p] = ticks[p]
  <2>1. ticks \in [Proc -> 0 .. 255] /\ n \in 0 .. 255
    BY <1>4 DEF TicksOK
  <2>2. ticks' = [ticks EXCEPT ![Idle] = n]
    BY <1>1, <1>5
  <2> QED BY <1>2, <2>1, <2>2
<1>7. TicksOK'
  <2>1. \A p \in Threads : ticks'[p] <= Prio[p]
    BY <1>2, <1>4, <1>6 DEF TicksOK
  <2>2. ticks'[Idle] <= Prio[Idle]
    BY <1>5, <1>6
  <2> QED BY <1>6, <2>1, <2>2 DEF TicksOK, Proc
<1>8. \A p \in Proc : ticks'[p] # 0
  <2>1. \A p \in Threads : ticks'[p] # 0
    BY <1>6 DEF Settled
  <2>2. ticks'[Idle] # 0
    BY <1>5, <1>6
  <2> QED BY <2>1, <2>2 DEF Proc
<1>9. QuantumLeft'
  BY <1>8 DEF QuantumLeft
<1>10. Base'
  <2>1. state' \in [Proc -> States]
    BY <1>1, <1>4 DEF RestOK, States
  <2>2. RestOK'
    BY <1>1, <1>4, <2>1 DEF RestOK
  <2>3. StackOK' /\ SchedTop' /\ ArgOK'
    BY <1>1, <1>4 DEF StackOK, SchedTop, ArgOK
  <2> QED BY <1>7, <2>2, <2>3 DEF Base, TypeOK, StackOK, TicksOK, RestOK
<1>11. WaitState'
  BY <1>1, <1>2, WaitSame
<1>12. Untouched(phase)'
  <2>1. state = [p \in Proc |-> IF p = Idle /\ phase # "thread_idle" THEN "RUNNING" ELSE "CREATE"]
    BY <1>1, SettledBody DEF Untouched
  <2>2. state = [p \in Proc |-> "CREATE"]
    BY <1>1, <2>1
  <2>3. state' = [p \in Proc |-> IF p = Idle THEN "RUNNING" ELSE "CREATE"]
    BY <1>1, <1>2, <2>2
  <2> QED BY <1>1, <2>3 DEF Untouched
<1>13. current' = Idle /\ holder' \in {NULL, Idle} /\ \A p \in Threads : ticks'[p] # 0
  BY <1>1, <1>2, <1>8 DEF Settled
<1> QED BY <1>1, <1>3, <1>9, <1>10, <1>11, <1>12, <1>13 DEF Settled, Phases, EarlyPhases

\* The other parts of kern_init: console_init writes what is there already.
LEMMA SettledParts ==
    ASSUME Settled, kern_init, phase # "thread_idle"
    PROVE  /\ pc = "body"
           /\ UNCHANGED <<cpu, current, ready, state, ticks, burst, failed, hit, stk>>
           /\ UNCHANGED <<holder, repeat, value, waiters>>
           /\ intr' = intr \/ intr' = TRUE
           /\ phase' \in {"init_kbd", "sti", "holder", "repeat", "value", "waiters",
                          "console_clear"} \/ (phase = "console_clear" /\ phase' = "Test")
<1>1. phase \notin {"init_mm", "swap_init", "init_sched", "thread_idle"}
  BY DEF Settled, EarlyPhases
<1>2. init_timer \/ init_kbd \/ enable \/ console_init \/ console_clear
  BY <1>1, Zenon DEF kern_init, init_mm, swap_init, init_sched, thread_idle, Step
<1>3. pc = "body"
  BY <1>2, Zenon DEF init_timer, init_kbd, enable, console_init, console_clear, Step
<1>4. holder = NULL /\ repeat = 0 /\ value = 1 /\ waiters = <<>>
  BY <1>3, SettledBody DEF lock_init
<1>5. /\ UNCHANGED <<cpu, current, ready, state, ticks, burst, failed, hit, stk>>
      /\ UNCHANGED <<holder, repeat, value, waiters>>
      /\ intr' = intr \/ intr' = TRUE
  BY <1>2, <1>4, Zenon DEF init_timer, init_kbd, enable, console_init, console_clear,
     Step, lockVars
<1>6. phase' \in {"init_kbd", "sti", "holder", "repeat", "value", "waiters",
                  "console_clear"} \/ (phase = "console_clear" /\ phase' = "Test")
  BY <1>2, Zenon DEF init_timer, init_kbd, enable, console_init, console_clear, Step
<1> QED BY <1>3, <1>5, <1>6

LEMMA SettledKern ==
    ASSUME Settled, kern_init, phase' # "Test"
    PROVE  Settled'
<1>1. CASE phase = "thread_idle"
  <2>1. thread_idle
    BY <1>1, Zenon DEF kern_init, init_mm, swap_init, init_sched, init_timer,
       init_kbd, enable, console_init, console_clear, Step
  <2> QED BY <2>1, SettledIdle
<1>2. CASE phase # "thread_idle"
  <2>1. /\ pc = "body"
        /\ UNCHANGED <<cpu, current, ready, state, ticks, burst, failed, hit, stk>>
        /\ UNCHANGED <<holder, repeat, value, waiters>>
        /\ intr' = intr \/ intr' = TRUE
        /\ phase' \in {"init_kbd", "sti", "holder", "repeat", "value", "waiters",
                       "console_clear"}
    BY <1>2, SettledParts
  <2>2. /\ Alone /\ Base /\ WaitState /\ QuantumLeft /\ phase # "init_mm"
        /\ Untouched(phase) /\ TypeOK
    BY <1>2, <2>1, SettledBody DEF Settled, EarlyPhases, Base
  <2>3. Alone' /\ intr' = TRUE
    BY <2>1, <2>2, AloneOn
  <2>4. Base' /\ QuantumLeft'
    <3>1. TypeOK'
      BY <2>1, <2>2, <2>3 DEF TypeOK
    <3>2. ArgOK' /\ QuantumLeft'
      BY <2>1, <2>2 DEF Base, ArgOK, QuantumLeft
    <3>3. SchedTop'
      <4>1. stk = Bodies
        BY <2>1, SettledBody
      <4>2. NoSched
        BY <4>1, BodiesFacts
      <4> QED BY <2>1, <4>2 DEF NoSched, SchedTop
    <3> QED BY <3>1, <3>2, <3>3 DEF Base
  <2>5. WaitState'
    BY <2>1, <2>2, WaitSame
  <2>6. Untouched(phase)'
    BY <1>2, <2>1, <2>2 DEF Untouched
  <2>7. current' = Idle /\ holder' \in {NULL, Idle} /\ \A p \in Threads : ticks'[p] # 0
    BY <2>1 DEF Settled
  <2>8. phase' \in Phases \ (EarlyPhases \cup {"Test"})
    BY <2>1 DEF Phases, EarlyPhases
  <2> QED BY <2>3, <2>4, <2>5, <2>6, <2>7, <2>8 DEF Settled
<1> QED BY <1>1, <1>2

\* What holds until Test() begins, if no assertion has failed.
BootEndInv == failed = {} /\ phase # "Test" => Starting \/ Settled

LEMMA InitBootEndInv == BootInit => BootEndInv
  BY StartInit DEF BootEndInv

\* Leaving everything alone.
LEMMA ReachStutter ==
    ASSUME UNCHANGED allVars
    PROVE  (Starting => Starting') /\ (Settled => Settled')
<1>1. /\ UNCHANGED <<cpu, current, intr, stk, ready, state, ticks, burst, failed, hit, phase>>
      /\ UNCHANGED <<holder, repeat, value, waiters>>
  BY DEF allVars, vars, threadVars, lockVars, bootVars
<1>2. StackOK => StackOK'
  BY <1>1 DEF StackOK
<1>3. Alone => Alone'
  BY <1>1, <1>2 DEF Alone
<1>4. Zeroed => Zeroed'
  BY <1>1 DEF Zeroed
<1>5. Starting => Starting'
  BY <1>1, <1>3, <1>4 DEF Starting, Printing, FirstFrees
<1>6. Base /\ intr \in BOOLEAN => Base'
  BY <1>1 DEF Base, TypeOK, SchedTop, ArgOK
<1>7. WaitState => WaitState'
  BY <1>1, WaitSame
<1>8. (QuantumLeft => QuantumLeft') /\ (Untouched(phase) => Untouched(phase)')
  BY <1>1 DEF QuantumLeft, Untouched
<1>9. ASSUME Settled PROVE Settled'
  <2>1. Alone' /\ Base' /\ WaitState'
    BY <1>3, <1>6, <1>7, <1>9 DEF Settled, Alone
  <2>2. /\ current' = Idle /\ holder' \in {NULL, Idle} /\ \A p \in Threads : ticks'[p] # 0
        /\ phase' \in Phases \ (EarlyPhases \cup {"Test"})
        /\ (waiters' = <<>> => Untouched(phase)') /\ (phase' = "thread_idle" \/ QuantumLeft')
    BY <1>1, <1>8, <1>9 DEF Settled
  <2> QED BY <2>1, <2>2 DEF Settled
<1> QED BY <1>5, <1>9

\* Every step of booting keeps the invariant.
LEMMA NextBootEndInv == BootInv /\ BootEndInv /\ [BootNext]_allVars => BootEndInv'
<1> SUFFICES ASSUME BootInv, BootEndInv, [BootNext]_allVars, failed' = {}, phase' # "Test"
             PROVE  Starting' \/ Settled'
  BY DEF BootEndInv
<1>1. CASE kern_init
  <2>1. failed = {} /\ phase # "Test"
    BY <1>1, Zenon DEF kern_init, init_mm, swap_init, init_sched, thread_idle, init_timer,
       init_kbd, enable, console_init, console_clear, Step
  <2>2. Starting \/ Settled
    BY <2>1 DEF BootEndInv
  <2>3. hit \in BOOLEAN
    BY DEF BootInv
  <2> QED BY <1>1, <2>2, <2>3, StartKern, SettledKern
<1>2. CASE ~kern_init
  <2>1. [Next]_vars /\ UNCHANGED phase
    BY <1>2, BootSteps DEF bootVars, BootPrint
  <2>2. Starting \/ Settled
    <3>1. failed = {}
      BY <2>1, FailedStays
    <3> QED BY <2>1, <3>1 DEF BootEndInv
  <2>3. CASE Execute
    BY <2>1, <2>2, <2>3, StartExecute, SettledExecute
  <2>4. CASE BootPrint
    <3>1. printing_interrupt
      BY <2>4 DEF BootPrint
    <3> QED BY <2>1, <2>2, <3>1, StartInterrupt, SettledInterrupt
  <2>5. CASE BootTimer
    <3>1. timer_callback /\ "timer" \in handlers
      BY <2>5 DEF BootTimer
    <3>2. phase \notin EarlyPhases \cup {"thread_idle"}
      BY <3>1 DEF BootInv
    <3>3. Settled /\ phase # "thread_idle"
      BY <2>2, <3>2 DEF Starting
    <3> QED BY <2>1, <3>1, <3>3, SettledInterrupt
  <2>6. CASE UNCHANGED allVars
    BY <2>2, <2>6, ReachStutter
  <2>7. ~Running
    BY <2>1 DEF Running
  <2>8. Execute \/ BootPrint \/ BootTimer \/ UNCHANGED allVars
    BY <1>2, <2>7, Zenon DEF BootNext, BootExecute, ExecuteAt
  <2> QED BY <2>3, <2>4, <2>5, <2>6, <2>8
<1> QED BY <1>1, <1>2

\* Whatever the interrupts print while kern_init runs, before and after
\* there is a current thread and while console_init writes the lock again:
\* if no assertion has failed when Test() begins, it begins in the initial
\* state of module Kernel, with the lock free and IDLE current on its own
\* stack with some quantum left.
THEOREM ReachesKernelInitCorrect == BootSpec => ReachesKernelInit
<1>1. BootInit => BootInv /\ BootEndInv
  BY InitBootInv, InitBootEndInv
<1>2. BootInv /\ BootEndInv /\ [BootNext]_allVars => BootInv' /\ BootEndInv'
  BY NextBootInv, NextBootEndInv
<1>3. ASSUME BootEndInv, [BootNext]_allVars, phase # "Test", phase' = "Test", failed = {}
      PROVE  /\ lock_init' /\ intr'
             /\ current' = Idle /\ cpu' = Idle /\ ready' = <<>>
             /\ stk' = [p \in Proc |-> <<At("body")>>]
             /\ state' = [p \in Proc |-> IF p = Idle THEN "RUNNING" ELSE "CREATE"]
             /\ ticks'[Idle] \in 1 .. Prio[Idle]
  <2>1. kern_init
    <3>1. UNCHANGED phase => FALSE
      BY <1>3
    <3> QED BY <1>3, <3>1, BootSteps DEF bootVars, BootPrint
  <2>2. phase = "console_clear"
    BY <1>3, <2>1, Zenon DEF kern_init, init_mm, swap_init, init_sched, thread_idle, init_timer,
       init_kbd, enable, console_init, console_clear, Step
  <2>3. Settled
    BY <1>3, <2>2 DEF BootEndInv, Starting, EarlyPhases
  <2>4. /\ pc = "body"
        /\ UNCHANGED <<cpu, current, ready, state, ticks, burst, failed, hit, stk>>
        /\ UNCHANGED <<holder, repeat, value, waiters>>
        /\ intr' = intr \/ intr' = TRUE
    BY <2>1, <2>2, <2>3, SettledParts
  <2>5. stk = Bodies /\ lock_init /\ intr /\ Untouched(phase)
    BY <2>3, <2>4, SettledBody
  <2>6. cpu = Idle /\ current = Idle /\ ready = <<>> /\ QuantumLeft /\ Base /\ Idle \in Proc
    BY <2>2, <2>3 DEF Settled, Alone, Proc
  <2>7. ticks[Idle] \in 1 .. Prio[Idle]
    <3>1. ticks[Idle] # 0
      BY <2>4, <2>6 DEF QuantumLeft, pc
    <3>2. TicksOK
      BY <2>6, TypeParts DEF Base
    <3>3. ticks[Idle] \in 0 .. 255 /\ ticks[Idle] <= Prio[Idle] /\ Prio[Idle] \in 1 .. 255
      BY <2>6, <3>2, KernelAssumption DEF TicksOK
    <3>4. PICK n \in 0 .. 255, m \in 1 .. 255 : n = ticks[Idle] /\ m = Prio[Idle]
      BY <3>3
    <3>5. n \in 1 .. m
      BY <3>1, <3>3, <3>4
    <3> QED BY <3>4, <3>5
  <2>8. lock_init' /\ intr'
    BY <2>4, <2>5 DEF lock_init
  <2>9. state' = [p \in Proc |-> IF p = Idle THEN "RUNNING" ELSE "CREATE"]
    BY <2>2, <2>4, <2>5 DEF Untouched
  <2> QED BY <2>4, <2>5, <2>6, <2>7, <2>8, <2>9 DEF Bodies
<1>4. /\ BootEndInv /\ [BootNext]_allVars
      => [phase # "Test" /\ phase' = "Test" /\ failed = {} =>
          /\ lock_init' /\ intr'
          /\ current' = Idle /\ cpu' = Idle /\ ready' = <<>>
          /\ stk' = [p \in Proc |-> <<At("body")>>]
          /\ state' = [p \in Proc |-> IF p = Idle THEN "RUNNING" ELSE "CREATE"]
          /\ ticks'[Idle] \in 1 .. Prio[Idle]]_allVars
  BY <1>3
<1> QED BY <1>1, <1>2, <1>4, PTL DEF BootSpec, ReachesKernelInit

=============================================================================
