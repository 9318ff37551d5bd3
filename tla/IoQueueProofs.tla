--------------------------- MODULE IoQueueProofs ---------------------------
(***************************************************************************)
(* Proofs about module IoQueue, for every set of consumers and every size  *)
(* of the ring.                                                            *)
(***************************************************************************)
EXTENDS IoQueue, CommonLemmas, FiniteSetTheorems

\* next_pos without the remainder: it adds one and wraps at the end.
LEMMA NextPosValue ==
    ASSUME NEW p \in 0 .. buf_size - 1
    PROVE  next_pos(p) = IF p + 1 = buf_size THEN 0 ELSE p + 1
  BY IoQueueAssumption DEF next_pos

\* next_pos keeps an index inside the ring and moves it.
LEMMA NextPosRange ==
    ASSUME NEW p \in 0 .. buf_size - 1
    PROVE  next_pos(p) \in 0 .. buf_size - 1 /\ next_pos(p) # p
  BY NextPosValue, IoQueueAssumption

\* ioqueue_init and the first state of the scheduler are well typed.
LEMMA InitTypeOK == Init => TypeOK
<1>1. Cardinality(Consumers) \in Nat
  BY FS_CardinalityType, IoQueueAssumption
<1>2. ASSUME Init PROVE ready \in Seq(Proc)
  <2>1. ready \in [1 .. Cardinality(Consumers) -> Consumers]
    BY <1>2 DEF Init
  <2>2. ready \in Seq(Consumers)
    BY <1>1, <2>1, SeqDef
  <2> QED BY <2>2, SeqMonotonic DEF Proc
<1>3. ASSUME Init PROVE failed \subseteq Messages
  BY <1>3 DEF Init
<1>4. ASSUME Init PROVE /\ head \in 0 .. buf_size - 1 /\ tail \in 0 .. buf_size - 1
                        /\ buf \in [0 .. buf_size - 1 -> Nat]
                        /\ pos \in [Consumers -> 0 .. buf_size - 1]
  BY <1>4, IoQueueAssumption DEF Init
<1>5. ASSUME Init PROVE /\ consumer \in Consumers \cup {NULL}
                        /\ holder \in Consumers \cup {NULL}
                        /\ current \in Proc
                        /\ state \in [Proc -> {"RUNNING", "READY", "BLOCKED"}]
                        /\ pc \in [Consumers -> Inside \cup {"top"}]
                        /\ dead \subseteq Proc
  BY <1>5, Zenon DEF Init, Proc
<1>6. ASSUME Init PROVE /\ byte \in [Consumers -> Nat] /\ clear \in [Proc -> Nat]
                        /\ keys \in Nat /\ typed \in Seq(Nat) /\ got \in Seq(Nat)
                        /\ raced \in BOOLEAN
  BY <1>6, EmptySeq DEF Init
<1> QED BY <1>2, <1>3, <1>4, <1>5, <1>6 DEF TypeOK

\* A failed assertion keeps the state well typed.
LEMMA FailType ==
    ASSUME TypeOK, NEW msg \in Messages, Fail(msg)
    PROVE  /\ failed' \subseteq Messages /\ dead' \subseteq Proc
           /\ clear' \in [Proc -> Nat]
  BY DEF TypeOK, Fail

\* Every step keeps the state well typed.
LEMMA NextTypeOK == TypeOK /\ [Next]_vars => TypeOK'
<1> SUFFICES ASSUME TypeOK, [Next]_vars PROVE TypeOK'
  OBVIOUS
<1> USE DEF ringVars, schedVars, codeVars, Goto, Runs
<1>1. ASSUME NEW c \in Consumers, SeeCharacter(c) PROVE TypeOK'
  BY <1>1, SMTT(40) DEF TypeOK, SeeCharacter, Inside
<1>2. ASSUME NEW c \in Consumers, TestEmpty(c) PROVE TypeOK'
  BY <1>2 DEF TypeOK, TestEmpty, Inside
<1>3. ASSUME NEW c \in Consumers, LockQueue(c) PROVE TypeOK'
  <2>1. /\ failed' \subseteq Messages /\ dead' \subseteq Proc
        /\ clear' \in [Proc -> Nat]
    <3>1. CASE UNCHANGED <<failed, dead, clear>>
      BY <3>1 DEF TypeOK
    <3>2. CASE Fail("running thread must not be waiting")
      BY <3>2, FailType DEF Messages
    <3> QED BY <1>3, <3>1, <3>2, Zenon DEF LockQueue
  <2> QED BY <1>3, <2>1 DEF TypeOK, LockQueue, Inside, Proc
<1>4. ASSUME NEW c \in Consumers, ioq_wait(c) PROVE TypeOK'
  <2>1. /\ failed' \subseteq Messages /\ dead' \subseteq Proc
        /\ clear' \in [Proc -> Nat]
    <3>1. CASE UNCHANGED <<failed, dead, clear>>
      BY <3>1 DEF TypeOK
    <3>2. CASE Fail("error")
      BY <3>2, FailType DEF Messages
    <3> QED BY <1>4, <3>1, <3>2, Zenon DEF ioq_wait
  <2> QED BY <1>4, <2>1 DEF TypeOK, ioq_wait, Inside, Proc
<1>5. ASSUME NEW c \in Consumers, UnlockQueue(c) PROVE TypeOK'
  BY <1>5 DEF TypeOK, UnlockQueue, Inside
<1>6. ASSUME NEW c \in Consumers, ReadSlot(c) PROVE TypeOK'
  BY <1>6 DEF TypeOK, ReadSlot, Inside
<1>7. ASSUME NEW c \in Consumers, ReadTail(c) PROVE TypeOK'
  <2>1. next_pos(tail) \in 0 .. buf_size - 1
    BY NextPosRange DEF TypeOK
  <2> QED BY <1>7, <2>1 DEF TypeOK, ReadTail, Inside
<1>8. ASSUME NEW c \in Consumers, StoreTail(c) PROVE TypeOK'
  <2>1. got' = got \/ got' = Append(got, byte[c])
    BY <1>8, Zenon DEF StoreTail
  <2>2. got \in Seq(Nat) /\ byte[c] \in Nat
    BY <1>8 DEF TypeOK
  <2>3. Append(got, byte[c]) \in Seq(Nat)
    <3> DEFINE b == byte[c]
    <3>1. got \in Seq(Nat) /\ b \in Nat
      BY <2>2
    <3> HIDE DEF b
    <3>2. Append(got, b) \in Seq(Nat)
      BY <3>1
    <3> QED BY <3>2 DEF b
  <2>4. got' \in Seq(Nat)
    BY <2>1, <2>2, <2>3, Zenon
  <2>5. /\ tail' = pos[c] /\ byte' = [byte EXCEPT ![c] = 0] /\ pos' = [pos EXCEPT ![c] = 0]
        /\ pc' = [pc EXCEPT ![c] = "top"]
        /\ UNCHANGED <<head, buf, current, ready, state, consumer, holder, clear, failed, dead,
                       keys, typed, raced>>
    BY <1>8, Zenon DEF StoreTail
  <2>6. 0 \in 0 .. buf_size - 1 /\ pos[c] \in 0 .. buf_size - 1
    BY <1>8, IoQueueAssumption DEF TypeOK
  <2>7. byte' \in [Consumers -> Nat] /\ pos' \in [Consumers -> 0 .. buf_size - 1]
    BY <2>5, <2>6 DEF TypeOK
  <2> QED BY <2>4, <2>5, <2>6, <2>7, SMTT(40) DEF TypeOK, Inside
<1>9. CASE kbd_handler
  <2>1. next_pos(head) \in 0 .. buf_size - 1
    BY NextPosRange DEF TypeOK
  <2>2. keys' \in Nat
    <3>1. keys' = keys + 1
      BY <1>9, Zenon DEF kbd_handler
    <3> QED BY <3>1 DEF TypeOK
  <2>3. /\ tail' = tail
        /\ head' = head \/ head' = next_pos(head)
        /\ buf' = buf \/ buf' = [buf EXCEPT ![head] = keys']
        /\ typed' = typed \/ typed' = Append(typed, keys')
    BY <1>9, Zenon DEF kbd_handler, ioq_putchar
  <2>4. /\ head' \in 0 .. buf_size - 1 /\ tail' \in 0 .. buf_size - 1
        /\ buf' \in [0 .. buf_size - 1 -> Nat]
    BY <2>1, <2>2, <2>3 DEF TypeOK
  <2>7. typed' \in Seq(Nat)
    <3>1. typed \in Seq(Nat)
      BY DEF TypeOK
    <3>2. Append(typed, keys') \in Seq(Nat)
      BY <2>2, <3>1, AppendProperties, Zenon
    <3> QED BY <2>3, <3>1, <3>2
  <2>5. /\ ready' \in Seq(Proc) /\ clear' \in [Proc -> Nat]
        /\ state' \in [Proc -> {"RUNNING", "READY", "BLOCKED"}]
        /\ failed' \subseteq Messages /\ dead' \subseteq Proc
    <3>1. CASE UNCHANGED <<ready, state, clear, failed, dead>>
      BY <3>1 DEF TypeOK
    <3>2. CASE consumer # NULL /\ thread_unblock(consumer)
      <4>1. consumer \in Proc
        BY <3>2 DEF TypeOK, Proc
      <4>2. CASE ~(state[consumer] # "BLOCKED" \/ Contains(ready, consumer))
        <5>1. <<consumer>> \o ready \in Seq(Proc)
          BY <4>1 DEF TypeOK
        <5>2. /\ ready' = <<consumer>> \o ready
              /\ state' = [state EXCEPT ![consumer] = "READY"]
              /\ clear' = [clear EXCEPT ![current] = @ + 1]
              /\ UNCHANGED <<failed, dead>>
          BY <3>2, <4>2, Zenon DEF thread_unblock
        <5> QED BY <4>1, <5>1, <5>2, SMTT(40) DEF TypeOK
      <4>3. CASE state[consumer] # "BLOCKED" \/ Contains(ready, consumer)
        <5>1. PICK msg \in Messages : Fail(msg) /\ UNCHANGED <<ready, state>>
          BY <3>2, <4>3, Zenon DEF thread_unblock, Messages
        <5> QED BY <5>1, FailType DEF TypeOK
      <4> QED BY <4>2, <4>3
    <3> QED BY <1>9, <3>1, <3>2, Zenon DEF kbd_handler, ioq_putchar
  <2>6. UNCHANGED <<current, pc, byte, pos, consumer, holder, got, raced>>
    BY <1>9, Zenon DEF kbd_handler, ioq_putchar
  <2> QED BY <2>2, <2>4, <2>5, <2>6, <2>7 DEF TypeOK
<1>10. CASE wakeup_end
  <2>1. clear[current] - 1 \in Nat
    BY <1>10 DEF TypeOK, wakeup_end
  <2> QED BY <1>10, <2>1 DEF TypeOK, wakeup_end
<1>11. CASE schedule
  <2>1. Head(ready) \in Proc /\ Tail(ready) \in Seq(Proc)
    BY <1>11, HeadTailProperties DEF TypeOK, schedule
  <2>2. Append(Tail(ready), current) \in Seq(Proc)
    BY <2>1, AppendProperties DEF TypeOK
  <2> QED BY <1>11, <2>1, <2>2 DEF TypeOK, schedule
<1>12. CASE UNCHANGED vars
  BY <1>12 DEF TypeOK, vars
<1>13. CASE printk_fails
  <2>1. Fail("console lock") /\ "console lock" \in Messages
    BY <1>13 DEF printk_fails, Messages
  <2> QED BY <1>13, <2>1, FailType DEF TypeOK, printk_fails
<1>14. CASE schedule_fails
  <2>1. Fail("console lock") /\ "console lock" \in Messages
    BY <1>14 DEF schedule_fails, Messages
  <2>2. Head(ready) \in Proc /\ Tail(ready) \in Seq(Proc)
    BY <1>14, HeadTailProperties DEF TypeOK, schedule_fails
  <2>3. Append(Tail(ready), current) \in Seq(Proc)
    BY <2>2, AppendProperties DEF TypeOK
  <2> QED BY <1>14, <2>1, <2>2, <2>3, FailType DEF TypeOK, schedule_fails
<1> QED BY <1>1, <1>2, <1>3, <1>4, <1>5, <1>6, <1>7, <1>8, <1>9, <1>10, <1>11, <1>12, <1>13,
           <1>14
        DEF Next, Consume

\* The keyboard buffer and its threads are well typed in every reachable
\* state: the indices of the ring never leave it.
THEOREM TypeCorrect == Spec => []TypeOK
<1>1. Init => TypeOK
  BY InitTypeOK
<1>2. TypeOK /\ [Next]_vars => TypeOK'
  BY NextTypeOK
<1> QED BY <1>1, <1>2, PTL DEF Spec

(***************************************************************************)
(* The inductive invariant: what holds as long as no two consumers have    *)
(* been past their test of the queue together.  The first three parts say  *)
(* that the consumer inside ioq_getchar is alone, has a character to read, *)
(* and holds in its locals what the ring still says; the next two that the *)
(* waiting path is never taken and that the scheduler's queue is sound;    *)
(* the last is the property itself.                                        *)
(***************************************************************************)
Alone     == \A c, d \in Consumers : pc[c] # "top" /\ pc[d] # "top" => c = d
HasData   == \A c \in Consumers : pc[c] # "top" => head # tail
LocalsOK  == \A c \in Consumers :
                /\ pc[c] \in {"next", "store"} => byte[c] = buf[tail]
                /\ pc[c] = "store" => pos[c] = next_pos(tail)
Printing  == failed \subseteq {"console lock"}
NoWait    == /\ Printing /\ consumer = NULL /\ holder = NULL
             /\ \A c \in Consumers : pc[c] \in {"top", "get", "read", "next", "store"}
QueueOK   == Distinct(ready) /\ (failed = {} => Absent(ready, current))
Fifo      == /\ Len(typed) = Len(got) + Used
             /\ \A k \in 1 .. Len(got) : got[k] = typed[k]
             /\ \A k \in 0 .. Used - 1 : buf[Slot(k)] = typed[Len(got) + k + 1]

Unraced == Alone /\ HasData /\ LocalsOK /\ NoWait /\ QueueOK /\ Fifo

IInv == TypeOK /\ (~raced => Unraced)

\* The slots of the characters in the ring are different from the slot that
\* the interrupt handler writes, and lie inside the ring.
LEMMA SlotFacts ==
    ASSUME TypeOK
    PROVE  /\ Used \in 0 .. buf_size - 1
           /\ Slot(Used) = head
           /\ \A k \in 0 .. Used - 1 : Slot(k) \in 0 .. buf_size - 1 /\ Slot(k) # head
           /\ head # tail => Used > 0 /\ Slot(0) = tail
           /\ head = tail => Used = 0
  BY IoQueueAssumption DEF TypeOK, Used, Slot

\* The first state satisfies the inductive invariant.
LEMMA InitIInv == Init => IInv
<1> SUFFICES ASSUME Init PROVE TypeOK /\ Unraced
  BY DEF IInv
<1>1. TypeOK
  BY InitTypeOK
<1>2. Alone /\ HasData /\ LocalsOK /\ NoWait
  BY DEF Init, Alone, HasData, LocalsOK, Printing, NoWait
<1>3. QueueOK
  <2>1. Cardinality(Consumers) \in Nat
    BY FS_CardinalityType, IoQueueAssumption
  <2>2. ready \in [1 .. Cardinality(Consumers) -> Consumers] /\ IsInjective(ready)
    BY DEF Init
  <2>3. Len(ready) = Cardinality(Consumers) /\ ready \in Seq(Consumers)
    BY <2>1, <2>2
  <2>4. Distinct(ready)
    BY <2>2, <2>3 DEF Distinct, IsInjective
  <2>5. Absent(ready, current)
    BY <2>2, <2>3, IoQueueAssumption DEF Absent, Init
  <2> QED BY <2>4, <2>5 DEF QueueOK
<1>4. Fifo
  BY <1>1, SlotFacts DEF Init, Fifo
<1> QED BY <1>1, <1>2, <1>3, <1>4 DEF Unraced

\* A thread that is not linked twice is not in the ready list.
LEMMA NotLinked == ~DoublyLinked => Absent(ready, current)
  BY DEF DoublyLinked, Absent, Contains

\* A step that leaves the ring and the histories alone keeps Fifo.
LEMMA FifoUnchanged ==
    ASSUME Fifo, UNCHANGED <<head, tail, buf, typed, got>>
    PROVE  Fifo'
  BY DEF Fifo, Used, Slot

\* kbd_handler on a ring that is not full: the new character is the last one.
LEMMA FifoPut ==
    ASSUME TypeOK, Fifo, ~ioq_full, NEW e \in Nat,
           buf' = [buf EXCEPT ![head] = e], head' = next_pos(head), tail' = tail,
           typed' = Append(typed, e), got' = got
    PROVE  Fifo'
<1>1. Used' = Used + 1 /\ \A k \in 0 .. Used : Slot(k)' = Slot(k)
  <2>1. head' = IF head + 1 = buf_size THEN 0 ELSE head + 1
    BY NextPosValue DEF TypeOK
  <2>2. head' # tail
    BY DEF ioq_full
  <2> QED BY <2>1, <2>2, IoQueueAssumption DEF TypeOK, Used, Slot
<1>2. /\ Used \in 0 .. buf_size - 1 /\ Slot(Used) = head
      /\ \A k \in 0 .. Used - 1 : Slot(k) \in 0 .. buf_size - 1 /\ Slot(k) # head
  BY SlotFacts
<1>3. /\ Len(typed') = Len(typed) + 1
      /\ \A k \in 1 .. Len(typed) : typed'[k] = typed[k]
      /\ typed'[Len(typed) + 1] = e
      /\ Len(typed) \in Nat /\ Len(got) \in Nat
  BY DEF TypeOK
<1>4. Len(typed') = Len(got') + Used'
  BY <1>1, <1>2, <1>3 DEF Fifo
<1>5. \A k \in 1 .. Len(got') : got'[k] = typed'[k]
  BY <1>2, <1>3 DEF Fifo
<1>6. ASSUME NEW k \in 0 .. Used' - 1 PROVE buf'[Slot(k)'] = typed'[Len(got') + k + 1]
  <2>1. CASE k = Used
    BY <1>1, <1>2, <1>3, <2>1, SMTT(40) DEF Fifo, TypeOK
  <2>2. CASE k # Used
    <3>1. k \in 0 .. Used - 1 /\ Slot(k)' = Slot(k)
      BY <1>1, <1>2, <1>6, <2>2
    <3>2. buf'[Slot(k)] = buf[Slot(k)]
      BY <1>2, <3>1 DEF TypeOK
    <3>3. Len(got) + k + 1 \in 1 .. Len(typed)
      BY <1>2, <1>3, <3>1 DEF Fifo
    <3> QED BY <1>3, <3>1, <3>2, <3>3 DEF Fifo
  <2> QED BY <2>1, <2>2
<1> QED BY <1>4, <1>5, <1>6 DEF Fifo

\* The end of ioq_getchar: the character returned is the first in the ring.
LEMMA FifoGet ==
    ASSUME TypeOK, Fifo, head # tail,
           tail' = next_pos(tail), head' = head, buf' = buf,
           got' = Append(got, buf[tail]), typed' = typed
    PROVE  Fifo'
<1>1. Used' = Used - 1 /\ \A k \in 0 .. Used - 2 : Slot(k)' = Slot(k + 1)
  <2>1. tail' = IF tail + 1 = buf_size THEN 0 ELSE tail + 1
    BY NextPosValue DEF TypeOK
  <2> QED BY <2>1, IoQueueAssumption DEF TypeOK, Used, Slot
<1>2. Used \in 1 .. buf_size - 1 /\ Slot(0) = tail
  BY SlotFacts
<1>3. buf[tail] \in Nat /\ Len(got) \in Nat /\ got \in Seq(Nat)
  <2>1. got \in Seq(Nat) /\ buf \in [0 .. buf_size - 1 -> Nat] /\ tail \in 0 .. buf_size - 1
    BY DEF TypeOK
  <2>2. buf[tail] \in Nat
    BY <2>1, Zenon
  <2>3. Len(got) \in Nat
    BY <2>1, LenProperties, Zenon
  <2> QED BY <2>1, <2>2, <2>3
<1>4. /\ Len(got') = Len(got) + 1
      /\ \A k \in 1 .. Len(got) : got'[k] = got[k]
      /\ got'[Len(got) + 1] = buf[tail]
  BY <1>3
<1>5. buf[tail] = typed[Len(got) + 1]
  <2>1. 0 \in 0 .. Used - 1 /\ Len(got) + 0 + 1 = Len(got) + 1
    BY <1>2, <1>3
  <2>2. buf[Slot(0)] = typed[Len(got) + 0 + 1]
    BY <2>1 DEF Fifo
  <2> QED BY <1>2, <2>1, <2>2
<1>6. Len(typed') = Len(got') + Used'
  <2>1. Len(typed') = Len(got) + Used
    BY DEF Fifo
  <2> QED BY <1>1, <1>2, <1>3, <1>4, <2>1
<1>7. \A k \in 1 .. Len(got') : got'[k] = typed'[k]
  BY <1>3, <1>4, <1>5 DEF Fifo
<1>8. ASSUME NEW k \in 0 .. Used' - 1 PROVE buf'[Slot(k)'] = typed'[Len(got') + k + 1]
  <2>1. /\ k \in 0 .. Used - 2 /\ k + 1 \in 0 .. Used - 1
        /\ Len(got') + k + 1 = Len(got) + (k + 1) + 1
    BY <1>1, <1>2, <1>3, <1>4, <1>8
  <2>2. buf[Slot(k + 1)] = typed[Len(got) + (k + 1) + 1]
    BY <2>1 DEF Fifo
  <2> QED BY <1>1, <2>1, <2>2
<1> QED BY <1>6, <1>7, <1>8 DEF Fifo

\* Every step keeps the inductive invariant.
LEMMA NextIInv == IInv /\ [Next]_vars => IInv'
<1> SUFFICES ASSUME IInv, [Next]_vars PROVE IInv'
  OBVIOUS
<1>1. TypeOK /\ TypeOK'
  BY NextTypeOK DEF IInv
<1> SUFFICES ASSUME ~raced' PROVE Unraced'
  BY <1>1 DEF IInv
<1>2. ~raced
  <2>1. CASE UNCHANGED vars
    BY <2>1, Zenon DEF vars
  <2>2. ASSUME NEW c \in Consumers, SeeCharacter(c) PROVE ~raced
    BY <2>2, Zenon DEF SeeCharacter
  <2>3. ASSUME NEW c \in Consumers,
               TestEmpty(c) \/ LockQueue(c) \/ ioq_wait(c) \/ UnlockQueue(c)
                  \/ ReadSlot(c) \/ ReadTail(c) \/ StoreTail(c)
        PROVE  ~raced
    BY <2>3, Zenon DEF TestEmpty, LockQueue, ioq_wait, UnlockQueue, ReadSlot, ReadTail,
                       StoreTail
  <2>4. CASE kbd_handler \/ wakeup_end \/ schedule \/ printk_fails \/ schedule_fails
    BY <2>4, Zenon DEF kbd_handler, ioq_putchar, wakeup_end, schedule, printk_fails, schedule_fails
  <2> QED BY <2>1, <2>2, <2>3, <2>4 DEF Next, Consume
<1>3. Unraced
  BY <1>2 DEF IInv
<1> USE DEF ringVars, schedVars, codeVars, Goto, Runs
<1>4. ASSUME UNCHANGED <<pc, byte, pos, head, tail, buf, failed, consumer, holder,
                         ready, current, typed, got>>
      PROVE  Unraced'
  BY <1>3, <1>4, FifoUnchanged
     DEF Unraced, Alone, HasData, LocalsOK, Printing, NoWait, QueueOK, next_pos
<1>5. ASSUME NEW c \in Consumers, SeeCharacter(c) PROVE Unraced'
  <2>1. /\ pc[c] = "top" /\ head # tail /\ pc' = [pc EXCEPT ![c] = "get"]
        /\ UNCHANGED <<head, tail, buf, byte, pos, consumer, holder, ready, current, failed>>
        /\ typed' = typed /\ got' = got
        /\ \A d \in Consumers \ {c} : pc[d] = "top"
    BY <1>5, Zenon DEF SeeCharacter, ioq_empty
  <2>0. Printing'
    BY <1>3, <2>1 DEF Unraced, NoWait, Printing
  <2>2. Alone' /\ HasData' /\ LocalsOK' /\ NoWait'
    BY <1>1, <1>3, <1>5, <2>1, <2>0, SMTT(40)
       DEF TypeOK, Unraced, Alone, HasData, LocalsOK, NoWait, next_pos
  <2> QED BY <1>3, <2>1, <2>2, FifoUnchanged DEF Unraced, QueueOK
<1>6. ASSUME NEW c \in Consumers, TestEmpty(c) PROVE Unraced'
  <2>1. pc[c] = "get" /\ head # tail
    BY <1>3, <1>6 DEF TestEmpty, Unraced, HasData
  <2>2. /\ pc' = [pc EXCEPT ![c] = "read"]
        /\ UNCHANGED <<head, tail, buf, byte, pos, consumer, holder, ready, current, failed,
                       typed, got>>
    BY <1>6, <2>1, Zenon DEF TestEmpty, ioq_empty
  <2>0. Printing'
    BY <1>3, <2>2 DEF Unraced, NoWait, Printing
  <2>3. Alone' /\ HasData' /\ LocalsOK' /\ NoWait'
    BY <1>1, <1>3, <1>6, <2>1, <2>2, <2>0, SMTT(40)
       DEF TypeOK, Unraced, Alone, HasData, LocalsOK, NoWait, next_pos
  <2> QED BY <1>3, <2>2, <2>3, FifoUnchanged DEF Unraced, QueueOK
<1>7. ASSUME NEW c \in Consumers, LockQueue(c) \/ ioq_wait(c) \/ UnlockQueue(c)
      PROVE  Unraced'
  <2>1. pc[c] \in {"lock", "wait", "unlock"}
    BY <1>7 DEF LockQueue, ioq_wait, UnlockQueue
  <2> QED BY <1>3, <1>7, <2>1 DEF Unraced, NoWait
<1>8. ASSUME NEW c \in Consumers, ReadSlot(c) PROVE Unraced'
  <2>1. /\ pc[c] = "read" /\ byte' = [byte EXCEPT ![c] = buf[tail]]
        /\ pc' = [pc EXCEPT ![c] = "next"]
        /\ UNCHANGED <<head, tail, buf, pos, consumer, holder, ready, current, failed,
                       typed, got>>
    BY <1>8, Zenon DEF ReadSlot
  <2>0. Printing'
    BY <1>3, <2>1 DEF Unraced, NoWait, Printing
  <2>2. Alone' /\ HasData' /\ LocalsOK' /\ NoWait'
    BY <1>1, <1>3, <1>8, <2>1, <2>0, SMTT(40)
       DEF TypeOK, Unraced, Alone, HasData, LocalsOK, NoWait, next_pos
  <2> QED BY <1>3, <2>1, <2>2, FifoUnchanged DEF Unraced, QueueOK
<1>9. ASSUME NEW c \in Consumers, ReadTail(c) PROVE Unraced'
  <2>1. /\ pc[c] = "next" /\ pos' = [pos EXCEPT ![c] = next_pos(tail)]
        /\ pc' = [pc EXCEPT ![c] = "store"]
        /\ UNCHANGED <<head, tail, buf, byte, consumer, holder, ready, current, failed,
                       typed, got>>
    BY <1>9, Zenon DEF ReadTail
  <2>0. Printing'
    BY <1>3, <2>1 DEF Unraced, NoWait, Printing
  <2>2. Alone' /\ HasData' /\ LocalsOK' /\ NoWait'
    BY <1>1, <1>3, <1>9, <2>1, <2>0, SMTT(40)
       DEF TypeOK, Unraced, Alone, HasData, LocalsOK, NoWait, next_pos
  <2> QED BY <1>3, <2>1, <2>2, FifoUnchanged DEF Unraced, QueueOK
<1>10. ASSUME NEW c \in Consumers, StoreTail(c) PROVE Unraced'
  <2>1. /\ pc[c] = "store" /\ tail' = pos[c] /\ got' = Append(got, byte[c])
        /\ pc' = [pc EXCEPT ![c] = "top"]
        /\ UNCHANGED <<head, buf, consumer, holder, ready, current, failed, typed>>
    BY <1>2, <1>10, Zenon DEF StoreTail
  <2>2. head # tail /\ byte[c] = buf[tail] /\ pos[c] = next_pos(tail)
    BY <1>3, <1>10, <2>1 DEF Unraced, HasData, LocalsOK
  <2>3. \A d \in Consumers : pc'[d] = "top"
    BY <1>1, <1>3, <1>10, <2>1 DEF Unraced, Alone, TypeOK
  <2>4. Alone' /\ HasData' /\ LocalsOK' /\ NoWait' /\ QueueOK'
    BY <1>3, <2>1, <2>3 DEF Unraced, Alone, HasData, LocalsOK, Printing, NoWait, QueueOK
  <2>5. Fifo'
    BY <1>1, <1>3, <2>1, <2>2, FifoGet DEF Unraced
  <2> QED BY <2>4, <2>5 DEF Unraced
<1>11. CASE kbd_handler
  <2>1. /\ consumer = NULL
        /\ UNCHANGED <<pc, byte, pos, tail, consumer, holder, current, got>>
        /\ keys' = keys + 1
    BY <1>3, <1>11, Zenon DEF kbd_handler, ioq_putchar, Unraced, NoWait
  <2>2. CASE ioq_full
    BY <1>4, <1>11, <2>1, <2>2, Zenon DEF kbd_handler, ioq_putchar
  <2>3. CASE ~ioq_full
    <3>1. /\ buf' = [buf EXCEPT ![head] = keys'] /\ head' = next_pos(head)
          /\ typed' = Append(typed, keys')
          /\ UNCHANGED <<ready, failed>>
      BY <1>2, <1>11, <2>1, <2>3, Zenon DEF kbd_handler, ioq_putchar
    <3>2. keys' \in Nat
      BY <1>1 DEF TypeOK
    <3>3. Fifo'
      BY <1>1, <1>3, <2>1, <2>3, <3>1, <3>2, FifoPut DEF Unraced
    <3>4. head' # tail
      BY <2>3, <3>1 DEF ioq_full
    <3>5. head # tail => buf'[tail] = buf[tail]
      BY <1>1, <3>1 DEF TypeOK
    <3>6. Alone' /\ HasData' /\ LocalsOK' /\ NoWait' /\ QueueOK'
      BY <1>3, <2>1, <3>1, <3>4, <3>5
         DEF Unraced, Alone, HasData, LocalsOK, Printing, NoWait, QueueOK, next_pos
    <3> QED BY <3>3, <3>6 DEF Unraced
  <2> QED BY <2>2, <2>3
<1>12. CASE wakeup_end
  <2>1. consumer = NULL
    BY <1>3 DEF Unraced, NoWait
  <2> QED BY <1>4, <1>12, <2>1, Zenon DEF wakeup_end
<1>13. CASE schedule
  <2>1. /\ ready # <<>> /\ current' = Head(ready) /\ ready' = Append(Tail(ready), current)
        /\ UNCHANGED <<pc, byte, pos, head, tail, buf, failed, consumer, holder, typed, got>>
    BY <1>13, Zenon DEF schedule
  <2>2. QueueOK'
    <3>1. ready \in Seq(Proc) /\ current \in Proc /\ Distinct(ready)
      BY <1>1, <1>3 DEF TypeOK, Unraced, QueueOK
    <3>2. Absent(ready, current)
      BY <1>13, NotLinked DEF schedule
    <3> QED BY <2>1, <3>1, <3>2, RotateDistinct DEF QueueOK
  <2>3. Alone' /\ HasData' /\ LocalsOK' /\ NoWait'
    BY <1>3, <2>1 DEF Unraced, Alone, HasData, LocalsOK, Printing, NoWait, next_pos
  <2> QED BY <1>3, <2>1, <2>2, <2>3, FifoUnchanged DEF Unraced
<1>14. CASE UNCHANGED vars
  BY <1>4, <1>14, Zenon DEF vars
<1>15. CASE printk_fails \/ schedule_fails
  <2>1. /\ failed' = failed \cup {"console lock"}
        /\ UNCHANGED <<pc, byte, pos, head, tail, buf, consumer, holder, current, typed, got>>
    BY <1>15, Zenon DEF printk_fails, schedule_fails, Fail
  <2>2. Distinct(ready')
    <3>1. ready \in Seq(Proc) /\ current \in Proc /\ Distinct(ready)
      BY <1>1, <1>3 DEF TypeOK, Unraced, QueueOK
    <3>2. Absent(ready, current)
      BY <1>15, NotLinked DEF printk_fails, schedule_fails
    <3>3. CASE printk_fails
      BY <3>1, <3>3 DEF printk_fails
    <3>4. CASE schedule_fails
      <4>1. ready # <<>> /\ ready' = Append(Tail(ready), current)
        BY <3>4 DEF schedule_fails
      <4> QED BY <3>1, <3>2, <4>1, RotateDistinct
    <3> QED BY <1>15, <3>3, <3>4
  <2>3. Alone' /\ HasData' /\ LocalsOK' /\ NoWait' /\ QueueOK'
    BY <1>3, <2>1, <2>2 DEF Unraced, Alone, HasData, LocalsOK, Printing, NoWait, QueueOK, next_pos
  <2> QED BY <1>3, <2>1, <2>3, FifoUnchanged DEF Unraced
<1> QED BY <1>5, <1>6, <1>7, <1>8, <1>9, <1>10, <1>11, <1>12, <1>13, <1>14, <1>15
        DEF Next, Consume

\* The inductive invariant holds in every reachable state.
LEMMA Invariance == Spec => []IInv
<1>1. Init => IInv
  BY InitIInv
<1>2. IInv /\ [Next]_vars => IInv'
  BY NextIInv
<1> QED BY <1>1, <1>2, PTL DEF Spec

\* As long as no two consumers are past their test of the queue together,
\* ioq_getchar returns the characters that kbd_handler accepted, in order,
\* without loss and without repetition: for every size of the ring, every
\* number of consumers and every interleaving.
THEOREM FifoCorrect == Spec => []FifoUnlessRaced
<1>1. IInv => FifoUnlessRaced
  BY DEF IInv, Unraced, Fifo, FifoUnlessRaced
<1> QED BY <1>1, Invariance, PTL

\* As long as no two consumers are past their test of the queue together,
\* ioq_getchar never waits and no assertion of the queue or of its wakeup
\* fails; a thread is linked twice only after a failed print in schedule().
THEOREM NoWaitCorrect == Spec => []NoWaitUnlessRaced
<1>1. IInv => NoWaitUnlessRaced
  <2>1. QueueOK /\ DoublyLinked => failed # {}
    BY DEF QueueOK, Absent, DoublyLinked, Contains
  <2> QED BY <2>1 DEF IInv, Unraced, Printing, NoWait, NoWaitUnlessRaced
<1> QED BY <1>1, Invariance, PTL
=============================================================================
