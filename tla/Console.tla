------------------------------ MODULE Console ------------------------------
(***************************************************************************)
(* What printk puts on the screen: the static buffer of src/libs/kstdio.c  *)
(* and the cursor of src/console/console.c, statement by statement.        *)
(*                                                                         *)
(* printk formats into the buffer before it takes the console lock, and a  *)
(* handler on the stack of the holder passes the lock, so both are shared: *)
(* the buffer by everybody, the cursor by a print and the handlers that    *)
(* print over it.  Every ++ and -- is a load and a store.                  *)
(*                                                                         *)
(* An argument (%s, %d, ...) goes through strcat, which appends at the end *)
(* of whatever string it finds at buf + loc; a literal character is stored *)
(* at loc.  Any part of a text may have come from an argument.  The bytes  *)
(* behind the buffer are not kept: what is stored there is forgotten, what *)
(* is read there is anything.                                              *)
(*                                                                         *)
(* The lock is taken and released in one step and a thread that does not   *)
(* get it waits; module Kernel is about what really happens there.         *)
(***************************************************************************)
EXTENDS Naturals, Sequences, FiniteSets

CONSTANTS Threads,
          Cols, Rows,   \* the screen (80 by 25)
          TabStop,      \* 8
          Texts,        \* what the printk calls print: sequences of Chars
          BufSize,      \* of buf[] (1024): the texts fit, with a zero behind them
          KeyText,      \* the constant that kbd_handler passes to console_write
          Quiet,        \* bound: the threads on whose stack no handler prints
          MaxNest,      \* bound: handlers on any other stack
          NULL

Chars == {"c", "BS", "TAB", "CR", "NL"}
Zero  == ""   \* the zero byte

ASSUME ConsoleAssumption ==
    /\ Cols \in Nat \ {0} /\ Rows \in Nat \ {0} /\ TabStop \in Nat \ {0}
    /\ Cols % TabStop = 0 /\ MaxNest \in Nat /\ Quiet \subseteq Threads
    /\ Texts \cup {KeyText} \subseteq Seq(Chars)
    /\ BufSize \in Nat \ {0} /\ \A m \in Texts : Len(m) < BufSize
    /\ NULL \notin Threads

VARIABLES cursor_X, cursor_Y,
          buf,      \* buf[]
          holder,   \* the thread that has console_lck
          stk       \* per thread, its unfinished prints, the running one first

vars == <<cursor_X, cursor_Y, buf, holder, stk>>

(***************************************************************************)
(* A print: where it is, its text and where it reads it from, the next     *)
(* character, a loaded value; the part of strcat it is in and the dst_len  *)
(* found there; and as history whether somebody else has written to the    *)
(* buffer since its memset, and whether every character it has sent is the *)
(* one of its text.                                                        *)
(***************************************************************************)
NewPrint(text, from, l) ==
    [pc |-> l, text |-> text, from |-> from, i |-> 1, r |-> 0,
     cat |-> "no", dst |-> 0, mixed |-> FALSE, own |-> TRUE]

Init ==
    /\ cursor_X = 0 /\ cursor_Y = 0
    /\ buf = [k \in 1 .. BufSize |-> Zero]
    /\ holder = NULL
    /\ stk = [t \in Threads |-> <<>>]

Now(t)     == Head(stk[t])
On(t, l)   == stk[t] # <<>> /\ Now(t).pc = l
\* The running print of t goes on as f.
Turned(t, f) == [stk EXCEPT ![t] = <<f>> \o Tail(@)]
Go(t, f)   == stk' = Turned(t, f)
Goto(t, l) == Go(t, [Now(t) EXCEPT !.pc = l, !.r = 0])

(***************************************************************************)
(* A thread calls printk, or a handler does on its stack; the keyboard     *)
(* handler prints a constant.                                              *)
(***************************************************************************)
MayPrint(t) == Len(stk[t]) <= IF t \in Quiet THEN 0 ELSE MaxNest

Push(t, f) == [stk EXCEPT ![t] = <<f>> \o @]

\* The stacks s after the print in front of t's has written to the buffer.
Written(t, s) ==
    [u \in Threads |-> [k \in DOMAIN s[u] |->
        IF (u = t /\ k = 1) \/ s[u][k].from = "const" THEN s[u][k]
        ELSE [s[u][k] EXCEPT !.mixed = TRUE, !.own = TRUE]]]

\* Mutant: the buffer is not cleared.
printk_uncleared(t, text) ==
    /\ MayPrint(t)
    /\ stk' = Written(t, Push(t, NewPrint(text, "buf", "fmt")))
    /\ UNCHANGED <<cursor_X, cursor_Y, buf, holder>>

\* sprintk begins with memset.
printk(t, text) ==
    /\ MayPrint(t)
    /\ buf' = [k \in 1 .. BufSize |-> Zero]
    /\ stk' = Written(t, Push(t, NewPrint(text, "buf", "fmt")))
    /\ UNCHANGED <<cursor_X, cursor_Y, holder>>

unknown_key(t) ==
    /\ stk[t] # <<>> /\ MayPrint(t)
    /\ stk' = Push(t, NewPrint(KeyText, "const", "lock"))
    /\ UNCHANGED <<cursor_X, cursor_Y, buf, holder>>

\* The running print of t stores c at place k and goes on as f.
Store(t, k, c, f) ==
    /\ buf' = [j \in 1 .. BufSize |-> IF j = k THEN c ELSE buf[j]]
    /\ stk' = Written(t, Turned(t, f))

\* A literal character is stored at loc, an argument is given to strcat.
sprintk(t) ==
    /\ On(t, "fmt") /\ Now(t).cat = "no"
    /\ LET f == Now(t) IN
       \/ f.i <= Len(f.text) /\ Store(t, f.i, f.text[f.i], [f EXCEPT !.i = @ + 1])
       \/ f.i <= Len(f.text) /\ Go(t, [f EXCEPT !.cat = "strlen"]) /\ UNCHANGED buf
       \/ f.i > Len(f.text) /\ Go(t, [f EXCEPT !.pc = "lock", !.i = 1]) /\ UNCHANGED buf
    /\ UNCHANGED <<cursor_X, cursor_Y, holder>>

\* strlen(dst) walks to the first zero; the characters of the argument are
\* stored from there, and a zero behind the last of them.
strcat(t) ==
    /\ On(t, "fmt")
    /\ LET f == Now(t)
           k == f.i + f.dst
       IN  \/ /\ f.cat = "strlen"
              /\ Go(t, IF k <= BufSize /\ buf[k] # Zero THEN [f EXCEPT !.dst = @ + 1]
                                                     ELSE [f EXCEPT !.cat = "copy"])
              /\ UNCHANGED buf
           \/ f.cat = "copy" /\ f.i <= Len(f.text) /\ Store(t, k, f.text[f.i], [f EXCEPT !.i = @ + 1])
           \/ f.cat = "copy" /\ Store(t, k, Zero, [f EXCEPT !.cat = "no", !.dst = 0])
    /\ UNCHANGED <<cursor_X, cursor_Y, holder>>

(***************************************************************************)
(* console_write                                                           *)
(***************************************************************************)
console_require(t) ==
    /\ On(t, "lock")
    /\ holder \in {NULL, t}
    /\ holder' = t
    /\ Goto(t, "char")
    /\ UNCHANGED <<cursor_X, cursor_Y, buf>>

\* *str: the bytes it can be.
CharsAt(f) ==
    IF f.from = "const" THEN {IF f.i > Len(f.text) THEN Zero ELSE f.text[f.i]}
    ELSE IF f.i > BufSize THEN Chars \cup {Zero} ELSE {buf[f.i]}

\* The loop of console_write and the choice of console_putc_color.
console_write(t) ==
    /\ On(t, "char")
    /\ LET f == Now(t) IN \E c \in CharsAt(f) :
          IF c = Zero THEN Goto(t, "release")
          ELSE Go(t, [f EXCEPT !.i = IF f.from = "buf" /\ @ > BufSize THEN @ ELSE @ + 1,
                               !.own = @ /\ (f.mixed \/ (f.i <= Len(f.text) /\ c = f.text[f.i])),
                               !.pc = IF c = "BS" /\ cursor_X = 0 THEN "wrap" ELSE c])
    /\ UNCHANGED <<cursor_X, cursor_Y, buf, holder>>

console_release(t) ==
    /\ On(t, "release")
    /\ holder' = IF \E k \in 2 .. Len(stk[t]) : stk[t][k].pc \notin {"fmt", "lock"}
                 THEN t ELSE NULL
    /\ stk' = [stk EXCEPT ![t] = Tail(@)]
    /\ UNCHANGED <<cursor_X, cursor_Y, buf>>

(***************************************************************************)
(* console_putc_color and scroll.  Video memory is not kept: the property  *)
(* is about where it is written.                                           *)
(***************************************************************************)
put(t) ==
    /\ On(t, "c")
    /\ Goto(t, "inc")
    /\ UNCHANGED <<cursor_X, cursor_Y, buf, holder>>

\* uchar arithmetic on what cursor_X is now.
LoadX(t) ==
    /\ \/ On(t, "inc") /\ Go(t, [Now(t) EXCEPT !.pc = "X", !.r = (cursor_X + 1) % 256])
       \/ On(t, "BS") /\ Go(t, [Now(t) EXCEPT !.pc = "X", !.r = (cursor_X + 255) % 256])
       \/ On(t, "TAB") /\ Go(t, [Now(t) EXCEPT !.pc = "X",
                                    !.r = (((cursor_X + TabStop) \div TabStop) * TabStop) % 256])
    /\ UNCHANGED <<cursor_X, cursor_Y, buf, holder>>

StoreX(t) ==
    /\ \/ On(t, "X") /\ cursor_X' = Now(t).r /\ Goto(t, "wrap")
       \/ On(t, "CR") /\ cursor_X' = 0 /\ Goto(t, "wrap")
       \/ On(t, "NL") /\ cursor_X' = 0 /\ Goto(t, "line")
       \/ On(t, "zero") /\ cursor_X' = 0 /\ Goto(t, "wrapline")
    /\ UNCHANGED <<cursor_Y, buf, holder>>

LoadY(t) ==
    /\ \/ On(t, "line") /\ Go(t, [Now(t) EXCEPT !.pc = "Y", !.r = (cursor_Y + 1) % 256])
       \/ On(t, "wrapline") /\ Go(t, [Now(t) EXCEPT !.pc = "wrapY", !.r = (cursor_Y + 1) % 256])
    /\ UNCHANGED <<cursor_X, cursor_Y, buf, holder>>

StoreY(t) ==
    /\ \/ On(t, "Y") /\ cursor_Y' = Now(t).r /\ Goto(t, "wrap")
       \/ On(t, "wrapY") /\ cursor_Y' = Now(t).r /\ Goto(t, "scroll")
       \/ On(t, "last") /\ cursor_Y' = Rows - 1 /\ Goto(t, "char")
    /\ UNCHANGED <<cursor_X, buf, holder>>

wrap(t) ==
    /\ On(t, "wrap")
    /\ Goto(t, IF cursor_X >= Cols THEN "zero" ELSE "scroll")
    /\ UNCHANGED <<cursor_X, cursor_Y, buf, holder>>

\* Mutant: the test is off by one.
scroll_late(t) ==
    /\ On(t, "scroll")
    /\ Goto(t, IF cursor_Y > Rows THEN "last" ELSE "char")
    /\ UNCHANGED <<cursor_X, cursor_Y, buf, holder>>

\* The lines move up and cursor_Y is set to the last one.
scroll(t) ==
    /\ On(t, "scroll")
    /\ Goto(t, IF cursor_Y >= Rows THEN "last" ELSE "char")
    /\ UNCHANGED <<cursor_X, cursor_Y, buf, holder>>

Step(t) ==
    \/ sprintk(t) \/ strcat(t)
    \/ console_require(t) \/ console_write(t) \/ console_release(t)
    \/ put(t) \/ LoadX(t) \/ StoreX(t) \/ LoadY(t) \/ StoreY(t) \/ wrap(t) \/ scroll(t)

Next == \E t \in Threads : Step(t) \/ unknown_key(t) \/ \E m \in Texts : printk(t, m)

Spec == Init /\ [][Next]_vars

(***************************************************************************)
(* Properties                                                              *)
(***************************************************************************)

\* A print that has begun with a character and not finished with it.
InPutc(f) == f.pc \notin {"fmt", "lock", "char", "release"}

\* The cell that a print writes is on the screen, unless it has interrupted
\* another print in the middle of a character; then it is at most one line
\* below the screen for each print that it interrupted.
OnScreen ==
    \A t \in Threads : On(t, "c") =>
        LET n == Cardinality({k \in 2 .. Len(stk[t]) : InPutc(stk[t][k])})
        IN  /\ cursor_Y <= Rows - 1 + n
            /\ n = 0 => cursor_X < Cols

\* console_write sends exactly the text that printk was called with, after
\* whatever was printed before, unless another print has used the buffer
\* since this one began to format.
OwnText ==
    \A t \in Threads : On(t, "release") /\ ~Now(t).mixed =>
        Now(t).own /\ Now(t).i = Len(Now(t).text) + 1
=============================================================================
