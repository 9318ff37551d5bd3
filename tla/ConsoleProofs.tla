--------------------------- MODULE ConsoleProofs ---------------------------
(***************************************************************************)
(* printk and console_write, for every screen, every set of texts, any     *)
(* number of threads and any depth of handlers that print over a print: a  *)
(* print that had the buffer to itself sends exactly its text, and a       *)
(* character lands on the screen unless it interrupts another one.         *)
(***************************************************************************)
EXTENDS Console, CommonLemmas, FiniteSetTheorems, FunctionTheorems

Labels == {"fmt", "lock", "char", "release", "c", "BS", "TAB", "CR", "NL", "inc", "X", "wrap",
           "zero", "line", "Y", "wrapline", "wrapY", "scroll", "last"}

Prints == [pc : Labels, text : Seq(Chars), from : {"buf", "const"}, i : Nat \ {0}, r : Nat,
           cat : {"no", "strlen", "copy"}, dst : Nat, mixed : BOOLEAN, own : BOOLEAN]

Types ==
    /\ cursor_X \in Nat /\ cursor_Y \in Nat
    /\ buf \in [1 .. BufSize -> Chars \cup {Zero}]
    /\ stk \in [Threads -> Seq(Prints)]

(***************************************************************************)
(* The text.  What is in the buffer is the text of the print that nobody   *)
(* has disturbed, as far as it has been stored, and zeros: so its strcat   *)
(* finds an empty string and appends where the last character ended.       *)
(***************************************************************************)
Stored(f) == IF f.pc = "fmt" THEN f.i ELSE Len(f.text) + 1

ReadsInside(f) ==
    /\ f.from = "buf" => Len(f.text) < BufSize
    /\ f.from = "const" => f.pc # "fmt"
    /\ f.pc = "fmt" \/ ~f.mixed => f.i <= Len(f.text) + 1
    /\ f.pc = "fmt" /\ ~f.mixed => f.dst = 0

SendsOwn(f, b) ==
    ~f.mixed => /\ f.own
                /\ f.pc = "release" => f.i = Len(f.text) + 1
                /\ f.from = "buf" =>
                      \A j \in 1 .. BufSize : b[j] = IF j < Stored(f) THEN f.text[j] ELSE Zero

TextInv ==
    \A t \in Threads : \A k \in 1 .. Len(stk[t]) : ReadsInside(stk[t][k]) /\ SendsOwn(stk[t][k], buf)

(***************************************************************************)
(* The cursor.  Only the holder of the lock is inside a character.  A      *)
(* print is named by its depth from the bottom of the stack, which does    *)
(* not change; Below is the set of the ones under it that it interrupted   *)
(* inside a character.  The cursor fits the topmost print that is inside a *)
(* character, or is on the screen: what a handler leaves behind is on the  *)
(* screen, once it has printed a character.                                *)
(***************************************************************************)
At(t, d)    == stk[t][Len(stk[t]) + 1 - d]
Below(t, d) == {e \in 1 .. d - 1 : InPutc(At(t, e))}
Under(t, d) == Cardinality(Below(t, d))

Locked(t) == \E d \in 1 .. Len(stk[t]) : At(t, d).pc \notin {"fmt", "lock"}
LockInv   == \A t \in Threads : Locked(t) => holder = t

Clean == cursor_X < Cols /\ cursor_Y < Rows

Fits(l, n) ==
    /\ cursor_Y <= Rows + n
    /\ cursor_Y = Rows + n => l \in {"wrap", "scroll", "last"} /\ cursor_X < Cols
    /\ l \in {"line", "Y", "wrapline", "wrapY", "scroll", "last"} => cursor_X < Cols
    /\ l = "c" /\ n = 0 => cursor_X < Cols

Topmost(t, d) ==
    /\ d \in 1 .. Len(stk[t]) /\ InPutc(At(t, d))
    /\ \A e \in d + 1 .. Len(stk[t]) : ~InPutc(At(t, e))

RegInv ==
    \A t \in Threads : \A d \in 1 .. Len(stk[t]) :
        At(t, d).pc \in {"Y", "wrapY"} => At(t, d).r <= Rows + Under(t, d)

CursorInv ==
    Clean \/ \E t \in Threads : \E d \in 1 .. Len(stk[t]) :
                 Topmost(t, d) /\ Fits(At(t, d).pc, Under(t, d))

CInv == Types /\ TextInv /\ LockInv /\ RegInv /\ CursorInv

(***************************************************************************)
(* The stacks                                                              *)
(***************************************************************************)

LEMMA SeqElement ==
    ASSUME NEW S, NEW s \in Seq(S), NEW k \in 1 .. Len(s)
    PROVE  s[k] \in S
OBVIOUS

\* The running print goes on as f.
LEMMA GoStack ==
    ASSUME Types, NEW t \in Threads, stk[t] # <<>>, NEW f \in Prints, Go(t, f)
    PROVE  /\ stk' \in [Threads -> Seq(Prints)]
           /\ \A u \in Threads \ {t} : stk'[u] = stk[u]
           /\ Len(stk'[t]) = Len(stk[t]) /\ Len(stk[t]) \in Nat \ {0}
           /\ stk'[t][1] = f
           /\ \A k \in 2 .. Len(stk[t]) : stk'[t][k] = stk[t][k]
<1>1. stk[t] \in Seq(Prints) /\ stk[t] # <<>>
    BY DEF Types
<1>2. /\ Tail(stk[t]) \in Seq(Prints) /\ Len(Tail(stk[t])) = Len(stk[t]) - 1
      /\ Len(stk[t]) \in Nat \ {0}
      /\ \A k \in 1 .. Len(stk[t]) - 1 : Tail(stk[t])[k] = stk[t][k + 1]
    BY <1>1
<1>3. /\ stk' \in [Threads -> Seq(Prints)] /\ stk'[t] = <<f>> \o Tail(stk[t])
      /\ \A u \in Threads \ {t} : stk'[u] = stk[u]
    <2>1. <<f>> \o Tail(stk[t]) \in Seq(Prints)
        BY <1>2, PushOne
    <2> QED  BY <2>1 DEF Go, Turned, Types
<1>4. /\ Len(<<f>> \o Tail(stk[t])) = Len(stk[t]) /\ (<<f>> \o Tail(stk[t]))[1] = f
      /\ \A k \in 2 .. Len(stk[t]) : (<<f>> \o Tail(stk[t]))[k] = Tail(stk[t])[k - 1]
    BY <1>2, PushOne
<1> QED  BY <1>2, <1>3, <1>4

\* A print f starts over the running one.
Pushed(s, t, f) ==
    /\ s \in [Threads -> Seq(Prints)]
    /\ \A u \in Threads \ {t} : s[u] = stk[u]
    /\ Len(s[t]) = Len(stk[t]) + 1 /\ Len(stk[t]) \in Nat
    /\ s[t][1] = f
    /\ \A k \in 2 .. Len(stk[t]) + 1 : s[t][k] = stk[t][k - 1]

LEMMA PushStack ==
    ASSUME Types, NEW t \in Threads, NEW f \in Prints
    PROVE  Pushed(Push(t, f), t, f)
<1> DEFINE s == Push(t, f)
<1>1. stk[t] \in Seq(Prints)
    BY DEF Types
<1>2. /\ <<f>> \o stk[t] \in Seq(Prints) /\ Len(<<f>> \o stk[t]) = Len(stk[t]) + 1
      /\ Len(stk[t]) \in Nat /\ (<<f>> \o stk[t])[1] = f
      /\ \A k \in 2 .. Len(stk[t]) + 1 : (<<f>> \o stk[t])[k] = stk[t][k - 1]
    BY <1>1, PushOne
<1>3. /\ s \in [Threads -> Seq(Prints)] /\ s[t] = <<f>> \o stk[t]
      /\ \A u \in Threads \ {t} : s[u] = stk[u]
    BY <1>2 DEF Push, Types
<1> HIDE DEF s
<1>4. Pushed(s, t, f)
    BY <1>2, <1>3 DEF Pushed
<1> QED  BY <1>4 DEF s

\* A print that shares the buffer is marked, and goes on.
Mark(f) == [f EXCEPT !.mixed = TRUE, !.own = TRUE]

LEMMA MarkPrint ==
    ASSUME NEW f \in Prints
    PROVE  /\ Mark(f) \in Prints /\ Mark(f).pc = f.pc /\ Mark(f).text = f.text
           /\ Mark(f).from = f.from /\ Mark(f).i = f.i /\ Mark(f).r = f.r /\ Mark(f).mixed = TRUE
           /\ Mark(f).dst = f.dst
BY DEF Mark, Prints

Overwritten(w, t, s) ==
    /\ w \in [Threads -> Seq(Prints)]
    /\ \A u \in Threads : Len(w[u]) = Len(s[u])
    /\ \A u \in Threads : \A k \in 1 .. Len(s[u]) :
          w[u][k] = IF (u = t /\ k = 1) \/ s[u][k].from = "const" THEN s[u][k] ELSE Mark(s[u][k])

LEMMA WrittenStack ==
    ASSUME NEW t \in Threads, NEW s \in [Threads -> Seq(Prints)]
    PROVE  Overwritten(Written(t, s), t, s)
<1> DEFINE W(u) == [k \in DOMAIN s[u] |->
                       IF (u = t /\ k = 1) \/ s[u][k].from = "const" THEN s[u][k]
                       ELSE Mark(s[u][k])]
<1>1. Written(t, s) = [u \in Threads |-> W(u)]
    BY DEF Written, Mark
<1>2. ASSUME NEW u \in Threads
      PROVE  /\ W(u) \in Seq(Prints) /\ Len(W(u)) = Len(s[u])
             /\ \A k \in 1 .. Len(s[u]) : W(u)[k] = IF (u = t /\ k = 1) \/ s[u][k].from = "const"
                                                    THEN s[u][k] ELSE Mark(s[u][k])
    <2>1. s[u] \in Seq(Prints) /\ DOMAIN s[u] = 1 .. Len(s[u]) /\ Len(s[u]) \in Nat
        OBVIOUS
    <2>2. \A k \in 1 .. Len(s[u]) : s[u][k] \in Prints
        BY <2>1
    <2>3. W(u) \in [1 .. Len(s[u]) -> Prints]
        BY <2>1, <2>2, MarkPrint
    <2>4. W(u) \in Seq(Prints) /\ Len(W(u)) = Len(s[u])
        BY <2>1, <2>3, SeqDef
    <2> QED  BY <2>1, <2>4
<1> HIDE DEF W
<1> QED  BY <1>1, <1>2 DEF Overwritten

LEMMA NowPrint ==
    ASSUME Types, NEW t \in Threads, stk[t] # <<>>
    PROVE  /\ Now(t) \in Prints /\ Now(t) = stk[t][1] /\ Now(t) = At(t, Len(stk[t]))
           /\ Len(stk[t]) \in Nat \ {0}
<1>1. stk[t] \in Seq(Prints)
    BY DEF Types
<1>2. Len(stk[t]) \in Nat \ {0} /\ Len(stk[t]) + 1 - Len(stk[t]) = 1
    BY <1>1
<1>3. Now(t) \in Prints /\ Now(t) = stk[t][1]
    BY <1>1 DEF Now
<1> QED  BY <1>2, <1>3 DEF At

LEMMA AtPrint ==
    ASSUME Types, NEW t \in Threads, NEW d \in 1 .. Len(stk[t])
    PROVE  At(t, d) \in Prints /\ Len(stk[t]) \in Nat /\ d \in Nat
<1>1. stk[t] \in Seq(Prints)
    BY DEF Types
<1>2. Len(stk[t]) \in Nat
    BY <1>1
<1>3. Len(stk[t]) + 1 - d \in 1 .. Len(stk[t])
    BY <1>2
<1> QED  BY <1>1, <1>2, <1>3 DEF At

\* The running print goes on at l with the loaded value v.
Move(t, l, v) == Go(t, [Now(t) EXCEPT !.pc = l, !.r = v])

LEMMA GotoMove == \A t, l : Goto(t, l) <=> Move(t, l, 0)
BY DEF Goto, Move

LEMMA MovePrint ==
    ASSUME NEW f \in Prints, NEW l \in Labels, NEW v \in Nat,
           NEW g, g = [f EXCEPT !.pc = l, !.r = v]
    PROVE  /\ g \in Prints /\ g.pc = l /\ g.r = v /\ g.text = f.text /\ g.from = f.from
           /\ g.i = f.i /\ g.mixed = f.mixed /\ g.own = f.own
BY DEF Prints

\* In coordinates from the bottom, only the topmost print has changed.
LEMMA GoDepth ==
    ASSUME Types, NEW t \in Threads, stk[t] # <<>>, NEW f \in Prints, Go(t, f)
    PROVE  /\ \A u \in Threads : Len(stk'[u]) = Len(stk[u])
           /\ \A u \in Threads : \A d \in 1 .. Len(stk[u]) :
                 u # t \/ d # Len(stk[t]) => At(u, d)' = At(u, d)
           /\ At(t, Len(stk[t]))' = f
<1>1. /\ \A u \in Threads \ {t} : stk'[u] = stk[u]
      /\ Len(stk'[t]) = Len(stk[t]) /\ Len(stk[t]) \in Nat \ {0}
      /\ stk'[t][1] = f
      /\ \A k \in 2 .. Len(stk[t]) : stk'[t][k] = stk[t][k]
    BY GoStack
<1>2. \A u \in Threads : Len(stk'[u]) = Len(stk[u])
    BY <1>1
<1>3. ASSUME NEW u \in Threads, NEW d \in 1 .. Len(stk[u]), u # t \/ d # Len(stk[t])
      PROVE  At(u, d)' = At(u, d)
    <2>1. CASE u # t
        BY <1>1, <2>1 DEF At
    <2>2. CASE u = t
        <3>1. Len(stk[t]) + 1 - d \in 2 .. Len(stk[t])
            BY <1>1, <1>3, <2>2
        <3> QED  BY <1>1, <2>2, <3>1 DEF At
    <2> QED  BY <2>1, <2>2
<1>4. At(t, Len(stk[t]))' = f
    <2>1. PICK L : L = Len(stk[t])
        OBVIOUS
    <2>2. Len(stk'[t]) + 1 - L = 1
        BY <1>1, <2>1
    <2>3. stk'[t][Len(stk'[t]) + 1 - L] = f
        BY <1>1, <2>2
    <2> QED  BY <1>1, <2>1, <2>3 DEF At
<1> QED  BY <1>2, <1>3, <1>4

(***************************************************************************)
(* The text                                                                *)
(***************************************************************************)


\* The running print goes on and leaves the buffer alone.
LEMMA GoText ==
    ASSUME Types, TextInv, NEW t \in Threads, stk[t] # <<>>, NEW g \in Prints, Go(t, g),
           UNCHANGED buf, cursor_X' \in Nat, cursor_Y' \in Nat,
           ReadsInside(g), SendsOwn(g, buf)
    PROVE  Types' /\ TextInv'
<1>1. /\ stk' \in [Threads -> Seq(Prints)]
      /\ \A u \in Threads \ {t} : stk'[u] = stk[u]
      /\ Len(stk'[t]) = Len(stk[t]) /\ Len(stk[t]) \in Nat \ {0} /\ stk'[t][1] = g
      /\ \A k \in 2 .. Len(stk[t]) : stk'[t][k] = stk[t][k]
    BY GoStack
<1>2. ASSUME NEW u \in Threads, NEW k \in 1 .. Len(stk'[u])
      PROVE  ReadsInside(stk'[u][k]) /\ SendsOwn(stk'[u][k], buf')
    <2>1. CASE u = t /\ k = 1
        BY <1>1, <2>1
    <2>2. CASE ~(u = t /\ k = 1)
        <3>1. k \in 1 .. Len(stk[u]) /\ stk'[u][k] = stk[u][k]
            BY <1>1, <2>2
        <3>2. ReadsInside(stk[u][k]) /\ SendsOwn(stk[u][k], buf)
            BY <3>1 DEF TextInv
        <3> QED  BY <3>1, <3>2
    <2> QED  BY <2>1, <2>2
<1>3. Types'
    BY <1>1 DEF Types
<1>4. TextInv'
    BY <1>2 DEF TextInv
<1> QED  BY <1>3, <1>4

LEMMA NowText ==
    ASSUME Types, TextInv, NEW t \in Threads, stk[t] # <<>>
    PROVE  ReadsInside(Now(t)) /\ SendsOwn(Now(t), buf)
<1>1. Now(t) = stk[t][1] /\ 1 \in 1 .. Len(stk[t])
    BY NowPrint
<1> QED  BY <1>1 DEF TextInv

\* A step of a character leaves the text alone.
LEMMA MoveText ==
    ASSUME Types, TextInv, NEW t \in Threads, stk[t] # <<>>,
           NEW l \in Labels, l # "fmt", l # "release", Now(t).pc # "fmt", NEW v \in Nat,
           Move(t, l, v), UNCHANGED buf, cursor_X' \in Nat, cursor_Y' \in Nat
    PROVE  Types' /\ TextInv'
<1>1. PICK g : g = [Now(t) EXCEPT !.pc = l, !.r = v]
    OBVIOUS
<1>2. Now(t) \in Prints
    BY NowPrint
<1>3. /\ g \in Prints /\ g.pc = l /\ g.text = Now(t).text /\ g.from = Now(t).from
      /\ g.i = Now(t).i /\ g.mixed = Now(t).mixed /\ g.own = Now(t).own
    BY <1>1, <1>2 DEF Prints
<1>4. ReadsInside(Now(t)) /\ SendsOwn(Now(t), buf)
    BY NowText
<1>5. ReadsInside(g)
    BY <1>3, <1>4 DEF ReadsInside
<1>6. Stored(g) = Stored(Now(t))
    BY <1>3 DEF Stored
<1>7. SendsOwn(g, buf)
    BY <1>3, <1>4, <1>6 DEF SendsOwn
<1>8. Go(t, g)
    BY <1>1 DEF Move
<1> QED  BY <1>3, <1>5, <1>7, <1>8, GoText

\* console_write takes the next character.
LEMMA WriteText ==
    ASSUME Types, TextInv, NEW t \in Threads, console_write(t)
    PROVE  /\ Types' /\ TextInv'
           /\ stk[t] # <<>> /\ Now(t).pc = "char" /\ UNCHANGED <<cursor_X, cursor_Y, holder>>
           /\ \/ Goto(t, "release")
              \/ \E g \in Prints : /\ Go(t, g)
                                   /\ g.pc \in Chars \/ (g.pc = "wrap" /\ cursor_X = 0)
<1>1. /\ stk[t] # <<>> /\ Now(t).pc = "char"
      /\ UNCHANGED <<cursor_X, cursor_Y, buf, holder>>
    BY DEF console_write, On
<1>2. PICK f : f = Now(t)
    OBVIOUS
<1>3. PICK c \in CharsAt(f) :
          IF c = Zero THEN Goto(t, "release")
          ELSE Go(t, [f EXCEPT !.i = IF f.from = "buf" /\ @ > BufSize THEN @ ELSE @ + 1,
                               !.own = @ /\ (f.mixed \/ (f.i <= Len(f.text) /\ c = f.text[f.i])),
                               !.pc = IF c = "BS" /\ cursor_X = 0 THEN "wrap" ELSE c])
    BY <1>2 DEF console_write
<1>4. f \in Prints /\ f.pc = "char" /\ ReadsInside(f) /\ SendsOwn(f, buf)
    BY <1>1, <1>2, NowPrint, NowText
<1>5. /\ f.i \in Nat \ {0} /\ f.text \in Seq(Chars) /\ f.mixed \in BOOLEAN
      /\ f.own \in BOOLEAN /\ f.from \in {"buf", "const"} /\ BufSize \in Nat
    BY <1>4, ConsoleAssumption DEF Prints
<1>6. PICK i, n, x : /\ i \in Nat \ {0} /\ i = f.i
                     /\ n \in Nat /\ n = Len(f.text) /\ x = f.text[f.i]
    BY <1>5
<1>z. PICK z : z = Zero
    OBVIOUS
<1>zero. z \notin Chars
    BY <1>z DEF Chars, Zero
<1>char. i <= n => x \in Chars
    BY <1>5, <1>6
<1>in. f.from = "buf" => n < BufSize /\ (i <= BufSize => i \in 1 .. BufSize)
    BY <1>4, <1>5, <1>6 DEF ReadsInside
<1>7. /\ f.from = "buf" /\ i <= BufSize => c = buf[i]
      /\ f.from = "buf" /\ ~(i <= BufSize) => c \in Chars \cup {z}
      /\ f.from = "const" => c = IF i > n THEN z ELSE x
    <2>0. c \in CharsAt(f)
        OBVIOUS
    <2>1. CASE f.from = "const"
        <3>1. c = IF f.i > Len(f.text) THEN Zero ELSE f.text[f.i]
            BY <2>0, <2>1 DEF CharsAt
        <3> QED  BY <1>6, <1>z, <2>1, <3>1
    <2>2. CASE f.from # "const"
        <3>1. c \in IF f.i > BufSize THEN Chars \cup {Zero} ELSE {buf[f.i]}
            BY <2>0, <2>2 DEF CharsAt
        <3>2. i > BufSize <=> ~(i <= BufSize)
            BY <1>5, <1>6
        <3> QED  BY <1>6, <1>z, <2>2, <3>1, <3>2
    <2> QED  BY <2>1, <2>2
<1>8. c \in Chars \cup {z}
    <2>1. CASE f.from = "buf"
        BY <1>in, <1>7, <1>z, <2>1 DEF Types
    <2>2. CASE f.from = "const"
        BY <1>6, <1>7, <1>char, <2>2
    <2> QED  BY <1>5, <2>1, <2>2
<1>9. ~f.mixed => IF i <= n THEN c = x /\ c # z ELSE c = z /\ i = n + 1
    <2> SUFFICES ASSUME ~f.mixed PROVE IF i <= n THEN c = x /\ c # z ELSE c = z /\ i = n + 1
        OBVIOUS
    <2>1. i <= n + 1
        BY <1>4, <1>6 DEF ReadsInside
    <2>2. c = IF i <= n THEN x ELSE z
        <3>1. CASE f.from = "buf"
            <4>1. Stored(f) = n + 1
                BY <1>4, <1>6 DEF Stored
            <4>2. \A j \in 1 .. BufSize : buf[j] = IF j < Stored(f) THEN f.text[j] ELSE z
                BY <1>4, <1>z, <3>1 DEF SendsOwn
            <4>i. i <= BufSize
                BY <1>5, <1>6, <1>in, <2>1, <3>1
            <4>3. buf[i] = IF i < n + 1 THEN f.text[i] ELSE z
                BY <1>in, <3>1, <4>i, <4>1, <4>2
            <4> QED  BY <1>6, <1>7, <3>1, <4>i, <4>3
        <3>2. CASE f.from = "const"
            BY <1>6, <1>7, <3>2
        <3> QED  BY <1>5, <3>1, <3>2
    <2>3. CASE i <= n
        BY <1>zero, <1>char, <2>2, <2>3
    <2>4. CASE ~(i <= n)
        BY <1>6, <2>1, <2>2, <2>4
    <2> QED  BY <2>3, <2>4
<1>10. CASE c = z
    <2>1. Goto(t, "release")
        BY <1>3, <1>z, <1>10
    <2>2. PICK g : g = [f EXCEPT !.pc = "release", !.r = 0]
        OBVIOUS
    <2>3. /\ g \in Prints /\ g.pc = "release" /\ g.text = f.text /\ g.from = f.from
          /\ g.i = f.i /\ g.mixed = f.mixed /\ g.own = f.own
        <3>1. "release" \in Labels
            BY DEF Labels
        <3> QED  BY <1>4, <2>2, <3>1 DEF Prints
    <2>4. ReadsInside(g)
        BY <1>4, <2>3 DEF ReadsInside
    <2>5. Stored(g) = Stored(f)
        BY <1>4, <2>3 DEF Stored
    <2>6. SendsOwn(g, buf)
        BY <1>4, <1>6, <1>9, <1>10, <2>3, <2>5 DEF SendsOwn
    <2>7. Go(t, g)
        BY <1>2, <2>1, <2>2 DEF Goto
    <2>8. Types' /\ TextInv'
        BY <1>1, <2>3, <2>4, <2>6, <2>7, GoText DEF Types
    <2> QED  BY <1>1, <2>1, <2>8
<1>11. CASE c # z
    <2>1. PICK l : l = IF c = "BS" /\ cursor_X = 0 THEN "wrap" ELSE c
        OBVIOUS
    <2>2. PICK o : o = (f.own /\ (f.mixed \/ (f.i <= Len(f.text) /\ c = f.text[f.i])))
        OBVIOUS
    <2>j. PICK j \in Nat \ {0} : j = IF f.from = "buf" /\ f.i > BufSize THEN f.i ELSE f.i + 1
        BY <1>5
    <2>3. PICK g : g = [f EXCEPT !.i = j, !.own = o, !.pc = l]
        OBVIOUS
    <2>4. Go(t, g)
        BY <1>3, <1>z, <1>11, <2>1, <2>2, <2>j, <2>3
    <2>5. l \in Labels /\ (l \in Chars \/ (l = "wrap" /\ cursor_X = 0)) /\ c \in Chars
        BY <1>8, <1>11, <2>1 DEF Chars, Labels
    <2>6. o \in BOOLEAN
        BY <2>2
    <2>7. /\ g \in Prints /\ g.pc = l /\ g.text = f.text /\ g.from = f.from
          /\ g.i = j /\ g.mixed = f.mixed /\ g.own = o
        BY <1>4, <2>j, <2>3, <2>5, <2>6 DEF Prints
    <2>8. l # "fmt" /\ l # "release"
        BY <2>5 DEF Chars
    <2>9. ReadsInside(g)
        <3>2. Len(g.text) = n /\ (~f.mixed => i <= n)
            BY <1>6, <1>9, <1>11, <2>7
        <3>3. /\ g.from = "buf" => Len(g.text) < BufSize
              /\ ~g.mixed => g.i <= Len(g.text) + 1
            BY <1>5, <1>6, <1>in, <2>j, <2>7, <3>2
        <3>4. g.from = "const" => g.pc # "fmt"
            BY <2>7, <2>8
        <3> QED  BY <2>7, <2>8, <3>3, <3>4 DEF ReadsInside
    <2>10. Stored(g) = Stored(f)
        BY <1>4, <2>7, <2>8 DEF Stored
    <2>11. SendsOwn(g, buf)
        BY <1>4, <1>6, <1>9, <1>11, <2>2, <2>7, <2>8, <2>10 DEF SendsOwn
    <2>12. Types' /\ TextInv'
        BY <1>1, <2>4, <2>7, <2>9, <2>11, GoText DEF Types
    <2> QED  BY <1>1, <2>4, <2>5, <2>7, <2>12
<1> QED  BY <1>10, <1>11

\* A print that shares the buffer promises nothing about its text; one that
\* prints a constant does not use the buffer.
LEMMA MarkText ==
    ASSUME NEW f \in Prints, ReadsInside(f), NEW b
    PROVE  ReadsInside(Mark(f)) /\ SendsOwn(Mark(f), b)
<1>1. /\ Mark(f).pc = f.pc /\ Mark(f).text = f.text /\ Mark(f).from = f.from /\ Mark(f).i = f.i
      /\ Mark(f).mixed = TRUE
    BY MarkPrint
<1> QED  BY <1>1 DEF ReadsInside, SendsOwn

\* The print in front of t's stack in s writes to the buffer.
LEMMA WrittenText ==
    ASSUME NEW t \in Threads, NEW s \in [Threads -> Seq(Prints)], Len(s[t]) >= 1,
           ReadsInside(s[t][1]), SendsOwn(s[t][1], buf'),
           \A u \in Threads : \A k \in 1 .. Len(s[u]) :
               u # t \/ k # 1 => ReadsInside(s[u][k]) /\ SendsOwn(s[u][k], buf),
           stk' = Written(t, s)
    PROVE  TextInv'
<1>1. /\ \A u \in Threads : Len(stk'[u]) = Len(s[u])
      /\ \A u \in Threads : \A k \in 1 .. Len(s[u]) :
            stk'[u][k] = IF (u = t /\ k = 1) \/ s[u][k].from = "const"
                         THEN s[u][k] ELSE Mark(s[u][k])
    <2>1. Overwritten(stk', t, s)
        BY WrittenStack
    <2> QED  BY <2>1 DEF Overwritten
<1>2. ASSUME NEW u \in Threads, NEW k \in 1 .. Len(stk'[u])
      PROVE  ReadsInside(stk'[u][k]) /\ SendsOwn(stk'[u][k], buf')
    <2>1. k \in 1 .. Len(s[u]) /\ s[u] \in Seq(Prints)
        BY <1>1
    <2>2. s[u][k] \in Prints
        BY <2>1, SeqElement, Zenon
    <2>3. CASE u = t /\ k = 1
        BY <1>1, <2>1, <2>3
    <2>4. CASE ~(u = t /\ k = 1)
        <3>1. ReadsInside(s[u][k]) /\ SendsOwn(s[u][k], buf)
            BY <2>1, <2>4
        <3>2. CASE s[u][k].from = "const"
            <4>1. stk'[u][k] = s[u][k]
                BY <1>1, <2>1, <3>2
            <4>2. SendsOwn(s[u][k], buf')
                BY <3>1, <3>2 DEF SendsOwn
            <4> QED  BY <3>1, <4>1, <4>2
        <3>3. CASE s[u][k].from # "const"
            <4>1. stk'[u][k] = Mark(s[u][k])
                BY <1>1, <2>1, <2>4, <3>3
            <4> QED  BY <2>2, <3>1, <4>1, MarkText
        <3> QED  BY <3>2, <3>3
    <2> QED  BY <2>3, <2>4
<1> QED  BY <1>2 DEF TextInv

\* printk clears the buffer and begins to format.
LEMMA PrintkText ==
    ASSUME Types, TextInv, NEW t \in Threads, NEW text \in Texts, printk(t, text)
    PROVE  Types' /\ TextInv'
<1>1. /\ buf' = [k \in 1 .. BufSize |-> Zero] /\ UNCHANGED <<cursor_X, cursor_Y, holder>>
      /\ stk' = Written(t, Push(t, NewPrint(text, "buf", "fmt")))
    BY DEF printk
<1>2. text \in Seq(Chars) /\ Len(text) < BufSize /\ BufSize \in Nat
    BY ConsoleAssumption
<1>3. Len(text) \in Nat
    BY <1>2
<1>4. PICK g : g = NewPrint(text, "buf", "fmt")
    OBVIOUS
<1>5. /\ g \in Prints /\ g.pc = "fmt" /\ g.text = text /\ g.from = "buf" /\ g.i = 1
      /\ g.dst = 0 /\ g.mixed = FALSE /\ g.own = TRUE
    <2>1. "fmt" \in Labels
        BY DEF Labels
    <2> QED  BY <1>2, <1>4, <2>1 DEF NewPrint, Prints
<1>6. PICK s : s = Push(t, g)
    OBVIOUS
<1>7. /\ s \in [Threads -> Seq(Prints)]
      /\ \A u \in Threads \ {t} : s[u] = stk[u]
      /\ Len(s[t]) = Len(stk[t]) + 1 /\ Len(stk[t]) \in Nat
      /\ s[t][1] = g
      /\ \A k \in 2 .. Len(stk[t]) + 1 : s[t][k] = stk[t][k - 1]
    <2>1. g \in Prints
        BY <1>5
    <2>2. Pushed(s, t, g)
        BY <1>6, <2>1, PushStack
    <2> QED  BY <2>2 DEF Pushed
<1>8. ReadsInside(g) /\ SendsOwn(g, buf')
    <2>1. ReadsInside(g)
        BY <1>2, <1>3, <1>5 DEF ReadsInside
    <2>2. \A j \in 1 .. BufSize : ~(j < 1)
        BY <1>2
    <2>3. \A j \in 1 .. BufSize : buf'[j] = Zero
        BY <1>1, Zenon
    <2>4. Stored(g) = 1
        BY <1>5 DEF Stored
    <2> QED  BY <1>5, <2>1, <2>2, <2>3, <2>4 DEF SendsOwn
<1>9. ASSUME NEW u \in Threads, NEW k \in 1 .. Len(s[u]), u # t \/ k # 1
      PROVE  ReadsInside(s[u][k]) /\ SendsOwn(s[u][k], buf)
    <2>1. CASE u # t
        BY <1>7, <2>1 DEF TextInv
    <2>2. CASE u = t
        <3>1. k \in 2 .. Len(stk[t]) + 1 /\ k - 1 \in 1 .. Len(stk[t])
            BY <1>7, <1>9, <2>2
        <3> QED  BY <1>7, <2>2, <3>1 DEF TextInv
    <2> QED  BY <2>1, <2>2
<1>11. stk' = Written(t, s)
    BY <1>1, <1>4, <1>6
<1>12. TextInv'
    <2>1. Len(s[t]) >= 1
        BY <1>7
    <2>2. ReadsInside(s[t][1]) /\ SendsOwn(s[t][1], buf')
        BY <1>7, <1>8
    <2> QED  BY <1>7, <1>9, <1>11, <2>1, <2>2, WrittenText, Zenon
<1>13. stk' \in [Threads -> Seq(Prints)]
    BY <1>7, <1>11, WrittenStack DEF Overwritten
<1>14. Types'
    BY <1>1, <1>13 DEF Types
<1> QED  BY <1>12, <1>14

\* The keyboard handler prints its constant over the running print.
LEMMA UnknownKeyText ==
    ASSUME Types, TextInv, NEW t \in Threads, unknown_key(t)
    PROVE  Types' /\ TextInv'
<1>1. /\ UNCHANGED <<cursor_X, cursor_Y, buf, holder>>
      /\ stk' = Push(t, NewPrint(KeyText, "const", "lock"))
    BY DEF unknown_key
<1>2. KeyText \in Seq(Chars)
    BY ConsoleAssumption
<1>3. PICK g : g = NewPrint(KeyText, "const", "lock")
    OBVIOUS
<1>4. /\ g \in Prints /\ g.pc = "lock" /\ g.text = KeyText /\ g.from = "const" /\ g.i = 1
      /\ g.mixed = FALSE /\ g.own = TRUE
    <2>1. "lock" \in Labels
        BY DEF Labels
    <2> QED  BY <1>2, <1>3, <2>1 DEF NewPrint, Prints
<1>5. stk' = Push(t, g)
    BY <1>1, <1>3
<1>6. /\ stk' \in [Threads -> Seq(Prints)]
      /\ \A u \in Threads \ {t} : stk'[u] = stk[u]
      /\ Len(stk'[t]) = Len(stk[t]) + 1 /\ Len(stk[t]) \in Nat
      /\ stk'[t][1] = g
      /\ \A k \in 2 .. Len(stk[t]) + 1 : stk'[t][k] = stk[t][k - 1]
    <2>1. g \in Prints
        BY <1>4
    <2>2. Pushed(stk', t, g)
        BY <1>5, <2>1, PushStack
    <2> QED  BY <2>2 DEF Pushed
<1>7. ReadsInside(g) /\ SendsOwn(g, buf')
    <2>1. Len(KeyText) \in Nat
        BY <1>2
    <2> QED  BY <1>4, <2>1 DEF ReadsInside, SendsOwn
<1>8. ASSUME NEW u \in Threads, NEW k \in 1 .. Len(stk'[u])
      PROVE  ReadsInside(stk'[u][k]) /\ SendsOwn(stk'[u][k], buf')
    <2>1. CASE u # t
        BY <1>1, <1>6, <2>1 DEF TextInv
    <2>2. CASE u = t /\ k = 1
        BY <1>6, <1>7, <2>2
    <2>3. CASE u = t /\ k # 1
        <3>1. k \in 2 .. Len(stk[t]) + 1 /\ k - 1 \in 1 .. Len(stk[t])
            BY <1>6, <2>3
        <3> QED  BY <1>1, <1>6, <2>3, <3>1 DEF TextInv
    <2> QED  BY <2>1, <2>2, <2>3
<1>9. TextInv'
    BY <1>1, <1>8 DEF TextInv
<1>10. Types'
    BY <1>1, <1>6 DEF Types
<1> QED  BY <1>9, <1>10

\* The running print goes on as g.
Bumped(s, t, g) ==
    /\ s \in [Threads -> Seq(Prints)]
    /\ \A u \in Threads \ {t} : s[u] = stk[u]
    /\ Len(s[t]) = Len(stk[t]) /\ s[t][1] = g
    /\ \A k \in 2 .. Len(stk[t]) : s[t][k] = stk[t][k]

LEMMA TurnStack ==
    ASSUME Types, NEW t \in Threads, stk[t] # <<>>, NEW g \in Prints
    PROVE  Bumped(Turned(t, g), t, g)
<1>1. stk[t] \in Seq(Prints) /\ stk[t] # <<>>
    BY DEF Types
<1>2. /\ Tail(stk[t]) \in Seq(Prints) /\ Len(Tail(stk[t])) = Len(stk[t]) - 1
      /\ Len(stk[t]) \in Nat \ {0}
      /\ \A k \in 1 .. Len(stk[t]) - 1 : Tail(stk[t])[k] = stk[t][k + 1]
    BY <1>1
<1>3. PICK q : q = <<g>> \o Tail(stk[t])
    OBVIOUS
<1>4. /\ q \in Seq(Prints) /\ Len(q) = Len(stk[t]) /\ q[1] = g
      /\ \A k \in 2 .. Len(stk[t]) : q[k] = Tail(stk[t])[k - 1]
    BY <1>2, <1>3, PushOne
<1>5. \A k \in 2 .. Len(stk[t]) : q[k] = stk[t][k]
    BY <1>2, <1>4
<1>6. PICK s : s = Turned(t, g)
    OBVIOUS
<1>7. s = [stk EXCEPT ![t] = q]
    BY <1>3, <1>6 DEF Turned
<1>8. Bumped(s, t, g)
    BY <1>4, <1>5, <1>7 DEF Bumped, Types
<1> QED  BY <1>6, <1>8

\* Nobody else has written to the buffer since the print began.
Alone(f) == ~f.mixed

\* What the running print is while it formats.
LEMMA FormatPrint ==
    ASSUME Types, TextInv, NEW t \in Threads, NEW f, f = Now(t), On(t, "fmt")
    PROVE  /\ stk[t] # <<>> /\ f \in Prints /\ f.pc = "fmt" /\ f = stk[t][1]
           /\ ReadsInside(f) /\ SendsOwn(f, buf)
           /\ f.i \in Nat \ {0} /\ f.dst \in Nat /\ f.text \in Seq(Chars) /\ Len(f.text) \in Nat
           /\ f.from = "buf" /\ BufSize \in Nat
           /\ Len(f.text) < BufSize /\ f.i <= Len(f.text) + 1
           /\ Alone(f) => f.dst = 0 /\ f.own
           /\ Alone(f) => \A j \in 1 .. BufSize : buf[j] = IF j < f.i THEN f.text[j] ELSE Zero
<1>1. stk[t] # <<>> /\ f.pc = "fmt"
    BY DEF On
<1>2. f \in Prints /\ ReadsInside(f) /\ SendsOwn(f, buf) /\ f = stk[t][1]
    BY <1>1, NowPrint, NowText
<1>3. /\ f.i \in Nat \ {0} /\ f.dst \in Nat /\ f.text \in Seq(Chars)
      /\ f.from \in {"buf", "const"} /\ BufSize \in Nat
    BY <1>2, ConsoleAssumption DEF Prints
<1>4. Len(f.text) \in Nat
    BY <1>3
<1>5. /\ f.from = "buf" /\ Len(f.text) < BufSize /\ f.i <= Len(f.text) + 1
      /\ Alone(f) => f.dst = 0
    BY <1>1, <1>2, <1>3 DEF ReadsInside, Alone
<1>6. Stored(f) = f.i
    BY <1>1 DEF Stored
<1>7. Alone(f) => f.own /\ \A j \in 1 .. BufSize : buf[j] = IF j < f.i THEN f.text[j] ELSE Zero
    BY <1>2, <1>5, <1>6 DEF SendsOwn, Alone
<1> QED  BY <1>1, <1>2, <1>3, <1>4, <1>5, <1>7

\* The running print stores a character of its text or a zero; a print that
\* nobody disturbed stores it where its text ends.
LEMMA StoreText ==
    ASSUME Types, TextInv, NEW t \in Threads, NEW f, f = Now(t), On(t, "fmt"),
           NEW k, NEW c, NEW g \in Prints, Store(t, k, c, g), UNCHANGED <<cursor_X, cursor_Y>>,
           g.pc = "fmt", g.text = f.text, g.from = f.from, Alone(g) <=> Alone(f), g.own = f.own,
           Alone(f) => k = f.i /\ g.dst = 0,
           \/ f.i <= Len(f.text) /\ c = f.text[f.i] /\ g.i = f.i + 1
           \/ c = Zero /\ g.i = f.i
    PROVE  Types' /\ TextInv'
<1>1. /\ stk[t] # <<>> /\ f \in Prints /\ f.pc = "fmt"
      /\ f.i \in Nat \ {0} /\ f.text \in Seq(Chars) /\ Len(f.text) \in Nat
      /\ f.from = "buf" /\ BufSize \in Nat
      /\ Len(f.text) < BufSize /\ f.i <= Len(f.text) + 1
    BY FormatPrint
<1>2. PICK i \in Nat \ {0}, n \in Nat : i = f.i /\ n = Len(f.text)
    BY <1>1
<1>3. c \in Chars \cup {Zero}
    BY <1>1
<1>4. /\ \A j \in 1 .. BufSize : buf'[j] = IF j = k THEN c ELSE buf[j]
      /\ buf' \in [1 .. BufSize -> Chars \cup {Zero}]
    BY <1>3 DEF Store, Types
<1>5. PICK s : s = Turned(t, g)
    OBVIOUS
<1>6. Bumped(s, t, g)
    BY <1>1, <1>5, TurnStack
<1>7. /\ s \in [Threads -> Seq(Prints)]
      /\ \A u \in Threads \ {t} : s[u] = stk[u]
      /\ Len(s[t]) = Len(stk[t]) /\ Len(stk[t]) \in Nat \ {0} /\ s[t][1] = g
      /\ \A h \in 2 .. Len(stk[t]) : s[t][h] = stk[t][h]
    BY <1>1, <1>6, NowPrint DEF Bumped
<1>8. ReadsInside(g)
    <2>1. g.i <= Len(g.text) + 1
        BY <1>1, <1>2
    <2> QED  BY <1>1, <2>1 DEF ReadsInside, Alone
<1>9. SendsOwn(g, buf')
    <2> SUFFICES ASSUME Alone(g) PROVE SendsOwn(g, buf')
        BY DEF SendsOwn, Alone
    <2>1. /\ g.own /\ k = i
          /\ \A j \in 1 .. BufSize : buf[j] = IF j < i THEN f.text[j] ELSE Zero
        BY <1>2, FormatPrint
    <2>2. Stored(g) = g.i
        BY DEF Stored
    <2>3. ASSUME NEW j \in 1 .. BufSize
          PROVE  buf'[j] = IF j < g.i THEN g.text[j] ELSE Zero
        <3>1. buf'[j] = IF j = i THEN c ELSE buf[j]
            BY <1>4, <2>1
        <3>2. buf[j] = IF j < i THEN f.text[j] ELSE Zero
            BY <2>1
        <3>3. CASE c = Zero /\ g.i = i
            <4>1. j = i => ~(j < i)
                BY <1>2
            <4> QED  BY <3>1, <3>2, <3>3, <4>1
        <3>4. CASE c = f.text[i] /\ g.i = i + 1
            <4>1. CASE j = i
                <5>1. j < g.i
                    BY <1>2, <3>4, <4>1
                <5> QED  BY <3>1, <3>4, <4>1, <5>1
            <4>2. CASE j # i
                <5>1. j < g.i <=> j < i
                    BY <1>2, <3>4, <4>2
                <5> QED  BY <3>1, <3>2, <4>2, <5>1
            <4> QED  BY <4>1, <4>2
        <3> QED  BY <1>2, <3>3, <3>4
    <2> QED  BY <2>1, <2>2, <2>3 DEF SendsOwn
<1>10. ASSUME NEW u \in Threads, NEW h \in 1 .. Len(s[u]), u # t \/ h # 1
       PROVE  ReadsInside(s[u][h]) /\ SendsOwn(s[u][h], buf)
    <2>1. h \in 1 .. Len(stk[u]) /\ s[u][h] = stk[u][h]
        BY <1>7, <1>10
    <2> QED  BY <2>1 DEF TextInv
<1>11. stk' = Written(t, s)
    BY <1>5 DEF Store
<1>12. TextInv'
    <2>1. Len(s[t]) >= 1
        BY <1>7
    <2>2. ReadsInside(s[t][1]) /\ SendsOwn(s[t][1], buf')
        BY <1>7, <1>8, <1>9
    <2> QED  BY <1>7, <1>10, <1>11, <2>1, <2>2, WrittenText, Zenon
<1>13. stk' \in [Threads -> Seq(Prints)]
    BY <1>7, <1>11, WrittenStack DEF Overwritten
<1>14. Types'
    BY <1>4, <1>13 DEF Types
<1> QED  BY <1>12, <1>14

\* What a step of sprintk or strcat does to the running print f.
Formats(t, f) ==
    \E g \in Prints :
        /\ g.text = f.text /\ g.from = f.from /\ (Alone(g) <=> Alone(f)) /\ g.own = f.own /\ g.r = f.r
        /\ \/ /\ g.pc = "fmt" /\ (Alone(f) => g.dst = 0)
              /\ \E k, c : /\ Store(t, k, c, g) /\ (Alone(f) => k = f.i)
                           /\ \/ f.i <= Len(f.text) /\ c = f.text[f.i] /\ g.i = f.i + 1
                              \/ c = Zero /\ g.i = f.i
           \/ /\ g.pc = "fmt" /\ g.i = f.i /\ (Alone(f) => g.dst = 0)
              /\ Go(t, g) /\ UNCHANGED buf
           \/ /\ g.pc = "lock" /\ g.i = 1 /\ f.i > Len(f.text)
              /\ Go(t, g) /\ UNCHANGED buf

LEMMA FormatsText ==
    ASSUME Types, TextInv, NEW t \in Threads, NEW f, f = Now(t), On(t, "fmt"),
           Formats(t, f), UNCHANGED <<cursor_X, cursor_Y>>
    PROVE  Types' /\ TextInv'
<1>1. PICK g \in Prints :
        /\ g.text = f.text /\ g.from = f.from /\ (Alone(g) <=> Alone(f)) /\ g.own = f.own /\ g.r = f.r
        /\ \/ /\ g.pc = "fmt" /\ (Alone(f) => g.dst = 0)
              /\ \E k, c : /\ Store(t, k, c, g) /\ (Alone(f) => k = f.i)
                           /\ \/ f.i <= Len(f.text) /\ c = f.text[f.i] /\ g.i = f.i + 1
                              \/ c = Zero /\ g.i = f.i
           \/ /\ g.pc = "fmt" /\ g.i = f.i /\ (Alone(f) => g.dst = 0)
              /\ Go(t, g) /\ UNCHANGED buf
           \/ /\ g.pc = "lock" /\ g.i = 1 /\ f.i > Len(f.text)
              /\ Go(t, g) /\ UNCHANGED buf
    BY DEF Formats
<1>2. /\ stk[t] # <<>> /\ f \in Prints /\ f.pc = "fmt" /\ ReadsInside(f) /\ SendsOwn(f, buf)
      /\ f.i \in Nat \ {0} /\ f.text \in Seq(Chars) /\ Len(f.text) \in Nat
      /\ f.from = "buf" /\ BufSize \in Nat
      /\ Len(f.text) < BufSize /\ f.i <= Len(f.text) + 1
    BY FormatPrint
<1>3. ASSUME g.pc = "fmt", Alone(f) => g.dst = 0,
             NEW k, NEW c, Store(t, k, c, g), Alone(f) => k = f.i,
             \/ f.i <= Len(f.text) /\ c = f.text[f.i] /\ g.i = f.i + 1
             \/ c = Zero /\ g.i = f.i
      PROVE  Types' /\ TextInv'
    BY <1>1, <1>3, StoreText
<1>4. ASSUME Go(t, g), UNCHANGED buf,
             \/ g.pc = "fmt" /\ g.i = f.i /\ (Alone(f) => g.dst = 0)
             \/ g.pc = "lock" /\ g.i = 1 /\ f.i > Len(f.text)
      PROVE  Types' /\ TextInv'
    <2>1. ReadsInside(g)
        <3>1. g.i <= Len(g.text) + 1
            BY <1>1, <1>2, <1>4
        <3>2. g.pc = "fmt" /\ Alone(g) => g.dst = 0
            BY <1>1, <1>4
        <3> QED  BY <1>1, <1>2, <3>1, <3>2 DEF ReadsInside, Alone
    <2>2. Stored(g) = Stored(f)
        <3>1. CASE g.pc = "fmt"
            BY <1>2, <1>4, <3>1 DEF Stored
        <3>2. CASE g.pc # "fmt"
            <4>1. f.i = Len(f.text) + 1
                BY <1>2, <1>4, <3>2
            <4> QED  BY <1>1, <1>2, <3>2, <4>1 DEF Stored
        <3> QED  BY <3>1, <3>2
    <2>3. SendsOwn(g, buf)
        BY <1>1, <1>2, <1>4, <2>2 DEF SendsOwn, Alone
    <2> QED  BY <1>2, <1>4, <2>1, <2>3, GoText DEF Types
<1> QED  BY <1>1, <1>3, <1>4

LEMMA SprintkFormats ==
    ASSUME Types, TextInv, NEW t \in Threads, sprintk(t)
    PROVE  On(t, "fmt") /\ UNCHANGED <<cursor_X, cursor_Y, holder>> /\ Formats(t, Now(t))
<1>1. On(t, "fmt") /\ UNCHANGED <<cursor_X, cursor_Y, holder>>
    BY DEF sprintk
<1>2. PICK f : f = Now(t)
    OBVIOUS
<1>3. /\ f \in Prints /\ f.pc = "fmt" /\ f.i \in Nat \ {0} /\ Len(f.text) \in Nat
      /\ Alone(f) => f.dst = 0
    BY <1>1, <1>2, FormatPrint
<1>4. CASE f.i <= Len(f.text) /\ Store(t, f.i, f.text[f.i], [f EXCEPT !.i = @ + 1])
    <2>1. PICK j \in Nat \ {0} : j = f.i + 1
        BY <1>3
    <2>2. PICK g : g = [f EXCEPT !.i = j]
        OBVIOUS
    <2>3. /\ g \in Prints /\ g.pc = "fmt" /\ g.text = f.text /\ g.from = f.from /\ g.r = f.r
          /\ (Alone(g) <=> Alone(f)) /\ g.own = f.own /\ g.dst = f.dst /\ g.i = j
        BY <1>3, <2>1, <2>2 DEF Prints, Alone
    <2>4. Store(t, f.i, f.text[f.i], g)
        BY <1>4, <2>1, <2>2
    <2>5. Formats(t, f)
        BY <1>3, <1>4, <2>1, <2>3, <2>4 DEF Formats
    <2> QED  BY <1>1, <1>2, <2>5
<1>5. CASE Go(t, [f EXCEPT !.cat = "strlen"]) /\ UNCHANGED buf
    <2>1. PICK g : g = [f EXCEPT !.cat = "strlen"]
        OBVIOUS
    <2>2. /\ g \in Prints /\ g.pc = "fmt" /\ g.text = f.text /\ g.from = f.from /\ g.r = f.r
          /\ (Alone(g) <=> Alone(f)) /\ g.own = f.own /\ g.dst = f.dst /\ g.i = f.i
        BY <1>3, <2>1 DEF Prints, Alone
    <2>3. Go(t, g)
        BY <1>5, <2>1
    <2>4. Formats(t, f)
        BY <1>3, <1>5, <2>2, <2>3 DEF Formats
    <2> QED  BY <1>1, <1>2, <2>4
<1>6. CASE f.i > Len(f.text) /\ Go(t, [f EXCEPT !.pc = "lock", !.i = 1]) /\ UNCHANGED buf
    <2>1. PICK j \in Nat \ {0} : j = 1
        OBVIOUS
    <2>2. PICK g : g = [f EXCEPT !.pc = "lock", !.i = j]
        OBVIOUS
    <2>3. /\ g \in Prints /\ g.pc = "lock" /\ g.text = f.text /\ g.from = f.from /\ g.r = f.r
          /\ (Alone(g) <=> Alone(f)) /\ g.own = f.own /\ g.i = j
        <3>1. "lock" \in Labels
            BY DEF Labels
        <3> QED  BY <1>3, <2>1, <2>2, <3>1 DEF Prints, Alone
    <2>4. Go(t, g)
        BY <1>6, <2>1, <2>2
    <2>5. Formats(t, f)
        BY <1>6, <2>1, <2>3, <2>4 DEF Formats
    <2> QED  BY <1>1, <1>2, <2>5
<1> QED  BY <1>2, <1>4, <1>5, <1>6 DEF sprintk

\* In a buffer that is its own strcat finds an empty string.
LEMMA StrcatFormats ==
    ASSUME Types, TextInv, NEW t \in Threads, strcat(t)
    PROVE  On(t, "fmt") /\ UNCHANGED <<cursor_X, cursor_Y, holder>> /\ Formats(t, Now(t))
<1>1. On(t, "fmt") /\ UNCHANGED <<cursor_X, cursor_Y, holder>>
    BY DEF strcat
<1>2. PICK f : f = Now(t)
    OBVIOUS
<1>3. /\ f \in Prints /\ f.pc = "fmt" /\ f.i \in Nat \ {0} /\ f.dst \in Nat /\ Len(f.text) \in Nat
      /\ Alone(f) => f.dst = 0
      /\ Alone(f) => \A j \in 1 .. BufSize : buf[j] = IF j < f.i THEN f.text[j] ELSE Zero
      /\ BufSize \in Nat
    BY <1>1, <1>2, FormatPrint
<1>4. PICK k \in Nat \ {0} : k = f.i + f.dst
    BY <1>3
<1>5. Alone(f) => k = f.i /\ (k <= BufSize => buf[k] = Zero)
    <2> SUFFICES ASSUME Alone(f) PROVE k = f.i /\ (k <= BufSize => buf[k] = Zero)
        OBVIOUS
    <2>1. k = f.i
        BY <1>3, <1>4
    <2>2. k <= BufSize => k \in 1 .. BufSize /\ ~(k < f.i)
        BY <1>3, <2>1
    <2> QED  BY <1>3, <2>1, <2>2
<1>6. CASE /\ Go(t, IF k <= BufSize /\ buf[k] # Zero THEN [f EXCEPT !.dst = @ + 1]
                                                   ELSE [f EXCEPT !.cat = "copy"])
           /\ UNCHANGED buf
    <2>1. PICK e \in Nat, w \in {"no", "strlen", "copy"} :
              /\ [f EXCEPT !.dst = e, !.cat = w] =
                     (IF k <= BufSize /\ buf[k] # Zero THEN [f EXCEPT !.dst = @ + 1]
                                                     ELSE [f EXCEPT !.cat = "copy"])
              /\ Alone(f) => e = 0
        <3>1. CASE k <= BufSize /\ buf[k] # Zero
            <4>1. PICK e \in Nat : e = f.dst + 1
                BY <1>3
            <4>2. f.cat \in {"no", "strlen", "copy"}
                BY <1>3 DEF Prints
            <4>3. [f EXCEPT !.dst = e, !.cat = f.cat] = [f EXCEPT !.dst = @ + 1]
                BY <1>3, <4>1 DEF Prints
            <4> QED  BY <1>5, <3>1, <4>1, <4>2, <4>3
        <3>2. CASE ~(k <= BufSize /\ buf[k] # Zero)
            <4>1. [f EXCEPT !.dst = f.dst, !.cat = "copy"] = [f EXCEPT !.cat = "copy"]
                BY <1>3 DEF Prints
            <4> QED  BY <1>3, <3>2, <4>1
        <3> QED  BY <3>1, <3>2
    <2>2. PICK g : g = [f EXCEPT !.dst = e, !.cat = w]
        OBVIOUS
    <2>3. /\ g \in Prints /\ g.pc = "fmt" /\ g.text = f.text /\ g.from = f.from /\ g.r = f.r
          /\ (Alone(g) <=> Alone(f)) /\ g.own = f.own /\ g.dst = e /\ g.i = f.i
        BY <1>3, <2>2 DEF Prints, Alone
    <2>4. Go(t, g)
        BY <1>6, <2>1, <2>2
    <2>5. Formats(t, f)
        BY <1>6, <2>1, <2>3, <2>4 DEF Formats
    <2> QED  BY <1>1, <1>2, <2>5
<1>7. CASE f.i <= Len(f.text) /\ Store(t, k, f.text[f.i], [f EXCEPT !.i = @ + 1])
    <2>1. PICK j \in Nat \ {0} : j = f.i + 1
        BY <1>3
    <2>2. PICK g : g = [f EXCEPT !.i = j]
        OBVIOUS
    <2>3. /\ g \in Prints /\ g.pc = "fmt" /\ g.text = f.text /\ g.from = f.from /\ g.r = f.r
          /\ (Alone(g) <=> Alone(f)) /\ g.own = f.own /\ g.dst = f.dst /\ g.i = j
        BY <1>3, <2>1, <2>2 DEF Prints, Alone
    <2>4. Store(t, k, f.text[f.i], g)
        BY <1>7, <2>1, <2>2
    <2>5. Formats(t, f)
        BY <1>3, <1>5, <1>7, <2>1, <2>3, <2>4 DEF Formats
    <2> QED  BY <1>1, <1>2, <2>5
<1>8. CASE Store(t, k, Zero, [f EXCEPT !.cat = "no", !.dst = 0])
    <2>1. PICK e \in Nat : e = 0
        OBVIOUS
    <2>2. PICK g : g = [f EXCEPT !.cat = "no", !.dst = e]
        OBVIOUS
    <2>3. /\ g \in Prints /\ g.pc = "fmt" /\ g.text = f.text /\ g.from = f.from /\ g.r = f.r
          /\ (Alone(g) <=> Alone(f)) /\ g.own = f.own /\ g.dst = e /\ g.i = f.i
        BY <1>3, <2>2 DEF Prints, Alone
    <2>4. Store(t, k, Zero, g)
        BY <1>8, <2>1, <2>2
    <2>5. Formats(t, f)
        BY <1>5, <2>1, <2>3, <2>4 DEF Formats
    <2> QED  BY <1>1, <1>2, <2>5
<1> QED  BY <1>2, <1>4, <1>6, <1>7, <1>8 DEF strcat

LEMMA PopStack ==
    ASSUME Types, NEW t \in Threads, stk[t] # <<>>, stk' = [stk EXCEPT ![t] = Tail(@)]
    PROVE  /\ stk' \in [Threads -> Seq(Prints)]
           /\ \A u \in Threads \ {t} : stk'[u] = stk[u]
           /\ Len(stk'[t]) = Len(stk[t]) - 1 /\ Len(stk[t]) \in Nat \ {0}
           /\ \A k \in 1 .. Len(stk[t]) - 1 : stk'[t][k] = stk[t][k + 1]
<1>1. stk[t] \in Seq(Prints) /\ stk[t] # <<>>
    BY DEF Types
<1>2. /\ Tail(stk[t]) \in Seq(Prints) /\ Len(Tail(stk[t])) = Len(stk[t]) - 1
      /\ Len(stk[t]) \in Nat \ {0}
      /\ \A k \in 1 .. Len(stk[t]) - 1 : Tail(stk[t])[k] = stk[t][k + 1]
    BY <1>1
<1>3. /\ stk' \in [Threads -> Seq(Prints)] /\ stk'[t] = Tail(stk[t])
      /\ \A u \in Threads \ {t} : stk'[u] = stk[u]
    BY <1>2 DEF Types
<1> QED  BY <1>2, <1>3

LEMMA ReleaseText ==
    ASSUME Types, TextInv, NEW t \in Threads, console_release(t)
    PROVE  Types' /\ TextInv'
<1>1. /\ stk[t] # <<>> /\ stk' = [stk EXCEPT ![t] = Tail(@)]
      /\ UNCHANGED <<cursor_X, cursor_Y, buf>>
    BY DEF console_release, On
<1>2. /\ stk' \in [Threads -> Seq(Prints)]
      /\ \A u \in Threads \ {t} : stk'[u] = stk[u]
      /\ Len(stk'[t]) = Len(stk[t]) - 1 /\ Len(stk[t]) \in Nat \ {0}
      /\ \A k \in 1 .. Len(stk[t]) - 1 : stk'[t][k] = stk[t][k + 1]
    BY <1>1, PopStack
<1>3. ASSUME NEW u \in Threads, NEW k \in 1 .. Len(stk'[u])
      PROVE  ReadsInside(stk'[u][k]) /\ SendsOwn(stk'[u][k], buf')
    <2>1. CASE u # t
        BY <1>1, <1>2, <2>1 DEF TextInv
    <2>2. CASE u = t
        <3>1. k \in 1 .. Len(stk[t]) - 1 /\ k + 1 \in 1 .. Len(stk[t])
            BY <1>2, <2>2
        <3> QED  BY <1>1, <1>2, <2>2, <3>1 DEF TextInv
    <2> QED  BY <2>1, <2>2
<1>4. TextInv'
    BY <1>1, <1>3 DEF TextInv
<1>5. Types'
    BY <1>1, <1>2 DEF Types
<1> QED  BY <1>4, <1>5

(***************************************************************************)
(* The cursor                                                              *)
(***************************************************************************)
LEMMA UnderNat ==
    ASSUME NEW t, NEW d \in Nat
    PROVE  Under(t, d) \in Nat /\ IsFiniteSet(Below(t, d))
<1>1. IsFiniteSet(1 .. d - 1)
    BY FS_Interval
<1>2. Below(t, d) \subseteq 1 .. d - 1
    BY DEF Below
<1>3. IsFiniteSet(Below(t, d))
    BY <1>1, <1>2, FS_Subset
<1> QED  BY <1>3, FS_CardinalityType DEF Under

LEMMA SameBelow ==
    ASSUME NEW u, NEW d,
           \A e \in 1 .. d - 1 : InPutc(At(u, e))' <=> InPutc(At(u, e))
    PROVE  Under(u, d)' = Under(u, d)
<1>1. Below(u, d)' = Below(u, d)
    BY DEF Below
<1> QED  BY <1>1 DEF Under

\* The prints inside a character are the same before and after a step.
Undisturbed ==
    /\ \A u \in Threads : \A d \in 1 .. Len(stk[u]) :
          \/ /\ d \in 1 .. Len(stk'[u])
             /\ At(u, d)'.pc = At(u, d).pc /\ At(u, d)'.r = At(u, d).r
          \/ /\ ~InPutc(At(u, d))
             /\ d \in 1 .. Len(stk'[u]) => ~InPutc(At(u, d))'
    /\ \A u \in Threads : \A d \in 1 .. Len(stk'[u]) :
          d \in 1 .. Len(stk[u]) \/ ~InPutc(At(u, d))'

LEMMA QuietCursor ==
    ASSUME Types, Types', RegInv, CursorInv, Undisturbed, UNCHANGED <<cursor_X, cursor_Y>>
    PROVE  RegInv' /\ CursorInv'
<1>1. ASSUME NEW u \in Threads
      PROVE  Len(stk[u]) \in Nat /\ Len(stk'[u]) \in Nat
    <2>1. stk[u] \in Seq(Prints) /\ stk'[u] \in Seq(Prints)
        BY DEF Types
    <2> QED  BY <2>1
<1>2. ASSUME NEW u \in Threads, NEW d \in 1 .. Len(stk[u]), d \in 1 .. Len(stk'[u])
      PROVE  InPutc(At(u, d))' <=> InPutc(At(u, d))
    BY <1>2 DEF Undisturbed, InPutc
<1>3. ASSUME NEW u \in Threads, NEW d \in 1 .. Len(stk[u]), d \in 1 .. Len(stk'[u])
      PROVE  Under(u, d)' = Under(u, d)
    <2>1. ASSUME NEW e \in 1 .. d - 1
          PROVE  InPutc(At(u, e))' <=> InPutc(At(u, e))
        <3>1. e \in 1 .. Len(stk[u]) /\ e \in 1 .. Len(stk'[u])
            BY <1>1, <1>3
        <3> QED  BY <1>2, <3>1
    <2> QED  BY <2>1, SameBelow
<1>4. RegInv'
    <2> SUFFICES ASSUME NEW u \in Threads, NEW d \in 1 .. Len(stk'[u]),
                        At(u, d)'.pc \in {"Y", "wrapY"}
                 PROVE  At(u, d)'.r <= Rows + Under(u, d)'
        BY DEF RegInv
    <2>1. InPutc(At(u, d))'
        BY DEF InPutc
    <2>2. d \in 1 .. Len(stk[u])
        BY <2>1 DEF Undisturbed
    <2>3. At(u, d)'.pc = At(u, d).pc /\ At(u, d)'.r = At(u, d).r
        BY <2>1, <2>2 DEF Undisturbed
    <2>4. At(u, d).r <= Rows + Under(u, d)
        BY <2>2, <2>3 DEF RegInv
    <2> QED  BY <1>3, <2>2, <2>3, <2>4
<1>5. CursorInv'
    <2>1. CASE Clean
        BY <2>1 DEF CursorInv, Clean
    <2>2. CASE ~Clean
        <3>1. PICK u, d :
                  u \in Threads /\ d \in 1 .. Len(stk[u]) /\ Topmost(u, d) /\ Fits(At(u, d).pc, Under(u, d))
            BY <2>2 DEF CursorInv
        <3>2. InPutc(At(u, d)) /\ \A e \in d + 1 .. Len(stk[u]) : ~InPutc(At(u, e))
            BY <3>1 DEF Topmost
        <3>3. d \in 1 .. Len(stk'[u]) /\ At(u, d)'.pc = At(u, d).pc
            BY <3>1, <3>2 DEF Undisturbed
        <3>4. InPutc(At(u, d))' /\ Under(u, d)' = Under(u, d)
            BY <1>2, <1>3, <3>1, <3>2, <3>3
        <3>5. ASSUME NEW e \in d + 1 .. Len(stk'[u])
              PROVE  ~InPutc(At(u, e))'
            <4>1. e \in 1 .. Len(stk'[u])
                BY <1>1, <3>1
            <4>2. CASE e \in 1 .. Len(stk[u])
                <5>1. e \in d + 1 .. Len(stk[u])
                    BY <1>1, <3>1, <4>2
                <5> QED  BY <1>2, <3>1, <3>2, <4>1, <4>2, <5>1
            <4>3. CASE e \notin 1 .. Len(stk[u])
                BY <3>1, <4>1, <4>3 DEF Undisturbed
            <4> QED  BY <4>2, <4>3
        <3>6. Topmost(u, d)'
            BY <3>3, <3>4, <3>5 DEF Topmost
        <3>7. Fits(At(u, d).pc, Under(u, d))'
            BY <3>1, <3>3, <3>4 DEF Fits
        <3> QED  BY <3>1, <3>3, <3>6, <3>7 DEF CursorInv
    <2> QED  BY <2>1, <2>2
<1> QED  BY <1>4, <1>5

\* The holder of the lock is the only thread that is inside a character.
LEMMA OnlyHolder ==
    ASSUME Types, LockInv, NEW t \in Threads, NEW d \in 1 .. Len(stk[t]),
           At(t, d).pc \notin {"fmt", "lock"},
           NEW u \in Threads, NEW e \in 1 .. Len(stk[u]), InPutc(At(u, e))
    PROVE  u = t
<1>1. Locked(t) /\ Locked(u)
    BY DEF Locked, InPutc
<1> QED  BY <1>1 DEF LockInv

\* The cursor fits the running print when that is inside a character,
LEMMA TopFits ==
    ASSUME Types, LockInv, CursorInv, NEW t \in Threads, stk[t] # <<>>, InPutc(Now(t))
    PROVE  Fits(Now(t).pc, Under(t, Len(stk[t]))) /\ Under(t, Len(stk[t])) \in Nat
<1>1. /\ Now(t) = At(t, Len(stk[t])) /\ Len(stk[t]) \in Nat \ {0} /\ Now(t) \in Prints
      /\ Len(stk[t]) \in 1 .. Len(stk[t])
    BY NowPrint
<1>2. Under(t, Len(stk[t])) \in Nat
    BY <1>1, UnderNat
<1>3. CASE Clean
    <2>1. cursor_X \in Nat /\ cursor_Y \in Nat /\ Rows \in Nat /\ Cols \in Nat
        BY ConsoleAssumption DEF Types
    <2> QED  BY <1>2, <1>3, <2>1 DEF Fits, Clean
<1>4. CASE ~Clean
    <2>1. PICK u, d :
              u \in Threads /\ d \in 1 .. Len(stk[u]) /\ Topmost(u, d) /\ Fits(At(u, d).pc, Under(u, d))
        BY <1>4 DEF CursorInv
    <2>2. u = t
        <3>1. InPutc(At(u, d)) /\ At(t, Len(stk[t])).pc \notin {"fmt", "lock"}
            BY <1>1, <2>1 DEF Topmost, InPutc
        <3> QED  BY <1>1, <2>1, <3>1, OnlyHolder
    <2>3. d = Len(stk[t])
        <3>1. ~(Len(stk[t]) \in d + 1 .. Len(stk[t]))
            BY <1>1, <2>1, <2>2 DEF Topmost
        <3> QED  BY <1>1, <2>1, <2>2, <3>1
    <2> QED  BY <1>1, <1>2, <2>1, <2>2, <2>3
<1> QED  BY <1>3, <1>4

\* and when it is about to take the next character, it fits that one.
LEMMA NextFits ==
    ASSUME Types, LockInv, CursorInv, NEW t \in Threads, stk[t] # <<>>, Now(t).pc = "char"
    PROVE  /\ Under(t, Len(stk[t])) \in Nat
           /\ cursor_Y < Rows + Under(t, Len(stk[t]))
           /\ Under(t, Len(stk[t])) = 0 => cursor_X < Cols
<1>1. /\ Now(t) = At(t, Len(stk[t])) /\ Len(stk[t]) \in Nat \ {0} /\ Now(t) \in Prints
      /\ Len(stk[t]) \in 1 .. Len(stk[t])
    BY NowPrint
<1>2. Under(t, Len(stk[t])) \in Nat
    BY <1>1, UnderNat
<1>3. cursor_X \in Nat /\ cursor_Y \in Nat /\ Rows \in Nat /\ Cols \in Nat
    BY ConsoleAssumption DEF Types
<1>4. CASE Clean
    BY <1>2, <1>3, <1>4 DEF Clean
<1>5. CASE ~Clean
    <2>1. PICK u, d :
              u \in Threads /\ d \in 1 .. Len(stk[u]) /\ Topmost(u, d) /\ Fits(At(u, d).pc, Under(u, d))
        BY <1>5 DEF CursorInv
    <2>2. u = t
        <3>1. InPutc(At(u, d)) /\ At(t, Len(stk[t])).pc \notin {"fmt", "lock"}
            BY <1>1, <2>1 DEF Topmost
        <3> QED  BY <1>1, <2>1, <3>1, OnlyHolder
    <2>3. d # Len(stk[t]) /\ d \in Nat /\ d < Len(stk[t])
        <3>1. d # Len(stk[t])
            BY <1>1, <2>1, <2>2 DEF Topmost, InPutc
        <3> QED  BY <1>1, <2>1, <2>2, <3>1
    <2>4. Below(t, Len(stk[t])) = Below(t, d) \cup {d}
        <3>1. InPutc(At(t, d)) /\ \A e \in d + 1 .. Len(stk[t]) : ~InPutc(At(t, e))
            BY <2>1, <2>2 DEF Topmost
        <3>2. d \in 1 .. Len(stk[t]) - 1
            BY <1>1, <2>1, <2>2, <2>3
        <3>3. ASSUME NEW e
              PROVE  e \in Below(t, Len(stk[t])) <=> e \in Below(t, d) \cup {d}
            <4>1. CASE e \in 1 .. Len(stk[t]) - 1
                <5>1. e \in 1 .. d - 1 \/ e = d \/ e \in d + 1 .. Len(stk[t])
                    BY <1>1, <2>3, <4>1
                <5>2. e \in d + 1 .. Len(stk[t]) => e \notin 1 .. d - 1 /\ e # d
                    BY <1>1, <2>3
                <5>3. e \in 1 .. d - 1 => e # d
                    BY <2>3
                <5> QED  BY <3>1, <4>1, <5>1, <5>2, <5>3 DEF Below
            <4>2. CASE e \notin 1 .. Len(stk[t]) - 1
                <5>1. e \notin 1 .. d - 1 /\ e # d
                    BY <1>1, <2>3, <3>2, <4>2
                <5> QED  BY <4>2, <5>1 DEF Below
            <4> QED  BY <4>1, <4>2
        <3> QED  BY <3>3
    <2>5. Under(t, Len(stk[t])) = Under(t, d) + 1 /\ Under(t, d) \in Nat
        <3>1. d \notin Below(t, d)
            BY <2>3 DEF Below
        <3>2. IsFiniteSet(Below(t, d)) /\ Under(t, d) \in Nat
            BY <2>3, UnderNat
        <3>3. Cardinality(Below(t, d) \cup {d}) = Cardinality(Below(t, d)) + 1
            BY <3>1, <3>2, FS_AddElement
        <3> QED  BY <2>4, <3>2, <3>3 DEF Under
    <2>6. cursor_Y <= Rows + Under(t, d)
        BY <2>1, <2>2 DEF Fits
    <2> QED  BY <1>2, <1>3, <2>5, <2>6
<1> QED  BY <1>4, <1>5

\* The prints under the running one, counted in any thread, stay the same.
LEMMA GoUnder ==
    ASSUME Types, NEW t \in Threads, stk[t] # <<>>, NEW g \in Prints, Go(t, g),
           NEW u \in Threads, NEW d \in 1 .. Len(stk[u])
    PROVE  Under(u, d)' = Under(u, d)
<1>1. stk[u] \in Seq(Prints) /\ stk[t] \in Seq(Prints)
    BY DEF Types
<1>2. Len(stk[u]) \in Nat /\ Len(stk[t]) \in Nat
    BY <1>1
<1>3. ASSUME NEW e \in 1 .. d - 1
      PROVE  InPutc(At(u, e))' <=> InPutc(At(u, e))
    <2>1. e \in 1 .. Len(stk[u]) /\ (u = t => e # Len(stk[t]))
        BY <1>2
    <2>2. At(u, e)' = At(u, e)
        BY <2>1, GoDepth
    <2> QED  BY <2>2 DEF InPutc
<1> QED  BY <1>3, SameBelow

LEMMA GoReg ==
    ASSUME Types, RegInv, NEW t \in Threads, stk[t] # <<>>, NEW g \in Prints, Go(t, g),
           g.pc \in {"Y", "wrapY"} => g.r <= Rows + Under(t, Len(stk[t]))
    PROVE  RegInv'
<1>1. Len(stk[t]) \in Nat \ {0} /\ Len(stk[t]) \in 1 .. Len(stk[t])
    BY NowPrint
<1> SUFFICES ASSUME NEW u \in Threads, NEW d \in 1 .. Len(stk'[u]), At(u, d)'.pc \in {"Y", "wrapY"}
             PROVE  At(u, d)'.r <= Rows + Under(u, d)'
    BY DEF RegInv
<1>2. d \in 1 .. Len(stk[u])
    BY GoDepth
<1>3. Under(u, d)' = Under(u, d)
    BY <1>2, GoUnder
<1>4. CASE u = t /\ d = Len(stk[t])
    <2>1. At(u, d)' = g
        BY <1>4, GoDepth
    <2> QED  BY <1>3, <1>4, <2>1
<1>5. CASE ~(u = t /\ d = Len(stk[t]))
    <2>1. At(u, d)' = At(u, d)
        BY <1>2, <1>5, GoDepth
    <2> QED  BY <1>2, <1>3, <2>1 DEF RegInv
<1> QED  BY <1>4, <1>5

\* A thread that is past the lock and goes on leaves the lock as it is.
LEMMA GoLock ==
    ASSUME Types, LockInv, NEW t \in Threads, stk[t] # <<>>, NEW g \in Prints, Go(t, g),
           holder' = holder, Now(t).pc \notin {"fmt", "lock"} \/ g.pc \in {"fmt", "lock"}
    PROVE  LockInv'
<1>1. Now(t) = At(t, Len(stk[t])) /\ Len(stk[t]) \in 1 .. Len(stk[t])
    BY NowPrint
<1> SUFFICES ASSUME NEW u \in Threads, Locked(u)'
             PROVE  holder' = u
    BY DEF LockInv
<1>2. PICK d \in 1 .. Len(stk'[u]) : At(u, d)'.pc \notin {"fmt", "lock"}
    BY DEF Locked
<1>3. d \in 1 .. Len(stk[u])
    BY GoDepth
<1>4. Locked(u)
    <2>1. CASE u = t /\ d = Len(stk[t])
        <3>1. At(u, d)' = g
            BY <2>1, GoDepth
        <3> QED  BY <1>1, <1>2, <2>1, <3>1 DEF Locked
    <2>2. CASE ~(u = t /\ d = Len(stk[t]))
        <3>1. At(u, d)' = At(u, d)
            BY <1>3, <2>2, GoDepth
        <3> QED  BY <1>2, <1>3, <3>1 DEF Locked
    <2> QED  BY <2>1, <2>2
<1> QED  BY <1>4 DEF LockInv

\* A step of the running print that leaves it inside a character.
LEMMA InsideMove ==
    ASSUME Types, LockInv, RegInv, NEW t \in Threads, stk[t] # <<>>,
           Now(t).pc \notin {"fmt", "lock"}, NEW g \in Prints, Go(t, g), InPutc(g),
           holder' = holder, NEW n, n = Under(t, Len(stk[t])),
           g.pc \in {"Y", "wrapY"} => g.r <= Rows + n, Fits(g.pc, n)'
    PROVE  LockInv' /\ RegInv' /\ CursorInv'
<1>1. LockInv' /\ RegInv'
    BY GoLock, GoReg
<1>2. Len(stk[t]) \in Nat \ {0} /\ Len(stk[t]) \in 1 .. Len(stk[t])
    BY NowPrint
<1>3. PICK d : d = Len(stk[t])
    OBVIOUS
<1>4. d \in 1 .. Len(stk'[t]) /\ Len(stk'[t]) = d
    BY <1>2, <1>3, GoDepth
<1>5. At(t, d)' = g
    BY <1>3, GoDepth
<1>6. Under(t, d)' = n
    BY <1>2, <1>3, GoUnder
<1>7. Topmost(t, d)'
    <2>1. \A e \in d + 1 .. Len(stk'[t]) : FALSE
        BY <1>2, <1>3, <1>4
    <2> QED  BY <1>4, <1>5, <2>1 DEF Topmost, InPutc
<1>8. Fits(At(t, d).pc, Under(t, d))'
    BY <1>5, <1>6 DEF Fits
<1>9. CursorInv'
    BY <1>4, <1>7, <1>8 DEF CursorInv
<1> QED  BY <1>1, <1>9

\* A step that ends a character.
LEMMA OutMove ==
    ASSUME Types, LockInv, RegInv, NEW t \in Threads, stk[t] # <<>>,
           Now(t).pc \notin {"fmt", "lock"}, NEW g \in Prints, Go(t, g), g.pc = "char",
           holder' = holder, Clean'
    PROVE  LockInv' /\ RegInv' /\ CursorInv'
<1>1. LockInv' /\ RegInv'
    BY GoLock, GoReg
<1> QED  BY <1>1 DEF CursorInv

\* A step between characters.
LEMMA AwayMove ==
    ASSUME Types, Types', RegInv, CursorInv, NEW t \in Threads, stk[t] # <<>>,
           ~InPutc(Now(t)), NEW g \in Prints, Go(t, g), ~InPutc(g),
           UNCHANGED <<cursor_X, cursor_Y>>
    PROVE  RegInv' /\ CursorInv'
<1>1. Now(t) = At(t, Len(stk[t]))
    BY NowPrint
<1>2. Undisturbed
    <2>1. ASSUME NEW u \in Threads, NEW d \in 1 .. Len(stk[u])
          PROVE  \/ /\ d \in 1 .. Len(stk'[u])
                    /\ At(u, d)'.pc = At(u, d).pc /\ At(u, d)'.r = At(u, d).r
                 \/ /\ ~InPutc(At(u, d))
                    /\ d \in 1 .. Len(stk'[u]) => ~InPutc(At(u, d))'
        <3>1. CASE u = t /\ d = Len(stk[t])
            <4>1. At(u, d)' = g
                BY <3>1, GoDepth
            <4> QED  BY <1>1, <3>1, <4>1 DEF InPutc
        <3>2. CASE ~(u = t /\ d = Len(stk[t]))
            BY <3>2, GoDepth
        <3> QED  BY <3>1, <3>2
    <2>2. ASSUME NEW u \in Threads, NEW d \in 1 .. Len(stk'[u])
          PROVE  d \in 1 .. Len(stk[u])
        BY GoDepth
    <2> QED  BY <2>1, <2>2 DEF Undisturbed
<1> QED  BY <1>2, QuietCursor

(***************************************************************************)
(* The steps                                                               *)
(***************************************************************************)

\* A step inside a character, from what the cursor may be before it, for any
\* number n of prints that it interrupts.
LEMMA CharStep ==
    ASSUME CInv, NEW t \in Threads, stk[t] # <<>>, InPutc(Now(t)),
           NEW l \in Labels, l \notin {"fmt", "lock", "release"}, NEW v \in Nat,
           Move(t, l, v), UNCHANGED <<buf, holder>>, cursor_X' \in Nat, cursor_Y' \in Nat,
           \A n \in Nat :
               Fits(Now(t).pc, n) /\ (Now(t).pc \in {"Y", "wrapY"} => Now(t).r <= Rows + n)
                   => IF l = "char" THEN Clean'
                      ELSE Fits(l, n)' /\ (l \in {"Y", "wrapY"} => v <= Rows + n)
    PROVE  CInv'
<1>1. Types /\ TextInv /\ LockInv /\ RegInv /\ CursorInv
    BY DEF CInv
<1>2. /\ Now(t) \in Prints /\ Now(t) = At(t, Len(stk[t])) /\ Len(stk[t]) \in 1 .. Len(stk[t])
    BY <1>1, NowPrint
<1>3. Now(t).pc \notin {"fmt", "lock", "char", "release"}
    BY DEF InPutc
<1>4. Types' /\ TextInv'
    BY <1>1, <1>3, MoveText
<1>5. PICK g : g = [Now(t) EXCEPT !.pc = l, !.r = v]
    OBVIOUS
<1>6. g \in Prints /\ g.pc = l /\ g.r = v
    BY <1>2, <1>5 DEF Prints
<1>7. Go(t, g)
    BY <1>5 DEF Move
<1>8. PICK n : n = Under(t, Len(stk[t]))
    OBVIOUS
<1>9. n \in Nat /\ Fits(Now(t).pc, n)
    BY <1>1, <1>8, TopFits
<1>10. Now(t).pc \in {"Y", "wrapY"} => Now(t).r <= Rows + n
    BY <1>1, <1>2, <1>8 DEF RegInv
<1>11. IF l = "char" THEN Clean' ELSE Fits(l, n)' /\ (l \in {"Y", "wrapY"} => v <= Rows + n)
    BY <1>9, <1>10
<1>12. LockInv' /\ RegInv' /\ CursorInv'
    <2>1. CASE l = "char"
        BY <1>1, <1>3, <1>6, <1>7, <1>11, <2>1, OutMove
    <2>2. CASE l # "char"
        <3>1. InPutc(g)
            BY <1>6, <2>2 DEF InPutc
        <3>2. Fits(g.pc, n)' /\ (g.pc \in {"Y", "wrapY"} => g.r <= Rows + n)
            BY <1>6, <1>11, <2>2
        <3> QED  BY <1>1, <1>3, <1>6, <1>7, <1>8, <3>1, <3>2, InsideMove
    <2> QED  BY <2>1, <2>2
<1> QED  BY <1>4, <1>12 DEF CInv

LEMMA Numbers ==
    ASSUME CInv
    PROVE  /\ cursor_X \in Nat /\ cursor_Y \in Nat
           /\ Cols \in Nat \ {0} /\ Rows \in Nat \ {0} /\ TabStop \in Nat \ {0}
BY ConsoleAssumption DEF CInv, Types

LEMMA PutStep ==
    ASSUME CInv, NEW t \in Threads, put(t)
    PROVE  CInv'
<1>1. /\ stk[t] # <<>> /\ Now(t).pc = "c" /\ Move(t, "inc", 0)
      /\ UNCHANGED <<cursor_X, cursor_Y, buf, holder>>
    BY GotoMove DEF put, On
<1>2. \A n \in Nat : Fits("c", n) => Fits("inc", n)'
    BY <1>1, Numbers DEF Fits
<1>3. InPutc(Now(t)) /\ "inc" \in Labels
    BY <1>1 DEF InPutc, Labels
<1> QED  BY <1>1, <1>2, <1>3, Numbers, CharStep

LEMMA LoadXStep ==
    ASSUME CInv, NEW t \in Threads, LoadX(t)
    PROVE  CInv'
<1>1. UNCHANGED <<cursor_X, cursor_Y, buf, holder>>
    BY DEF LoadX
<1>2. (cursor_X + 1) % 256 \in Nat /\ (cursor_X + 255) % 256 \in Nat
    BY Numbers
<1>3. (((cursor_X + TabStop) \div TabStop) * TabStop) % 256 \in Nat
    <2>1. (cursor_X + TabStop) \div TabStop \in Nat
        BY Numbers
    <2>2. ((cursor_X + TabStop) \div TabStop) * TabStop \in Nat
        BY <2>1, Numbers
    <2> QED  BY <2>2
<1>4. \E v \in Nat : stk[t] # <<>> /\ Now(t).pc \in {"inc", "BS", "TAB"} /\ Move(t, "X", v)
    <2>1. CASE On(t, "inc") /\ Move(t, "X", (cursor_X + 1) % 256)
        BY <1>2, <2>1 DEF On
    <2>2. CASE On(t, "BS") /\ Move(t, "X", (cursor_X + 255) % 256)
        BY <1>2, <2>2 DEF On
    <2>3. CASE On(t, "TAB") /\ Move(t, "X", (((cursor_X + TabStop) \div TabStop) * TabStop) % 256)
        BY <1>3, <2>3 DEF On
    <2> QED  BY <2>1, <2>2, <2>3 DEF LoadX, Move
<1>5. PICK v \in Nat : stk[t] # <<>> /\ Now(t).pc \in {"inc", "BS", "TAB"} /\ Move(t, "X", v)
    BY <1>4
<1>6. \A l \in {"inc", "BS", "TAB"} : \A n \in Nat : Fits(l, n) => Fits("X", n)'
    BY <1>1, Numbers DEF Fits
<1>7. InPutc(Now(t)) /\ "X" \in Labels
    BY <1>5 DEF InPutc, Labels
<1> QED  BY <1>1, <1>5, <1>6, <1>7, Numbers, CharStep

LEMMA StoreXStep ==
    ASSUME CInv, NEW t \in Threads, StoreX(t)
    PROVE  CInv'
<1>1. UNCHANGED <<cursor_Y, buf, holder>>
    BY DEF StoreX
<1>2. CASE On(t, "X") /\ cursor_X' = Now(t).r /\ Goto(t, "wrap")
    <2>1. stk[t] # <<>> /\ Now(t).pc = "X" /\ Move(t, "wrap", 0)
        BY <1>2, GotoMove DEF On
    <2>2. cursor_X' \in Nat
        <3>1. Now(t) \in Prints
            BY <2>1, NowPrint DEF CInv
        <3> QED  BY <1>2, <3>1 DEF Prints
    <2>3. \A n \in Nat : Fits("X", n) => Fits("wrap", n)'
        BY <1>1, Numbers DEF Fits
    <2>4. InPutc(Now(t)) /\ "wrap" \in Labels
        BY <2>1 DEF InPutc, Labels
    <2> QED  BY <1>1, <2>1, <2>2, <2>3, <2>4, Numbers, CharStep
<1>3. CASE On(t, "CR") /\ cursor_X' = 0 /\ Goto(t, "wrap")
    <2>1. stk[t] # <<>> /\ Now(t).pc = "CR" /\ Move(t, "wrap", 0)
        BY <1>3, GotoMove DEF On
    <2>2. \A n \in Nat : Fits("CR", n) => Fits("wrap", n)'
        BY <1>1, <1>3, Numbers DEF Fits
    <2>3. InPutc(Now(t)) /\ "wrap" \in Labels
        BY <2>1 DEF InPutc, Labels
    <2> QED  BY <1>1, <1>3, <2>1, <2>2, <2>3, Numbers, CharStep
<1>4. CASE On(t, "NL") /\ cursor_X' = 0 /\ Goto(t, "line")
    <2>1. stk[t] # <<>> /\ Now(t).pc = "NL" /\ Move(t, "line", 0)
        BY <1>4, GotoMove DEF On
    <2>2. \A n \in Nat : Fits("NL", n) => Fits("line", n)'
        BY <1>1, <1>4, Numbers DEF Fits
    <2>3. InPutc(Now(t)) /\ "line" \in Labels
        BY <2>1 DEF InPutc, Labels
    <2> QED  BY <1>1, <1>4, <2>1, <2>2, <2>3, Numbers, CharStep
<1>5. CASE On(t, "zero") /\ cursor_X' = 0 /\ Goto(t, "wrapline")
    <2>1. stk[t] # <<>> /\ Now(t).pc = "zero" /\ Move(t, "wrapline", 0)
        BY <1>5, GotoMove DEF On
    <2>2. \A n \in Nat : Fits("zero", n) => Fits("wrapline", n)'
        BY <1>1, <1>5, Numbers DEF Fits
    <2>3. InPutc(Now(t)) /\ "wrapline" \in Labels
        BY <2>1 DEF InPutc, Labels
    <2> QED  BY <1>1, <1>5, <2>1, <2>2, <2>3, Numbers, CharStep
<1> QED  BY <1>2, <1>3, <1>4, <1>5 DEF StoreX

LEMMA LoadYStep ==
    ASSUME CInv, NEW t \in Threads, LoadY(t)
    PROVE  CInv'
<1>1. UNCHANGED <<cursor_X, cursor_Y, buf, holder>>
    BY DEF LoadY
<1>2. PICK v : v = (cursor_Y + 1) % 256
    OBVIOUS
<1>3. v \in Nat /\ v <= cursor_Y + 1
    BY <1>2, Numbers
<1>4. CASE On(t, "line") /\ Go(t, [Now(t) EXCEPT !.pc = "Y", !.r = (cursor_Y + 1) % 256])
    <2>1. stk[t] # <<>> /\ Now(t).pc = "line" /\ Move(t, "Y", v)
        BY <1>2, <1>4 DEF On, Move
    <2>2. \A n \in Nat : Fits("line", n) => Fits("Y", n)' /\ v <= Rows + n
        BY <1>1, <1>3, Numbers DEF Fits
    <2>3. InPutc(Now(t)) /\ "Y" \in Labels
        BY <2>1 DEF InPutc, Labels
    <2> QED  BY <1>1, <1>3, <2>1, <2>2, <2>3, Numbers, CharStep
<1>5. CASE On(t, "wrapline") /\ Go(t, [Now(t) EXCEPT !.pc = "wrapY", !.r = (cursor_Y + 1) % 256])
    <2>1. stk[t] # <<>> /\ Now(t).pc = "wrapline" /\ Move(t, "wrapY", v)
        BY <1>2, <1>5 DEF On, Move
    <2>2. \A n \in Nat : Fits("wrapline", n) => Fits("wrapY", n)' /\ v <= Rows + n
        BY <1>1, <1>3, Numbers DEF Fits
    <2>3. InPutc(Now(t)) /\ "wrapY" \in Labels
        BY <2>1 DEF InPutc, Labels
    <2> QED  BY <1>1, <1>3, <2>1, <2>2, <2>3, Numbers, CharStep
<1> QED  BY <1>4, <1>5 DEF LoadY

LEMMA StoreYStep ==
    ASSUME CInv, NEW t \in Threads, StoreY(t)
    PROVE  CInv'
<1>1. UNCHANGED <<cursor_X, buf, holder>> /\ stk[t] # <<>>
    BY DEF StoreY, On
<1>2. Now(t) \in Prints
    BY <1>1, NowPrint DEF CInv
<1>3. PICK r \in Nat : r = Now(t).r
    BY <1>2 DEF Prints
<1>4. CASE On(t, "Y") /\ cursor_Y' = Now(t).r /\ Goto(t, "wrap")
    <2>1. Now(t).pc = "Y" /\ Move(t, "wrap", 0)
        BY <1>4, GotoMove DEF On
    <2>2. \A n \in Nat : Fits("Y", n) /\ r <= Rows + n => Fits("wrap", n)'
        BY <1>1, <1>3, <1>4, Numbers DEF Fits
    <2>3. InPutc(Now(t)) /\ "wrap" \in Labels
        BY <2>1 DEF InPutc, Labels
    <2> QED  BY <1>1, <1>3, <1>4, <2>1, <2>2, <2>3, Numbers, CharStep
<1>5. CASE On(t, "wrapY") /\ cursor_Y' = Now(t).r /\ Goto(t, "scroll")
    <2>1. Now(t).pc = "wrapY" /\ Move(t, "scroll", 0)
        BY <1>5, GotoMove DEF On
    <2>2. \A n \in Nat : Fits("wrapY", n) /\ r <= Rows + n => Fits("scroll", n)'
        BY <1>1, <1>3, <1>5, Numbers DEF Fits
    <2>3. InPutc(Now(t)) /\ "scroll" \in Labels
        BY <2>1 DEF InPutc, Labels
    <2> QED  BY <1>1, <1>3, <1>5, <2>1, <2>2, <2>3, Numbers, CharStep
<1>6. CASE On(t, "last") /\ cursor_Y' = Rows - 1 /\ Goto(t, "char")
    <2>1. Now(t).pc = "last" /\ Move(t, "char", 0)
        BY <1>6, GotoMove DEF On
    <2>2. \A n \in Nat : Fits("last", n) => Clean'
        BY <1>1, <1>6, Numbers DEF Fits, Clean
    <2>3. InPutc(Now(t)) /\ "char" \in Labels /\ cursor_Y' \in Nat
        BY <1>6, <2>1, Numbers DEF InPutc, Labels
    <2> QED  BY <1>1, <2>1, <2>2, <2>3, Numbers, CharStep
<1> QED  BY <1>4, <1>5, <1>6 DEF StoreY

LEMMA WrapStep ==
    ASSUME CInv, NEW t \in Threads, wrap(t)
    PROVE  CInv'
<1>1. /\ UNCHANGED <<cursor_X, cursor_Y, buf, holder>> /\ stk[t] # <<>> /\ Now(t).pc = "wrap"
      /\ Goto(t, IF cursor_X >= Cols THEN "zero" ELSE "scroll")
    BY DEF wrap, On
<1>2. InPutc(Now(t)) /\ "zero" \in Labels /\ "scroll" \in Labels
    BY <1>1 DEF InPutc, Labels
<1>3. CASE cursor_X >= Cols
    <2>1. Move(t, "zero", 0)
        BY <1>1, <1>3, GotoMove
    <2>2. \A n \in Nat : Fits("wrap", n) => Fits("zero", n)'
        BY <1>1, <1>3, Numbers DEF Fits
    <2> QED  BY <1>1, <1>2, <2>1, <2>2, Numbers, CharStep
<1>4. CASE ~(cursor_X >= Cols)
    <2>1. Move(t, "scroll", 0)
        BY <1>1, <1>4, GotoMove
    <2>2. \A n \in Nat : Fits("wrap", n) => Fits("scroll", n)'
        BY <1>1, <1>4, Numbers DEF Fits
    <2> QED  BY <1>1, <1>2, <2>1, <2>2, Numbers, CharStep
<1> QED  BY <1>3, <1>4

LEMMA ScrollStep ==
    ASSUME CInv, NEW t \in Threads, scroll(t)
    PROVE  CInv'
<1>1. /\ UNCHANGED <<cursor_X, cursor_Y, buf, holder>> /\ stk[t] # <<>> /\ Now(t).pc = "scroll"
      /\ Goto(t, IF cursor_Y >= Rows THEN "last" ELSE "char")
    BY DEF scroll, On
<1>2. InPutc(Now(t)) /\ "last" \in Labels /\ "char" \in Labels
    BY <1>1 DEF InPutc, Labels
<1>3. CASE cursor_Y >= Rows
    <2>1. Move(t, "last", 0)
        BY <1>1, <1>3, GotoMove
    <2>2. \A n \in Nat : Fits("scroll", n) => Fits("last", n)'
        BY <1>1, Numbers DEF Fits
    <2> QED  BY <1>1, <1>2, <2>1, <2>2, Numbers, CharStep
<1>4. CASE ~(cursor_Y >= Rows)
    <2>1. Move(t, "char", 0)
        BY <1>1, <1>4, GotoMove
    <2>2. \A n \in Nat : Fits("scroll", n) => Clean'
        BY <1>1, <1>4, Numbers DEF Fits, Clean
    <2> QED  BY <1>1, <1>2, <2>1, <2>2, Numbers, CharStep
<1> QED  BY <1>3, <1>4

LEMMA WriteStep ==
    ASSUME CInv, NEW t \in Threads, console_write(t)
    PROVE  CInv'
<1>1. Types /\ TextInv /\ LockInv /\ RegInv /\ CursorInv
    BY DEF CInv
<1>2. /\ Types' /\ TextInv'
      /\ stk[t] # <<>> /\ Now(t).pc = "char" /\ UNCHANGED <<cursor_X, cursor_Y, holder>>
      /\ \/ Goto(t, "release")
         \/ \E g \in Prints : /\ Go(t, g)
                              /\ g.pc \in Chars \/ (g.pc = "wrap" /\ cursor_X = 0)
    BY <1>1, WriteText
<1>3. Now(t) \in Prints
    BY <1>1, <1>2, NowPrint
<1>4. CASE Goto(t, "release")
    <2>1. PICK g : g = [Now(t) EXCEPT !.pc = "release", !.r = 0]
        OBVIOUS
    <2>2. g \in Prints /\ g.pc = "release" /\ Go(t, g)
        <3>1. "release" \in Labels
            BY DEF Labels
        <3>2. g \in Prints /\ g.pc = "release"
            BY <1>3, <2>1, <3>1 DEF Prints
        <3> QED  BY <1>4, <2>1, <3>2 DEF Goto
    <2>3. ~InPutc(Now(t)) /\ ~InPutc(g) /\ Now(t).pc \notin {"fmt", "lock"}
        BY <1>2, <2>2 DEF InPutc
    <2>4. RegInv' /\ CursorInv'
        BY <1>1, <1>2, <2>2, <2>3, AwayMove
    <2>5. LockInv'
        BY <1>1, <1>2, <2>2, <2>3, GoLock
    <2> QED  BY <1>2, <2>4, <2>5 DEF CInv
<1>5. CASE \E g \in Prints : Go(t, g) /\ (g.pc \in Chars \/ (g.pc = "wrap" /\ cursor_X = 0))
    <2>1. PICK g \in Prints : Go(t, g) /\ (g.pc \in Chars \/ (g.pc = "wrap" /\ cursor_X = 0))
        BY <1>5
    <2>2. PICK n : n = Under(t, Len(stk[t]))
        OBVIOUS
    <2>3. n \in Nat /\ cursor_Y < Rows + n /\ (n = 0 => cursor_X < Cols)
        BY <1>1, <1>2, <2>2, NextFits
    <2>4. InPutc(g) /\ Now(t).pc \notin {"fmt", "lock"} /\ g.pc \notin {"Y", "wrapY"}
        BY <1>2, <2>1 DEF InPutc, Chars
    <2>5. g.pc \notin {"line", "Y", "wrapline", "wrapY", "scroll", "last"}
        BY <2>1 DEF Chars
    <2>6. Fits(g.pc, n)'
        BY <1>2, <2>3, <2>5, Numbers DEF Fits
    <2>7. LockInv' /\ RegInv' /\ CursorInv'
        BY <1>1, <1>2, <2>1, <2>2, <2>4, <2>6, InsideMove
    <2> QED  BY <1>2, <2>7 DEF CInv
<1> QED  BY <1>2, <1>4, <1>5

\* The lock is free or already this thread's, so nobody else is inside.
LEMMA RequireStep ==
    ASSUME CInv, NEW t \in Threads, console_require(t)
    PROVE  CInv'
<1>1. Types /\ TextInv /\ LockInv /\ RegInv /\ CursorInv
    BY DEF CInv
<1>2. /\ stk[t] # <<>> /\ Now(t).pc = "lock" /\ holder \in {NULL, t} /\ holder' = t
      /\ Goto(t, "char") /\ UNCHANGED <<cursor_X, cursor_Y, buf>>
    BY DEF console_require, On
<1>3. Now(t) \in Prints
    BY <1>1, <1>2, NowPrint
<1>4. PICK g : g = [Now(t) EXCEPT !.pc = "char", !.r = 0]
    OBVIOUS
<1>5. g \in Prints /\ g.pc = "char" /\ Go(t, g) /\ "char" \in Labels
    <2>1. "char" \in Labels
        BY DEF Labels
    <2>2. g \in Prints /\ g.pc = "char"
        BY <1>3, <1>4, <2>1 DEF Prints
    <2> QED  BY <1>2, <1>4, <2>1, <2>2 DEF Goto
<1>6. Types' /\ TextInv'
    <2>1. Move(t, "char", 0)
        BY <1>2, GotoMove
    <2> QED  BY <1>1, <1>2, <1>5, <2>1, Numbers, MoveText
<1>7. RegInv' /\ CursorInv'
    <2>1. ~InPutc(Now(t)) /\ ~InPutc(g)
        BY <1>2, <1>5 DEF InPutc
    <2> QED  BY <1>1, <1>2, <1>5, <1>6, <2>1, AwayMove
<1>8. LockInv'
    <2> SUFFICES ASSUME NEW u \in Threads, Locked(u)', u # t
                 PROVE  FALSE
        BY <1>2 DEF LockInv
    <2>1. PICK d \in 1 .. Len(stk'[u]) : At(u, d)'.pc \notin {"fmt", "lock"}
        BY DEF Locked
    <2>2. d \in 1 .. Len(stk[u]) /\ At(u, d)' = At(u, d)
        BY <1>1, <1>2, <1>5, GoDepth
    <2>3. Locked(u)
        BY <2>1, <2>2 DEF Locked
    <2>4. holder = u
        BY <1>1, <2>3 DEF LockInv
    <2> QED  BY <1>2, <2>4, ConsoleAssumption
<1> QED  BY <1>6, <1>7, <1>8 DEF CInv

\* In coordinates from the bottom, a new print is one more on top.
LEMMA PushDepth ==
    ASSUME Types, NEW t \in Threads, NEW g \in Prints, NEW s, Pushed(s, t, g)
    PROVE  /\ \A u \in Threads \ {t} : s[u] = stk[u]
           /\ Len(s[t]) = Len(stk[t]) + 1
           /\ \A d \in 1 .. Len(stk[t]) : s[t][Len(s[t]) + 1 - d] = At(t, d)
           /\ s[t][Len(s[t]) + 1 - (Len(stk[t]) + 1)] = g
<1>1. /\ s \in [Threads -> Seq(Prints)]
      /\ \A u \in Threads \ {t} : s[u] = stk[u]
      /\ Len(s[t]) = Len(stk[t]) + 1 /\ Len(stk[t]) \in Nat
      /\ s[t][1] = g
      /\ \A k \in 2 .. Len(stk[t]) + 1 : s[t][k] = stk[t][k - 1]
    BY DEF Pushed
<1>2. ASSUME NEW d \in 1 .. Len(stk[t])
      PROVE  s[t][Len(s[t]) + 1 - d] = At(t, d)
    <2>1. PICK k : k = Len(s[t]) + 1 - d
        OBVIOUS
    <2>2. k \in 2 .. Len(stk[t]) + 1 /\ k - 1 = Len(stk[t]) + 1 - d
        BY <1>1, <2>1
    <2> QED  BY <1>1, <2>1, <2>2 DEF At
<1>3. Len(s[t]) + 1 - (Len(stk[t]) + 1) = 1
    BY <1>1
<1> QED  BY <1>1, <1>2, <1>3

\* Two stacks of prints that are at the same places.
SamePlaces(w, s) ==
    \A u \in Threads : /\ Len(w[u]) = Len(s[u])
                       /\ \A k \in 1 .. Len(s[u]) : w[u][k].pc = s[u][k].pc /\ w[u][k].r = s[u][k].r

LEMMA OverwrittenPlaces ==
    ASSUME NEW t \in Threads, NEW s \in [Threads -> Seq(Prints)], NEW w, Overwritten(w, t, s)
    PROVE  SamePlaces(w, s)
<1>1. ASSUME NEW u \in Threads, NEW k \in 1 .. Len(s[u])
      PROVE  w[u][k].pc = s[u][k].pc /\ w[u][k].r = s[u][k].r
    <2>1. s[u] \in Seq(Prints)
        OBVIOUS
    <2>2. s[u][k] \in Prints
        BY <2>1, SeqElement, Zenon
    <2>3. Mark(s[u][k]).pc = s[u][k].pc /\ Mark(s[u][k]).r = s[u][k].r
        BY <2>2, MarkPrint
    <2>4. w[u][k] = s[u][k] \/ w[u][k] = Mark(s[u][k])
        BY DEF Overwritten
    <2> QED  BY <2>3, <2>4
<1> QED  BY <1>1 DEF SamePlaces, Overwritten

\* A print starts: it is not inside a character and does not have the lock.
LEMMA StartPrint ==
    ASSUME Types, Types', LockInv, RegInv, CursorInv, NEW t \in Threads, NEW g \in Prints,
           g.pc \in {"fmt", "lock"}, NEW s, Pushed(s, t, g), SamePlaces(stk', s),
           UNCHANGED <<cursor_X, cursor_Y, holder>>
    PROVE  LockInv' /\ RegInv' /\ CursorInv'
<1>1. /\ \A u \in Threads \ {t} : s[u] = stk[u]
      /\ Len(s[t]) = Len(stk[t]) + 1
      /\ \A d \in 1 .. Len(stk[t]) : s[t][Len(s[t]) + 1 - d] = At(t, d)
      /\ s[t][Len(s[t]) + 1 - (Len(stk[t]) + 1)] = g
    BY PushDepth
<1>2. ASSUME NEW u \in Threads
      PROVE  Len(stk[u]) \in Nat /\ Len(s[u]) \in Nat /\ Len(stk'[u]) = Len(s[u])
    <2>1. stk[u] \in Seq(Prints) /\ s[u] \in Seq(Prints)
        BY DEF Types, Pushed
    <2> QED  BY <2>1 DEF SamePlaces
<1>3. ASSUME NEW u \in Threads, NEW d \in 1 .. Len(s[u])
      PROVE  /\ At(u, d)'.pc = s[u][Len(s[u]) + 1 - d].pc
             /\ At(u, d)'.r = s[u][Len(s[u]) + 1 - d].r
    <2>1. PICK k : k = Len(s[u]) + 1 - d
        OBVIOUS
    <2>2. k \in 1 .. Len(s[u]) /\ Len(stk'[u]) = Len(s[u])
        BY <1>2, <2>1
    <2>3. At(u, d)' = stk'[u][k]
        BY <2>1, <2>2 DEF At
    <2> QED  BY <2>1, <2>2, <2>3 DEF SamePlaces
<1>4. ASSUME NEW u \in Threads, NEW d \in 1 .. Len(stk[u])
      PROVE  /\ d \in 1 .. Len(stk'[u])
             /\ At(u, d)'.pc = At(u, d).pc /\ At(u, d)'.r = At(u, d).r
    <2>1. d \in 1 .. Len(s[u])
        BY <1>1, <1>2
    <2>2. s[u][Len(s[u]) + 1 - d] = At(u, d)
        BY <1>1 DEF At
    <2> QED  BY <1>2, <1>3, <2>1, <2>2
<1>5. ASSUME NEW u \in Threads, NEW d \in 1 .. Len(stk'[u])
      PROVE  d \in 1 .. Len(stk[u]) \/ At(u, d)'.pc \in {"fmt", "lock"}
    <2>1. CASE u # t
        BY <1>1, <1>2, <2>1
    <2>2. CASE u = t /\ d = Len(stk[t]) + 1
        <3>1. d \in 1 .. Len(s[t])
            BY <1>2, <2>2
        <3> QED  BY <1>1, <1>3, <2>2, <3>1
    <2>3. CASE u = t /\ d # Len(stk[t]) + 1
        BY <1>1, <1>2, <2>3
    <2> QED  BY <2>1, <2>2, <2>3
<1>6. Undisturbed
    BY <1>4, <1>5 DEF Undisturbed, InPutc
<1>7. LockInv'
    <2> SUFFICES ASSUME NEW u \in Threads, Locked(u)'
                 PROVE  holder' = u
        BY DEF LockInv
    <2>1. PICK d \in 1 .. Len(stk'[u]) : At(u, d)'.pc \notin {"fmt", "lock"}
        BY DEF Locked
    <2>2. Locked(u)
        BY <1>4, <1>5, <2>1 DEF Locked
    <2> QED  BY <2>2 DEF LockInv
<1> QED  BY <1>6, <1>7, QuietCursor

LEMMA PrintkStep ==
    ASSUME CInv, NEW t \in Threads, NEW m \in Texts, printk(t, m)
    PROVE  CInv'
<1>1. Types /\ TextInv /\ LockInv /\ RegInv /\ CursorInv
    BY DEF CInv
<1>2. Types' /\ TextInv'
    BY <1>1, PrintkText
<1>3. PICK g : g = NewPrint(m, "buf", "fmt")
    OBVIOUS
<1>4. g \in Prints /\ g.pc = "fmt"
    <2>1. "fmt" \in Labels /\ m \in Seq(Chars)
        BY ConsoleAssumption DEF Labels
    <2> QED  BY <1>3, <2>1 DEF NewPrint, Prints
<1>5. PICK s : s = Push(t, g)
    OBVIOUS
<1>6. Pushed(s, t, g)
    BY <1>1, <1>4, <1>5, PushStack
<1>7. stk' = Written(t, s) /\ UNCHANGED <<cursor_X, cursor_Y, holder>>
    BY <1>3, <1>5 DEF printk
<1>8. SamePlaces(stk', s)
    <2>1. s \in [Threads -> Seq(Prints)]
        BY <1>6 DEF Pushed
    <2>2. Overwritten(stk', t, s)
        BY <1>7, <2>1, WrittenStack
    <2> QED  BY <2>1, <2>2, OverwrittenPlaces
<1>9. LockInv' /\ RegInv' /\ CursorInv'
    BY <1>1, <1>2, <1>4, <1>6, <1>7, <1>8, StartPrint
<1> QED  BY <1>2, <1>9 DEF CInv

LEMMA UnknownKeyStep ==
    ASSUME CInv, NEW t \in Threads, unknown_key(t)
    PROVE  CInv'
<1>1. Types /\ TextInv /\ LockInv /\ RegInv /\ CursorInv
    BY DEF CInv
<1>2. Types' /\ TextInv'
    BY <1>1, UnknownKeyText
<1>3. PICK g : g = NewPrint(KeyText, "const", "lock")
    OBVIOUS
<1>4. g \in Prints /\ g.pc = "lock"
    <2>1. "lock" \in Labels /\ KeyText \in Seq(Chars)
        BY ConsoleAssumption DEF Labels
    <2> QED  BY <1>3, <2>1 DEF NewPrint, Prints
<1>5. stk' = Push(t, g) /\ UNCHANGED <<cursor_X, cursor_Y, holder>>
    BY <1>3 DEF unknown_key
<1>6. PICK s : s = stk'
    OBVIOUS
<1>7. Pushed(s, t, g) /\ SamePlaces(stk', s)
    BY <1>1, <1>4, <1>5, <1>6, PushStack DEF SamePlaces
<1>8. LockInv' /\ RegInv' /\ CursorInv'
    BY <1>1, <1>2, <1>4, <1>5, <1>7, StartPrint
<1> QED  BY <1>2, <1>8 DEF CInv

\* Nobody's place changes while a print formats.
LEMMA FormatsStep ==
    ASSUME CInv, NEW t \in Threads, On(t, "fmt"), UNCHANGED <<cursor_X, cursor_Y, holder>>,
           Formats(t, Now(t))
    PROVE  CInv'
<1>1. Types /\ TextInv /\ LockInv /\ RegInv /\ CursorInv
    BY DEF CInv
<1>2. Types' /\ TextInv'
    BY <1>1, FormatsText
<1>3. stk[t] # <<>> /\ Now(t).pc = "fmt"
    BY DEF On
<1>4. Now(t) \in Prints /\ Now(t) = stk[t][1] /\ Len(stk[t]) \in Nat \ {0}
    BY <1>1, <1>3, NowPrint
<1>5. ASSUME NEW g \in Prints, g.pc = "fmt", g.r = Now(t).r, stk' = Written(t, Turned(t, g))
      PROVE  CInv'
    <2>1. PICK s : s = Turned(t, g)
        OBVIOUS
    <2>2. Bumped(s, t, g) /\ g.pc = Now(t).pc /\ g.r = Now(t).r
        BY <1>1, <1>3, <1>5, <2>1, TurnStack
    <2>3. SamePlaces(s, stk)
        <3>1. ASSUME NEW u \in Threads, NEW k \in 1 .. Len(stk[u])
              PROVE  s[u][k].pc = stk[u][k].pc /\ s[u][k].r = stk[u][k].r
            <4>1. CASE u # t
                BY <2>2, <4>1 DEF Bumped
            <4>2. CASE u = t /\ k = 1
                BY <1>4, <2>2, <4>2 DEF Bumped
            <4>3. CASE u = t /\ k # 1
                <5>1. k \in 2 .. Len(stk[t])
                    BY <1>4, <4>3
                <5> QED  BY <2>2, <4>3, <5>1 DEF Bumped
            <4> QED  BY <4>1, <4>2, <4>3
        <3>2. \A u \in Threads : Len(s[u]) = Len(stk[u])
            BY <2>2 DEF Bumped
        <3> QED  BY <3>1, <3>2 DEF SamePlaces
    <2>4. SamePlaces(stk', s)
        <3>1. s \in [Threads -> Seq(Prints)]
            BY <2>2 DEF Bumped
        <3>2. Overwritten(stk', t, s)
            BY <1>5, <2>1, <3>1, WrittenStack
        <3> QED  BY <3>1, <3>2, OverwrittenPlaces
    <2>5. SamePlaces(stk', stk)
        BY <2>3, <2>4 DEF SamePlaces
    <2>6. ASSUME NEW u \in Threads
          PROVE  /\ Len(stk'[u]) = Len(stk[u])
                 /\ \A d \in 1 .. Len(stk[u]) : At(u, d)'.pc = At(u, d).pc /\ At(u, d)'.r = At(u, d).r
        <3>1. Len(stk'[u]) = Len(stk[u]) /\ Len(stk[u]) \in Nat
            <4>1. stk[u] \in Seq(Prints)
                BY <1>1 DEF Types
            <4> QED  BY <2>5, <4>1 DEF SamePlaces
        <3>2. ASSUME NEW d \in 1 .. Len(stk[u])
              PROVE  At(u, d)'.pc = At(u, d).pc /\ At(u, d)'.r = At(u, d).r
            <4>1. PICK k : k = Len(stk[u]) + 1 - d
                OBVIOUS
            <4>2. k \in 1 .. Len(stk[u])
                BY <3>1, <4>1
            <4>3. At(u, d)' = stk'[u][k] /\ At(u, d) = stk[u][k]
                BY <3>1, <4>1 DEF At
            <4> QED  BY <2>5, <4>2, <4>3 DEF SamePlaces
        <3> QED  BY <3>1, <3>2
    <2>7. Undisturbed
        BY <2>6 DEF Undisturbed
    <2>8. LockInv'
        <3> SUFFICES ASSUME NEW u \in Threads, Locked(u)'
                     PROVE  holder' = u
            BY DEF LockInv
        <3>1. Locked(u)
            BY <2>6 DEF Locked
        <3> QED  BY <1>1, <3>1 DEF LockInv
    <2> QED  BY <1>1, <1>2, <2>7, <2>8, QuietCursor DEF CInv
<1>6. ASSUME NEW g \in Prints, g.pc \in {"fmt", "lock"}, Go(t, g)
      PROVE  CInv'
    <2>1. ~InPutc(Now(t)) /\ ~InPutc(g)
        BY <1>3, <1>6 DEF InPutc
    <2>2. RegInv' /\ CursorInv'
        BY <1>1, <1>2, <1>3, <1>6, <2>1, AwayMove
    <2>3. LockInv'
        BY <1>1, <1>3, <1>6, GoLock
    <2> QED  BY <1>2, <2>2, <2>3 DEF CInv
<1> QED  BY <1>5, <1>6 DEF Formats, Store

LEMMA SprintkStep ==
    ASSUME CInv, NEW t \in Threads, sprintk(t)
    PROVE  CInv'
BY SprintkFormats, FormatsStep DEF CInv

LEMMA StrcatStep ==
    ASSUME CInv, NEW t \in Threads, strcat(t)
    PROVE  CInv'
BY StrcatFormats, FormatsStep DEF CInv

\* The print that ends leaves the lock to the ones under it.
LEMMA ReleaseStep ==
    ASSUME CInv, NEW t \in Threads, console_release(t)
    PROVE  CInv'
<1>1. Types /\ TextInv /\ LockInv /\ RegInv /\ CursorInv
    BY DEF CInv
<1>2. Types' /\ TextInv'
    BY <1>1, ReleaseText
<1>3. /\ stk[t] # <<>> /\ Now(t).pc = "release" /\ stk' = [stk EXCEPT ![t] = Tail(@)]
      /\ holder' = IF \E k \in 2 .. Len(stk[t]) : stk[t][k].pc \notin {"fmt", "lock"}
                   THEN t ELSE NULL
      /\ UNCHANGED <<cursor_X, cursor_Y>>
    BY DEF console_release, On
<1>4. /\ \A u \in Threads \ {t} : stk'[u] = stk[u]
      /\ Len(stk'[t]) = Len(stk[t]) - 1 /\ Len(stk[t]) \in Nat \ {0}
      /\ \A k \in 1 .. Len(stk[t]) - 1 : stk'[t][k] = stk[t][k + 1]
    BY <1>1, <1>3, PopStack
<1>5. Now(t) = At(t, Len(stk[t])) /\ Len(stk[t]) \in 1 .. Len(stk[t])
    BY <1>1, <1>3, NowPrint
<1>6. ASSUME NEW d \in 1 .. Len(stk'[t])
      PROVE  /\ At(t, d)' = At(t, d) /\ d \in 1 .. Len(stk[t])
             /\ Len(stk[t]) + 1 - d \in 2 .. Len(stk[t])
    <2>1. PICK k : k = Len(stk'[t]) + 1 - d
        OBVIOUS
    <2>2. k \in 1 .. Len(stk[t]) - 1 /\ k + 1 = Len(stk[t]) + 1 - d
        BY <1>4, <2>1
    <2>3. At(t, d)' = stk'[t][k] /\ At(t, d) = stk[t][k + 1]
        BY <2>1, <2>2 DEF At
    <2> QED  BY <1>4, <2>2, <2>3
<1>7. Undisturbed
    <2>1. ASSUME NEW u \in Threads, NEW d \in 1 .. Len(stk[u])
          PROVE  \/ /\ d \in 1 .. Len(stk'[u])
                    /\ At(u, d)'.pc = At(u, d).pc /\ At(u, d)'.r = At(u, d).r
                 \/ /\ ~InPutc(At(u, d))
                    /\ d \in 1 .. Len(stk'[u]) => ~InPutc(At(u, d))'
        <3>1. CASE u # t
            BY <1>4, <3>1 DEF At
        <3>2. CASE u = t /\ d = Len(stk[t])
            <4>1. d \notin 1 .. Len(stk'[u])
                BY <1>4, <3>2
            <4> QED  BY <1>3, <1>5, <3>2, <4>1 DEF InPutc
        <3>3. CASE u = t /\ d # Len(stk[t])
            <4>1. d \in 1 .. Len(stk'[t])
                BY <1>4, <3>3
            <4> QED  BY <1>6, <3>3, <4>1
        <3> QED  BY <3>1, <3>2, <3>3
    <2>2. ASSUME NEW u \in Threads, NEW d \in 1 .. Len(stk'[u])
          PROVE  d \in 1 .. Len(stk[u])
        BY <1>4, <1>6
    <2> QED  BY <2>1, <2>2 DEF Undisturbed
<1>8. LockInv'
    <2> SUFFICES ASSUME NEW u \in Threads, Locked(u)'
                 PROVE  holder' = u
        BY DEF LockInv
    <2>1. PICK d \in 1 .. Len(stk'[u]) : At(u, d)'.pc \notin {"fmt", "lock"}
        BY DEF Locked
    <2>2. CASE u = t
        <3>1. PICK k : k = Len(stk[t]) + 1 - d
            OBVIOUS
        <3>2. k \in 2 .. Len(stk[t]) /\ stk[t][k].pc \notin {"fmt", "lock"}
            BY <1>6, <2>1, <2>2, <3>1 DEF At
        <3> QED  BY <1>3, <2>2, <3>2
    <2>3. CASE u # t
        <3>1. Locked(u)
            BY <1>4, <2>1, <2>3 DEF Locked, At
        <3>2. Locked(t)
            BY <1>3, <1>5 DEF Locked
        <3> QED  BY <1>1, <2>3, <3>1, <3>2 DEF LockInv
    <2> QED  BY <2>2, <2>3
<1> QED  BY <1>1, <1>2, <1>3, <1>7, <1>8, QuietCursor DEF CInv

(***************************************************************************)
(* The theorems                                                            *)
(***************************************************************************)
LEMMA CInvInit == Init => CInv
<1> SUFFICES ASSUME Init PROVE CInv
    OBVIOUS
<1>1. /\ cursor_X = 0 /\ cursor_Y = 0 /\ buf = [k \in 1 .. BufSize |-> Zero]
      /\ stk = [t \in Threads |-> <<>>]
    BY DEF Init
<1>2. /\ Cols \in Nat \ {0} /\ Rows \in Nat \ {0} /\ BufSize \in Nat \ {0}
    BY ConsoleAssumption
<1>3. \A t \in Threads : 1 .. Len(stk[t]) = {}
    <2>1. \A t \in Threads : stk[t] = <<>>
        BY <1>1, Zenon
    <2>2. 1 .. Len(<<>>) = {}
        OBVIOUS
    <2> QED  BY <2>1, <2>2
<1>4. <<>> \in Seq(Prints)
    OBVIOUS
<1>5. Types
    BY <1>1, <1>4 DEF Types
<1>6. TextInv
    BY <1>3 DEF TextInv
<1>7. LockInv /\ RegInv
    BY <1>3 DEF LockInv, Locked, RegInv
<1>8. CursorInv
    <2>0. cursor_X = 0 /\ cursor_Y = 0
        BY <1>1, Zenon
    <2>1. Clean
        BY <1>2, <2>0 DEF Clean
    <2> QED  BY <2>1 DEF CursorInv
<1> QED  BY <1>5, <1>6, <1>7, <1>8 DEF CInv

LEMMA CInvNext == CInv /\ [Next]_vars => CInv'
<1> SUFFICES ASSUME CInv, [Next]_vars PROVE CInv'
    OBVIOUS
<1>1. CASE UNCHANGED vars
    <2>1. UNCHANGED <<cursor_X, cursor_Y, buf, holder, stk>>
        BY <1>1 DEF vars
    <2>2. Types' /\ TextInv'
        BY <2>1 DEF CInv, Types, TextInv
    <2>3. \A t, d : At(t, d)' = At(t, d)
        BY <2>1 DEF At
    <2>4. \A t, d : Under(t, d)' = Under(t, d)
        BY <2>3 DEF Under, Below, InPutc
    <2>5. LockInv'
        BY <2>1, <2>3 DEF CInv, LockInv, Locked
    <2>6. RegInv'
        BY <2>1, <2>3, <2>4 DEF CInv, RegInv
    <2>7. CursorInv'
        BY <2>1, <2>3, <2>4 DEF CInv, CursorInv, Clean, Topmost, Fits, InPutc
    <2> QED  BY <2>2, <2>5, <2>6, <2>7 DEF CInv
<1>2. ASSUME NEW t \in Threads, Step(t) PROVE CInv'
    BY <1>2, SprintkStep, StrcatStep, RequireStep, WriteStep, ReleaseStep, PutStep, LoadXStep, StoreXStep,
       LoadYStep, StoreYStep, WrapStep, ScrollStep DEF Step
<1> QED  BY <1>1, <1>2, UnknownKeyStep, PrintkStep DEF Next

\* CInv is an invariant of the console.
LEMMA CInvAlways == Spec => []CInv
BY CInvInit, CInvNext, PTL DEF Spec

\* The prints that the running one interrupted, counted from the top as in
\* OnScreen or from the bottom as in the invariant.
LEMMA Interrupted ==
    ASSUME Types, NEW t \in Threads, stk[t] # <<>>
    PROVE  Cardinality({k \in 2 .. Len(stk[t]) : InPutc(stk[t][k])}) = Under(t, Len(stk[t]))
<1>1. PICK n \in Nat \ {0} : n = Len(stk[t])
    BY NowPrint
<1> DEFINE S == Below(t, n)
           T == {k \in 2 .. n : InPutc(stk[t][k])}
           F == [e \in S |-> n + 1 - e]
<1>2. ASSUME NEW e \in S
      PROVE  n + 1 - e \in T /\ e \in 1 .. n - 1
    <2>1. e \in 1 .. n - 1 /\ InPutc(stk[t][n + 1 - e])
        BY <1>1 DEF Below, At
    <2> QED  BY <2>1
<1>3. ASSUME NEW k \in T
      PROVE  n + 1 - k \in S /\ n + 1 - (n + 1 - k) = k
    <2>1. k \in 2 .. n /\ InPutc(stk[t][k])
        OBVIOUS
    <2>2. n + 1 - k \in 1 .. n - 1 /\ n + 1 - (n + 1 - k) = k
        BY <2>1
    <2> QED  BY <1>1, <2>1, <2>2 DEF Below, At
<1>4. F \in Bijection(S, T)
    <2>1. F \in [S -> T]
        BY <1>2
    <2>2. \A a, b \in S : F[a] = F[b] => a = b
        BY <1>2
    <2>3. \A k \in T : \E e \in S : F[e] = k
        BY <1>3
    <2> HIDE DEF F, S, T
    <2> QED  BY <2>1, <2>2, <2>3, Fun_IsBij
<1>5. IsFiniteSet(S)
    BY UnderNat
<1> HIDE DEF F, S, T
<1>6. Cardinality(T) = Cardinality(S)
    BY <1>4, <1>5, FS_Bijection, Fun_ExistsBij
<1> QED  BY <1>1, <1>6 DEF S, T, Under

LEMMA CInvImplies == CInv => OwnText /\ OnScreen
<1> SUFFICES ASSUME CInv PROVE OwnText /\ OnScreen
    OBVIOUS
<1>1. Types /\ TextInv /\ LockInv /\ RegInv /\ CursorInv
    BY DEF CInv
<1>2. OwnText
    <2> SUFFICES ASSUME NEW t \in Threads, stk[t] # <<>>, Now(t).pc = "release", ~Now(t).mixed
                 PROVE  Now(t).own /\ Now(t).i = Len(Now(t).text) + 1
        BY DEF OwnText, On
    <2>1. SendsOwn(Now(t), buf)
        BY <1>1, NowText
    <2> QED  BY <2>1 DEF SendsOwn
<1>3. OnScreen
    <2> SUFFICES ASSUME NEW t \in Threads, stk[t] # <<>>, Now(t).pc = "c",
                        NEW n, n = Cardinality({k \in 2 .. Len(stk[t]) : InPutc(stk[t][k])})
                 PROVE  cursor_Y <= Rows - 1 + n /\ (n = 0 => cursor_X < Cols)
        BY DEF OnScreen, On
    <2>1. n = Under(t, Len(stk[t]))
        BY <1>1, Interrupted
    <2>2. InPutc(Now(t))
        BY DEF InPutc
    <2>3. n \in Nat /\ Fits("c", n)
        BY <1>1, <2>1, <2>2, TopFits
    <2> QED  BY <2>3, Numbers DEF Fits
<1> QED  BY <1>2, <1>3

\* A print that nobody disturbs from its memset to its console_release sends
\* exactly the text that printk was given, whatever was in the buffer before,
\* and a constant is always sent as it is: for any texts that fit the buffer,
\* any number of threads and any depth of handlers.
THEOREM OwnTextCorrect == Spec => []OwnText
BY CInvAlways, CInvImplies, PTL

\* console_putc_color writes into a cell of the screen unless it interrupted
\* another print inside a character, and then at most one line below the
\* screen for each of those: for every size of the screen, although every
\* change of the cursor is a load and a store that a handler can come between.
THEOREM OnScreenCorrect == Spec => []OnScreen
BY CInvAlways, CInvImplies, PTL

=============================================================================
