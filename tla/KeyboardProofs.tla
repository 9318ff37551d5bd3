--------------------------- MODULE KeyboardProofs ---------------------------
(***************************************************************************)
(* The keyboard handler, for every set of keys: no read outside keymap,    *)
(* modifiers as the keys hold them, and the character that the user means. *)
(*                                                                         *)
(* The argument: the bytes that have been sent and not yet read stand for  *)
(* one of a few things, a code that changes no flag, two of them, a        *)
(* modifier that is pressed or released, or the rest of the pause          *)
(* sequence.  Each of them fixes what the flags may be now, given the keys *)
(* that are held, so that they are right again when the bytes are read.    *)
(***************************************************************************)
EXTENDS Keyboard, SequenceTheorems, TLAPS

\* The prefix, the bytes that are not one, and the code that a byte with the
\* prefix stands for.
Esc     == \he0
Final   == (0 .. 255) \ {\he0}
Long(b) == \he000 + b
Codes   == Final \cup {Long(b) : b \in Final}

\* The bytes that are left stand for the code c; for the codes c and d, both
\* with the prefix.
Pending(c) ==
    \/ c \in Final /\ wire = <<c>> /\ ext_status = FALSE
    \/ \E b \in Final :
          /\ c = Long(b)
          /\ \/ wire = <<Esc, b>> /\ ext_status = FALSE
             \/ wire = <<b>> /\ ext_status = TRUE

PendingTwo(c, d) ==
    \E a, b \in Final :
        /\ c = Long(a) /\ d = Long(b)
        /\ \/ wire = <<Esc, a, Esc, b>> /\ ext_status = FALSE
           \/ wire = <<a, Esc, b>> /\ ext_status = TRUE

\* A code that changes no flag.
Neutral(c) == \A m \in Modifiers : c # m /\ c # m + \h80

\* One of the keys K holds its flag.  The flags agree with the keys held and
\* with the presses of capslock.
Held(K) == K \cap (down \ loose) # {}

CtrlOK  == ctrl_status = Held(CtrlKeys)
ShiftOK == shift_status = Held(ShiftKeys)
AltOK   == alt_status = Held(AltKeys)
CapsOK  == capslock_status = (capsOn # repeated)

Sync == CtrlOK /\ ShiftOK /\ AltOK /\ CapsOK

\* The flags while the press or the release of modifier m is pending.
Pressing(m) ==
    /\ IF m \in CtrlKeys THEN Held(CtrlKeys) ELSE CtrlOK
    /\ IF m \in ShiftKeys THEN Held(ShiftKeys) ELSE ShiftOK
    /\ IF m \in AltKeys THEN Held(AltKeys) ELSE AltOK
    /\ capslock_status = ((capsOn # repeated) # (m = capslock_make))

Releasing(m) ==
    /\ IF m \in CtrlKeys THEN ~Held(CtrlKeys) ELSE CtrlOK
    /\ IF m \in ShiftKeys THEN ~Held(ShiftKeys) ELSE ShiftOK
    /\ IF m \in AltKeys THEN ~Held(AltKeys) ELSE AltOK
    /\ CapsOK

\* The pause sequence: the control key goes down and up inside it.
Pausing ==
    /\ ShiftOK /\ AltOK /\ CapsOK /\ ext_status = FALSE /\ down \cap CtrlKeys = {}
    /\ \/ wire = <<\he1, \h1d, \h45, \he1, \h9d, \hc5>> /\ CtrlOK
       \/ wire = <<\h1d, \h45, \he1, \h9d, \hc5>>
       \/ wire = <<\h45, \he1, \h9d, \hc5>>
       \/ wire = <<\he1, \h9d, \hc5>>
       \/ wire = <<\h9d, \hc5>>

WireState ==
    \/ wire = <<>> /\ ext_status = FALSE /\ Sync
    \/ \E c \in Codes : Pending(c) /\ Neutral(c) /\ Sync
    \/ \E c, d \in Codes : PendingTwo(c, d) /\ Neutral(c) /\ Neutral(d) /\ Sync
    \/ \E m \in Modifiers : Pending(m) /\ Pressing(m)
    \/ \E m \in Modifiers : Pending(m + \h80) /\ Releasing(m)
    \/ Pausing

Bools ==
    /\ ctrl_status \in BOOLEAN /\ shift_status \in BOOLEAN /\ alt_status \in BOOLEAN
    /\ capslock_status \in BOOLEAN /\ ext_status \in BOOLEAN
    /\ capsOn \in BOOLEAN /\ repeated \in BOOLEAN

PutOK == (put = <<>> \/ put \in (Keymap \ Invisible) \X BOOLEAN) /\ CharAsTyped

KInv == Bools /\ down \subseteq Modifiers /\ loose \subseteq down /\ PutOK /\ WireState

(***************************************************************************)
(* What a code does                                                        *)
(***************************************************************************)
Code(c) == BreakCode(c) \/ MakeCode(c) \/ OtherCode(c)

\* A code that belongs to no modifier changes no flag, and the character it
\* puts, if it puts one, is the one that its key and the flags stand for.
LEMMA NeutralCode ==
    ASSUME NEW c \in Codes, Neutral(c), Bools, Code(c),
           ShiftOK, CapsOK, UNCHANGED user
    PROVE  UNCHANGED flags /\ PutOK'
<1>1. CASE BreakCode(c)
    <2>1. c - \h80 \notin Modifiers
        BY <1>1 DEF BreakCode, IsBreak, Neutral, Codes, Final, Long, Modifiers, ShiftKeys, AltKeys,
           CtrlKeys, shift_l_make, shift_r_make, alt_l_make, alt_r_make, ctrl_l_make,
           ctrl_r_make, capslock_make
    <2>2. c - \h80 \notin CtrlKeys /\ c - \h80 \notin ShiftKeys /\ c - \h80 \notin AltKeys
        BY <2>1 DEF Modifiers
    <2>3. UNCHANGED flags /\ put' = <<>>
        BY <1>1, <2>2 DEF BreakCode, Bools, flags
    <2> QED  BY <2>3 DEF CharAsTyped, PutOK
<1>2. CASE OtherCode(c)
    BY <1>2 DEF OtherCode, CharAsTyped, PutOK
<1>3. CASE MakeCode(c)
    <2>0. Known(c)
        BY <1>3 DEF MakeCode
    <2>1. c \in 1 .. \h3a /\ c % 256 = c
        BY <2>0 DEF Known, Neutral, Modifiers, AltKeys, CtrlKeys, alt_r_make, ctrl_r_make
    <2>2. c % 256 \notin Invisible
        BY <2>1 DEF Invisible, Neutral, Modifiers, ShiftKeys, AltKeys, CtrlKeys
    <2>3. UNCHANGED flags
        BY <1>3, <2>2 DEF MakeCode
    <2>4. PICK s : /\ s = IF c \in ShiftOnly THEN shift_status ELSE shift_status # capslock_status
                   /\ put' = <<c, s>>
        BY <1>3, <2>1, <2>2 DEF MakeCode
    <2>5. s \in BOOLEAN
        BY <2>4 DEF Bools
    <2>6. put' \in (Keymap \ Invisible) \X BOOLEAN
        BY <2>1, <2>2, <2>4, <2>5 DEF Keymap
    <2>7. c \in Letters => c \notin ShiftOnly
        BY <2>1 DEF Letters, ShiftOnly
    <2>8. c \in Symbols => c \in ShiftOnly
        BY <2>1 DEF Symbols, ShiftOnly
    <2>9. put'[1] = c /\ put'[2] = s
        BY <2>4
    <2>10. down' = down /\ loose' = loose /\ capsOn' = capsOn /\ repeated' = repeated
        BY DEF user
    <2>11. ASSUME ShiftKeys \cap loose = {}
           PROVE  shift_status = (ShiftKeys \cap down # {})
        BY <2>11 DEF ShiftOK, Held
    <2>12. ASSUME repeated = FALSE
           PROVE  capslock_status = capsOn
        BY <2>12 DEF CapsOK, Bools
    <2>13. PICK h : h = (ShiftKeys \cap down # {})
        OBVIOUS
    <2>14. ASSUME ShiftKeys \cap loose = {}, ~repeated
           PROVE  /\ c \in Letters => s = (h # capsOn)
                  /\ c \in Symbols => s = h
        BY <2>4, <2>7, <2>8, <2>11, <2>12, <2>13, <2>14 DEF Bools
    <2>15. CharAsTyped'
        BY <2>9, <2>10, <2>13, <2>14 DEF CharAsTyped
    <2> QED  BY <2>3, <2>6, <2>15 DEF PutOK
<1> QED  BY <1>1, <1>2, <1>3 DEF Code

\* The seven modifiers and their place in the table: the right control and alt
\* keys have the entries of the left ones.
LEMMA ModifierEntry ==
    ASSUME NEW m \in Modifiers
    PROVE  /\ m \in Nat /\ ~IsBreak(m) /\ Known(m) /\ m % 256 \in Invisible
           /\ (m % 256 \in CtrlKeys) <=> (m \in CtrlKeys)
           /\ (m % 256 \in ShiftKeys) <=> (m \in ShiftKeys)
           /\ (m % 256 \in AltKeys) <=> (m \in AltKeys)
           /\ (m % 256 = capslock_make) <=> (m = capslock_make)
           /\ IsBreak(m + \h80) /\ (m + \h80) - \h80 = m
<1> USE DEF Modifiers, ShiftKeys, AltKeys, CtrlKeys, shift_l_make, shift_r_make, alt_l_make,
        alt_r_make, ctrl_l_make, ctrl_r_make, capslock_make
<1>1. m \in Nat /\ ~IsBreak(m) /\ IsBreak(m + \h80) /\ (m + \h80) - \h80 = m
    BY DEF IsBreak
<1>2. Known(m) /\ m % 256 \in Invisible
    BY DEF Known, Invisible
<1>3. /\ (m % 256 \in CtrlKeys) <=> (m \in CtrlKeys)
      /\ (m % 256 \in ShiftKeys) <=> (m \in ShiftKeys)
      /\ (m % 256 \in AltKeys) <=> (m \in AltKeys)
      /\ (m % 256 = capslock_make) <=> (m = capslock_make)
    OBVIOUS
<1> QED  BY <1>1, <1>2, <1>3

\* The press of a modifier sets its flag.
LEMMA ModifierMake ==
    ASSUME NEW m \in Modifiers, Code(m)
    PROVE  /\ put' = <<>>
           /\ ctrl_status' = (ctrl_status \/ m \in CtrlKeys)
           /\ shift_status' = (shift_status \/ m \in ShiftKeys)
           /\ alt_status' = (alt_status \/ m \in AltKeys)
           /\ capslock_status' = (capslock_status # (m = capslock_make))
<1>1. /\ ~IsBreak(m) /\ Known(m) /\ m % 256 \in Invisible
      /\ (m % 256 \in CtrlKeys) <=> (m \in CtrlKeys)
      /\ (m % 256 \in ShiftKeys) <=> (m \in ShiftKeys)
      /\ (m % 256 \in AltKeys) <=> (m \in AltKeys)
      /\ (m % 256 = capslock_make) <=> (m = capslock_make)
    BY ModifierEntry
<1>2. MakeCode(m)
    BY <1>1 DEF Code, BreakCode, OtherCode
<1>3. PICK k : k = m % 256
    OBVIOUS
<1>4. /\ put' = <<>>
      /\ ctrl_status' = (ctrl_status \/ k \in CtrlKeys)
      /\ shift_status' = (shift_status \/ k \in ShiftKeys)
      /\ alt_status' = (alt_status \/ k \in AltKeys)
      /\ capslock_status' = (capslock_status # (k = capslock_make))
    BY <1>1, <1>2, <1>3, ZenonT(60) DEF MakeCode
<1>5. /\ (k \in CtrlKeys) <=> (m \in CtrlKeys)
      /\ (k \in ShiftKeys) <=> (m \in ShiftKeys)
      /\ (k \in AltKeys) <=> (m \in AltKeys)
      /\ (k = capslock_make) <=> (m = capslock_make)
    BY <1>1, <1>3, Zenon
<1>6. (ctrl_status \/ k \in CtrlKeys) = (ctrl_status \/ m \in CtrlKeys)
    BY <1>5, Zenon
<1>7. (shift_status \/ k \in ShiftKeys) = (shift_status \/ m \in ShiftKeys)
    BY <1>5, Zenon
<1>8. (alt_status \/ k \in AltKeys) = (alt_status \/ m \in AltKeys)
    BY <1>5, Zenon
<1>9. (k = capslock_make) = (m = capslock_make)
    BY <1>5, Zenon
<1> QED  BY <1>4, <1>6, <1>7, <1>8, <1>9, Zenon

\* Its release clears it.
LEMMA ModifierBreak ==
    ASSUME NEW m \in Modifiers, Code(m + \h80)
    PROVE  /\ put' = <<>>
           /\ ctrl_status' = (ctrl_status /\ m \notin CtrlKeys)
           /\ shift_status' = (shift_status /\ m \notin ShiftKeys)
           /\ alt_status' = (alt_status /\ m \notin AltKeys)
           /\ UNCHANGED capslock_status
<1>1. IsBreak(m + \h80) /\ (m + \h80) - \h80 = m
    BY ModifierEntry
<1>2. BreakCode(m + \h80)
    BY <1>1, Zenon DEF Code, MakeCode, OtherCode
<1> QED  BY <1>1, <1>2 DEF BreakCode

(***************************************************************************)
(* What an interrupt does                                                  *)
(***************************************************************************)

\* An interrupt that reads a prefix, one that reads the last byte of code c.
LEMMA ReadPrefix ==
    ASSUME kbd_handler, Head(wire) = Esc
    PROVE  ext_status' = TRUE /\ put' = <<>> /\ UNCHANGED flags
<1>1. Prefix(Head(wire)) \/ WholeCode(Head(wire))
    BY Zenon DEF kbd_handler
<1> QED  BY <1>1 DEF Prefix, WholeCode, Esc

LEMMA ReadByte ==
    ASSUME kbd_handler, NEW b \in Final, Head(wire) = b,
           NEW c, c = IF ext_status THEN Long(b) ELSE b
    PROVE  ext_status' = FALSE /\ Code(c)
<1>1. Prefix(b) \/ WholeCode(b)
    BY Zenon DEF kbd_handler
<1>2. b # \he0 /\ ~Prefix(b)
    BY DEF Final, Prefix
<1>3. /\ ext_status' = FALSE
      /\ LET s == IF ext_status THEN \he000 + b ELSE b
         IN  BreakCode(s) \/ MakeCode(s) \/ OtherCode(s)
    BY <1>1, <1>2 DEF WholeCode
<1>4. c = IF ext_status THEN \he000 + b ELSE b
    BY DEF Long
<1> QED  BY <1>3, <1>4 DEF Code

LEMMA ReadOne ==
    ASSUME kbd_handler, NEW c, Pending(c)
    PROVE  /\ c \in Codes
           /\ \/ Pending(c)' /\ UNCHANGED flags /\ put' = <<>>
              \/ wire' = <<>> /\ ext_status' = FALSE /\ Code(c)
<1>0. wire' = Tail(wire)
    BY Zenon DEF kbd_handler
<1>1. CASE c \in Final /\ wire = <<c>> /\ ext_status = FALSE
    <2>1. Head(wire) = c /\ Tail(wire) = <<>>
        BY <1>1
    <2>2. c = IF ext_status THEN Long(c) ELSE c
        BY <1>1
    <2>3. ext_status' = FALSE /\ Code(c)
        BY <1>1, <2>1, <2>2, ReadByte, Zenon
    <2>4. c \in Codes
        BY <1>1 DEF Codes
    <2> QED  BY <1>0, <2>1, <2>3, <2>4
<1>2. CASE \E b \in Final :
          /\ c = Long(b)
          /\ \/ wire = <<Esc, b>> /\ ext_status = FALSE
             \/ wire = <<b>> /\ ext_status = TRUE
    <2>1. PICK b \in Final :
          /\ c = Long(b)
          /\ \/ wire = <<Esc, b>> /\ ext_status = FALSE
             \/ wire = <<b>> /\ ext_status = TRUE
        BY <1>2
    <2>2. c \in Codes
        BY <2>1 DEF Codes
    <2>3. CASE wire = <<Esc, b>> /\ ext_status = FALSE
        <3>1. Head(wire) = Esc /\ Tail(wire) = <<b>>
            BY <2>3
        <3>2. ext_status' = TRUE /\ put' = <<>> /\ UNCHANGED flags /\ wire' = <<b>>
            BY <1>0, <3>1, ReadPrefix
        <3>3. Pending(c)'
            BY <2>1, <3>2 DEF Pending
        <3> QED  BY <2>2, <3>2, <3>3
    <2>4. CASE wire = <<b>> /\ ext_status = TRUE
        <3>1. Head(wire) = b /\ Tail(wire) = <<>>
            BY <2>4
        <3>2. c = IF ext_status THEN Long(b) ELSE b
            BY <2>1, <2>4
        <3>3. ext_status' = FALSE /\ Code(c)
            BY <2>1, <3>1, <3>2, ReadByte, Zenon
        <3> QED  BY <1>0, <2>2, <3>1, <3>3
    <2> QED  BY <2>1, <2>3, <2>4
<1> QED  BY <1>1, <1>2 DEF Pending

LEMMA ReadTwo ==
    ASSUME kbd_handler, NEW c, NEW d, PendingTwo(c, d)
    PROVE  /\ c \in Codes
           /\ \/ PendingTwo(c, d)' /\ UNCHANGED flags /\ put' = <<>>
              \/ Pending(d)' /\ Code(c)
<1>0. wire' = Tail(wire)
    BY Zenon DEF kbd_handler
<1>1. PICK a, b \in Final :
        /\ c = Long(a) /\ d = Long(b)
        /\ \/ wire = <<Esc, a, Esc, b>> /\ ext_status = FALSE
           \/ wire = <<a, Esc, b>> /\ ext_status = TRUE
    BY DEF PendingTwo
<1>2. c \in Codes
    BY <1>1 DEF Codes
<1>3. CASE wire = <<Esc, a, Esc, b>> /\ ext_status = FALSE
    <2>1. Head(wire) = Esc /\ Tail(wire) = <<a, Esc, b>>
        BY <1>3
    <2>2. ext_status' = TRUE /\ put' = <<>> /\ UNCHANGED flags /\ wire' = <<a, Esc, b>>
        BY <1>0, <2>1, ReadPrefix
    <2>3. PendingTwo(c, d)'
        BY <1>1, <2>2 DEF PendingTwo
    <2> QED  BY <1>2, <2>2, <2>3
<1>4. CASE wire = <<a, Esc, b>> /\ ext_status = TRUE
    <2>1. Head(wire) = a /\ Tail(wire) = <<Esc, b>>
        BY <1>4
    <2>2. c = IF ext_status THEN Long(a) ELSE a
        BY <1>1, <1>4
    <2>3. ext_status' = FALSE /\ Code(c)
        BY <1>1, <2>1, <2>2, ReadByte, Zenon
    <2>4. Pending(d)'
        BY <1>0, <1>1, <2>1, <2>3 DEF Pending
    <2> QED  BY <1>2, <2>3, <2>4
<1> QED  BY <1>1, <1>3, <1>4

(***************************************************************************)
(* The handler preserves the invariant                                     *)
(***************************************************************************)

\* Without a change of the flags and the keys the flags agree as they did.
LEMMA SameFlags ==
    ASSUME UNCHANGED <<flags, user>>
    PROVE  /\ CtrlOK' = CtrlOK /\ ShiftOK' = ShiftOK /\ AltOK' = AltOK /\ CapsOK' = CapsOK
           /\ Sync' = Sync
           /\ \A m : Pressing(m)' = Pressing(m) /\ Releasing(m)' = Releasing(m)
<1>1. /\ ctrl_status' = ctrl_status /\ shift_status' = shift_status
      /\ alt_status' = alt_status /\ capslock_status' = capslock_status
      /\ down' = down /\ loose' = loose /\ capsOn' = capsOn /\ repeated' = repeated
    BY DEF flags, user
<1> QED  BY <1>1 DEF Held, CtrlOK, ShiftOK, AltOK, CapsOK, Sync, Pressing, Releasing

LEMMA SameBools ==
    ASSUME Bools, UNCHANGED <<flags, user>>, ext_status' \in BOOLEAN
    PROVE  Bools'
BY DEF Bools, flags, user

\* Whether a key holds its flag is up to the user.
LEMMA SameHeld ==
    ASSUME UNCHANGED user, NEW K
    PROVE  Held(K)' = Held(K) /\ Held(K) \in BOOLEAN
BY DEF Held, user

LEMMA NoPut ==
    ASSUME put' = <<>>
    PROVE  PutOK'
BY DEF PutOK, CharAsTyped

\* Read to its end, the press of a modifier leaves the flags right,
LEMMA Pressed ==
    ASSUME NEW m \in Modifiers, Code(m), Bools, Pressing(m), UNCHANGED user,
           ext_status' = FALSE
    PROVE  Sync' /\ Bools' /\ PutOK'
<1>1. /\ put' = <<>>
      /\ ctrl_status' = (ctrl_status \/ m \in CtrlKeys)
      /\ shift_status' = (shift_status \/ m \in ShiftKeys)
      /\ alt_status' = (alt_status \/ m \in AltKeys)
      /\ capslock_status' = (capslock_status # (m = capslock_make))
    BY ModifierMake
<1>2. capsOn' = capsOn /\ repeated' = repeated
    BY DEF user
<1>3. Bools'
    BY <1>1, <1>2 DEF Bools
<1>4. CtrlOK' /\ ShiftOK' /\ AltOK'
    BY <1>1, SameHeld DEF CtrlOK, ShiftOK, AltOK, Pressing, Bools
<1>5. CapsOK'
    BY <1>1, <1>2 DEF CapsOK, Pressing, Bools
<1> QED  BY <1>1, <1>3, <1>4, <1>5, NoPut DEF Sync

\* and so does the release of one.
LEMMA Released ==
    ASSUME NEW m \in Modifiers, Code(m + \h80), Bools, Releasing(m),
           UNCHANGED user, ext_status' = FALSE
    PROVE  Sync' /\ Bools' /\ PutOK'
<1>1. /\ put' = <<>>
      /\ ctrl_status' = (ctrl_status /\ m \notin CtrlKeys)
      /\ shift_status' = (shift_status /\ m \notin ShiftKeys)
      /\ alt_status' = (alt_status /\ m \notin AltKeys)
      /\ UNCHANGED capslock_status
    BY ModifierBreak
<1>2. capsOn' = capsOn /\ repeated' = repeated
    BY DEF user
<1>3. Bools'
    BY <1>1, <1>2 DEF Bools
<1>4. CtrlOK' /\ ShiftOK' /\ AltOK'
    BY <1>1, SameHeld DEF CtrlOK, ShiftOK, AltOK, Releasing, Bools
<1>5. CapsOK'
    BY <1>1, <1>2 DEF CapsOK, Releasing
<1> QED  BY <1>1, <1>3, <1>4, <1>5, NoPut DEF Sync

\* Inside the pause sequence the control key goes down and comes up again.
LEMMA PauseRead ==
    ASSUME Pausing, Bools, kbd_handler
    PROVE  Bools' /\ PutOK' /\ WireState'
<1>0. wire' = Tail(wire) /\ UNCHANGED user
    BY Zenon DEF kbd_handler
<1>1. /\ ShiftOK /\ AltOK /\ CapsOK /\ ext_status = FALSE /\ down \cap CtrlKeys = {}
    BY DEF Pausing
<1>2. ASSUME NEW b \in Final, Head(wire) = b
      PROVE  ext_status' = FALSE /\ Code(b)
    <2>1. b = IF ext_status THEN Long(b) ELSE b
        BY <1>1
    <2> QED  BY <1>2, <2>1, ReadByte, Zenon
<1>3. ASSUME NEW b \in Final, Head(wire) = b, Neutral(b)
      PROVE  ext_status' = FALSE /\ UNCHANGED flags /\ Bools' /\ PutOK'
    <2>1. ext_status' = FALSE /\ Code(b) /\ b \in Codes
        BY <1>2, <1>3 DEF Codes
    <2>2. UNCHANGED flags /\ PutOK'
        BY <1>0, <1>1, <1>3, <2>1, NeutralCode
    <2> QED  BY <1>0, <2>1, <2>2, SameBools
<1>4. /\ \he1 \in Final /\ Neutral(\he1) /\ \h45 \in Final /\ Neutral(\h45)
      /\ \hc5 \in Final /\ Neutral(\hc5) /\ \h1d \in Final /\ \h9d \in Final
    BY DEF Final, Neutral, Modifiers, ShiftKeys, AltKeys, CtrlKeys, shift_l_make, shift_r_make,
       alt_l_make, alt_r_make, ctrl_l_make, ctrl_r_make, capslock_make
<1>5. CASE wire = <<\he1, \h1d, \h45, \he1, \h9d, \hc5>>
    <2>1. Head(wire) = \he1 /\ wire' = <<\h1d, \h45, \he1, \h9d, \hc5>>
        BY <1>0, <1>5
    <2>2. ext_status' = FALSE /\ UNCHANGED flags /\ Bools' /\ PutOK'
        <3>1. \E b \in Final : Head(wire) = b /\ Neutral(b)
            BY <1>4, <2>1
        <3> QED  BY <1>3, <3>1, Zenon
    <2>3. Pausing'
        BY <1>0, <1>1, <2>1, <2>2, SameFlags DEF Pausing, user
    <2> QED  BY <2>2, <2>3 DEF WireState
<1>6. CASE wire = <<\h1d, \h45, \he1, \h9d, \hc5>>
    <2>1. Head(wire) = \h1d /\ wire' = <<\h45, \he1, \h9d, \hc5>>
        BY <1>0, <1>6
    <2>2. ext_status' = FALSE /\ Code(\h1d)
        BY <1>2, <1>4, <2>1
    <2>3. /\ ctrl_l_make \in Modifiers /\ ctrl_l_make = \h1d /\ ctrl_l_make \notin ShiftKeys
          /\ ctrl_l_make \notin AltKeys /\ ctrl_l_make # capslock_make
        BY DEF Modifiers, ShiftKeys, AltKeys, CtrlKeys, shift_l_make, shift_r_make,
           alt_l_make, alt_r_make, ctrl_l_make, ctrl_r_make, capslock_make
    <2>4. Code(ctrl_l_make)
        BY <2>2, <2>3
    <2>5. /\ put' = <<>>
          /\ ctrl_status' = (ctrl_status \/ ctrl_l_make \in CtrlKeys)
          /\ shift_status' = (shift_status \/ ctrl_l_make \in ShiftKeys)
          /\ alt_status' = (alt_status \/ ctrl_l_make \in AltKeys)
          /\ capslock_status' = (capslock_status # (ctrl_l_make = capslock_make))
        BY <2>3, <2>4, ModifierMake
    <2>6. /\ ctrl_status' \in BOOLEAN /\ shift_status' = shift_status
          /\ alt_status' = alt_status /\ capslock_status' = capslock_status
        BY <2>3, <2>5 DEF Bools
    <2>7. Bools' /\ PutOK'
        BY <1>0, <2>2, <2>5, <2>6, NoPut DEF Bools, user
    <2>8. ShiftOK' /\ AltOK' /\ CapsOK'
        BY <1>0, <1>1, <2>6, SameHeld DEF ShiftOK, AltOK, CapsOK, user
    <2>9. Pausing'
        BY <1>0, <1>1, <2>1, <2>2, <2>8 DEF Pausing, user
    <2> QED  BY <2>7, <2>9 DEF WireState
<1>7. CASE wire = <<\h45, \he1, \h9d, \hc5>>
    <2>1. Head(wire) = \h45 /\ wire' = <<\he1, \h9d, \hc5>>
        BY <1>0, <1>7
    <2>2. ext_status' = FALSE /\ UNCHANGED flags /\ Bools' /\ PutOK'
        <3>1. \E b \in Final : Head(wire) = b /\ Neutral(b)
            BY <1>4, <2>1
        <3> QED  BY <1>3, <3>1, Zenon
    <2>3. Pausing'
        BY <1>0, <1>1, <2>1, <2>2, SameFlags DEF Pausing, user
    <2> QED  BY <2>2, <2>3 DEF WireState
<1>8. CASE wire = <<\he1, \h9d, \hc5>>
    <2>1. Head(wire) = \he1 /\ wire' = <<\h9d, \hc5>>
        BY <1>0, <1>8
    <2>2. ext_status' = FALSE /\ UNCHANGED flags /\ Bools' /\ PutOK'
        <3>1. \E b \in Final : Head(wire) = b /\ Neutral(b)
            BY <1>4, <2>1
        <3> QED  BY <1>3, <3>1, Zenon
    <2>3. Pausing'
        BY <1>0, <1>1, <2>1, <2>2, SameFlags DEF Pausing, user
    <2> QED  BY <2>2, <2>3 DEF WireState
<1>9. CASE wire = <<\h9d, \hc5>>
    <2>1. Head(wire) = \h9d /\ wire' = <<\hc5>>
        BY <1>0, <1>9
    <2>2. ext_status' = FALSE /\ Code(\h9d)
        BY <1>2, <1>4, <2>1
    <2>3. /\ ctrl_l_make \in Modifiers /\ ctrl_l_make + \h80 = \h9d /\ ctrl_l_make \in CtrlKeys
          /\ ctrl_l_make \notin ShiftKeys /\ ctrl_l_make \notin AltKeys
        BY DEF Modifiers, ShiftKeys, AltKeys, CtrlKeys, shift_l_make, shift_r_make,
           alt_l_make, alt_r_make, ctrl_l_make, ctrl_r_make, capslock_make
    <2>4. Code(ctrl_l_make + \h80)
        BY <2>2, <2>3
    <2>5. Releasing(ctrl_l_make)
        BY <1>1, <2>3 DEF Releasing, Held
    <2>6. Sync' /\ Bools' /\ PutOK'
        BY <1>0, <2>2, <2>3, <2>4, <2>5, Released
    <2>7. Pending(\hc5)' /\ \hc5 \in Codes
        BY <1>4, <2>1, <2>2 DEF Pending, Codes
    <2> QED  BY <1>4, <2>6, <2>7 DEF WireState
<1> QED  BY <1>5, <1>6, <1>7, <1>8, <1>9 DEF Pausing

LEMMA HandlerStep ==
    ASSUME KInv, kbd_handler
    PROVE  KInv'
<1>0. /\ UNCHANGED user /\ wire # <<>>
      /\ Bools /\ down' \subseteq Modifiers /\ loose' \subseteq down'
    BY Zenon DEF kbd_handler, KInv, user
<1>1. CASE \E c \in Codes : Pending(c) /\ Neutral(c) /\ Sync
    <2>1. PICK c \in Codes : Pending(c) /\ Neutral(c) /\ Sync
        BY <1>1
    <2>2. CASE Pending(c)' /\ UNCHANGED flags /\ put' = <<>>
        <3>1. Sync' /\ ext_status' \in BOOLEAN
            BY <1>0, <2>1, <2>2, SameFlags DEF Pending
        <3>2. Bools' /\ PutOK'
            BY <1>0, <2>2, <3>1, SameBools, NoPut
        <3> QED  BY <1>0, <2>1, <2>2, <3>1, <3>2 DEF KInv, WireState, Neutral
    <2>3. CASE wire' = <<>> /\ ext_status' = FALSE /\ Code(c)
        <3>1. UNCHANGED flags /\ PutOK'
            BY <1>0, <2>1, <2>3, NeutralCode DEF Sync
        <3>2. Sync' /\ Bools'
            BY <1>0, <2>1, <2>3, <3>1, SameFlags, SameBools
        <3> QED  BY <1>0, <2>3, <3>1, <3>2 DEF KInv, WireState
    <2> QED  BY <2>1, <2>2, <2>3, ReadOne
<1>2. CASE \E c, d \in Codes : PendingTwo(c, d) /\ Neutral(c) /\ Neutral(d) /\ Sync
    <2>1. PICK c \in Codes, d \in Codes : PendingTwo(c, d) /\ Neutral(c) /\ Neutral(d) /\ Sync
        BY <1>2
    <2>2. CASE PendingTwo(c, d)' /\ UNCHANGED flags /\ put' = <<>>
        <3>1. Sync' /\ ext_status' \in BOOLEAN
            BY <1>0, <2>1, <2>2, SameFlags DEF PendingTwo
        <3>2. Bools' /\ PutOK'
            BY <1>0, <2>2, <3>1, SameBools, NoPut
        <3> QED  BY <1>0, <2>1, <2>2, <3>1, <3>2 DEF KInv, WireState, Neutral
    <2>3. CASE Pending(d)' /\ Code(c)
        <3>1. UNCHANGED flags /\ PutOK'
            BY <1>0, <2>1, <2>3, NeutralCode DEF Sync
        <3>2. Sync' /\ ext_status' \in BOOLEAN
            BY <1>0, <2>1, <2>3, <3>1, SameFlags DEF Pending
        <3>3. Bools'
            BY <1>0, <3>1, <3>2, SameBools
        <3> QED  BY <1>0, <2>1, <2>3, <3>1, <3>2, <3>3 DEF KInv, WireState, Neutral
    <2> QED  BY <2>1, <2>2, <2>3, ReadTwo
<1>3. CASE \E m \in Modifiers : Pending(m) /\ Pressing(m)
    <2>1. PICK m \in Modifiers : Pending(m) /\ Pressing(m)
        BY <1>3
    <2>2. CASE Pending(m)' /\ UNCHANGED flags /\ put' = <<>>
        <3>1. Pressing(m)' /\ ext_status' \in BOOLEAN
            BY <1>0, <2>1, <2>2, SameFlags DEF Pending
        <3>2. Bools' /\ PutOK'
            BY <1>0, <2>2, <3>1, SameBools, NoPut
        <3> QED  BY <1>0, <2>1, <2>2, <3>1, <3>2 DEF KInv, WireState
    <2>3. CASE wire' = <<>> /\ ext_status' = FALSE /\ Code(m)
        <3>1. Sync' /\ Bools' /\ PutOK'
            BY <1>0, <2>1, <2>3, Pressed
        <3> QED  BY <1>0, <2>3, <3>1 DEF KInv, WireState
    <2> QED  BY <2>1, <2>2, <2>3, ReadOne
<1>4. CASE \E m \in Modifiers : Pending(m + \h80) /\ Releasing(m)
    <2>1. PICK m \in Modifiers : Pending(m + \h80) /\ Releasing(m)
        BY <1>4
    <2>2. CASE Pending(m + \h80)' /\ UNCHANGED flags /\ put' = <<>>
        <3>1. Releasing(m)' /\ ext_status' \in BOOLEAN
            BY <1>0, <2>1, <2>2, SameFlags DEF Pending
        <3>2. Bools' /\ PutOK'
            BY <1>0, <2>2, <3>1, SameBools, NoPut
        <3> QED  BY <1>0, <2>1, <2>2, <3>1, <3>2 DEF KInv, WireState
    <2>3. CASE wire' = <<>> /\ ext_status' = FALSE /\ Code(m + \h80)
        <3>1. Sync' /\ Bools' /\ PutOK'
            BY <1>0, <2>1, <2>3, Released
        <3> QED  BY <1>0, <2>3, <3>1 DEF KInv, WireState
    <2> QED  BY <2>1, <2>2, <2>3, ReadOne
<1>5. CASE Pausing
    BY <1>0, <1>5, PauseRead DEF KInv
<1> QED  BY <1>0, <1>1, <1>2, <1>3, <1>4, <1>5 DEF KInv, WireState

(***************************************************************************)
(* So does the keyboard                                                    *)
(***************************************************************************)
Keys == (1 .. \h5f) \cup (\he001 .. \he05f)

LEMMA KeysOK ==
    /\ Modifiers \subseteq Keys
    /\ \A k \in PlainKeys \cup ExtKeys : k \in Keys /\ Neutral(k) /\ Neutral(k + \h80)
<1> USE DEF Modifiers, ShiftKeys, AltKeys, CtrlKeys, shift_l_make, shift_r_make, alt_l_make,
        alt_r_make, ctrl_l_make, ctrl_r_make, capslock_make
<1>1. Modifiers \subseteq Keys
    BY DEF Keys
<1>2. ASSUME NEW k \in PlainKeys \cup ExtKeys
      PROVE  k \in Keys /\ k \notin Modifiers
    BY KeyboardAssumption DEF Keys
<1>3. ASSUME NEW k \in PlainKeys \cup ExtKeys
      PROVE  Neutral(k) /\ Neutral(k + \h80)
    BY <1>2 DEF Keys, Neutral
<1> QED  BY <1>1, <1>2, <1>3

\* The bytes of a key stand for its code.
LEMMA KeyBytes ==
    ASSUME NEW k \in Keys
    PROVE  /\ k \in Codes /\ k + \h80 \in Codes
           /\ \/ k \in Final /\ k + \h80 \in Final /\ Make(k) = <<k>> /\ Break(k) = <<k + \h80>>
              \/ \E a, b \in Final : /\ k = Long(a) /\ k + \h80 = Long(b)
                                     /\ Make(k) = <<Esc, a>> /\ Break(k) = <<Esc, b>>
<1>1. CASE k \in 1 .. \h5f
    BY <1>1 DEF Final, Codes, Make, Break
<1>2. CASE k \in \he001 .. \he05f
    <2>1. k % 256 = k - \he000 /\ ~(k < 256)
        BY <1>2
    <2>2. /\ k % 256 \in Final /\ (k % 256) + \h80 \in Final
          /\ k = Long(k % 256) /\ k + \h80 = Long((k % 256) + \h80)
        BY <1>2, <2>1 DEF Final, Long
    <2>3. Make(k) = <<Esc, k % 256>> /\ Break(k) = <<Esc, (k % 256) + \h80>>
        BY <2>1 DEF Make, Break, Esc
    <2> QED  BY <2>2, <2>3 DEF Codes
<1> QED  BY <1>1, <1>2 DEF Keys

LEMMA MakePending ==
    ASSUME NEW k \in Keys, ext_status' = FALSE, wire' = Make(k)
    PROVE  Pending(k)'
BY KeyBytes DEF Pending

LEMMA BreakPending ==
    ASSUME NEW k \in Keys, ext_status' = FALSE, wire' = Break(k)
    PROVE  Pending(k + \h80)'
BY KeyBytes DEF Pending

\* The shift key that is taken back and sent again around a cursor key.
LEMMA ShiftBytes ==
    ASSUME NEW m \in ShiftKeys
    PROVE  /\ m \in Final /\ m + \h80 \in Final
           /\ Long(m) \in Codes /\ Neutral(Long(m))
           /\ Long(m + \h80) \in Codes /\ Neutral(Long(m + \h80))
           /\ Make(Long(m)) = <<Esc, m>> /\ Break(Long(m)) = <<Esc, m + \h80>>
<1> USE DEF ShiftKeys, shift_l_make, shift_r_make
<1>1. m \in Final /\ m + \h80 \in Final
    BY DEF Final
<1>2. Long(m) \in Codes /\ Long(m + \h80) \in Codes
    BY <1>1 DEF Codes
<1>3. Neutral(Long(m)) /\ Neutral(Long(m + \h80))
    BY DEF Neutral, Long, Modifiers, AltKeys, CtrlKeys, alt_l_make, alt_r_make, ctrl_l_make,
       ctrl_r_make, capslock_make
<1>4. Make(Long(m)) = <<Esc, m>> /\ Break(Long(m)) = <<Esc, m + \h80>>
    BY DEF Long, Make, Break, Esc
<1> QED  BY <1>1, <1>2, <1>3, <1>4

LEMMA ExtBytes ==
    ASSUME NEW k \in ExtKeys
    PROVE  /\ k \in Codes /\ k + \h80 \in Codes /\ Neutral(k) /\ Neutral(k + \h80)
           /\ \E a, b \in Final : /\ k = Long(a) /\ k + \h80 = Long(b)
                                  /\ Make(k) = <<Esc, a>> /\ Break(k) = <<Esc, b>>
<1>1. k \in Keys /\ Neutral(k) /\ Neutral(k + \h80)
    BY KeysOK
<1>2. k \notin Final
    BY KeyboardAssumption DEF Final
<1> QED  BY <1>1, <1>2, KeyBytes

\* Between events the flags agree with the keys.
LEMMA Idle ==
    ASSUME KInv, wire = <<>>
    PROVE  ext_status = FALSE /\ Sync
BY DEF KInv, WireState, Pending, PendingTwo, Pausing

\* A keyboard event leaves the handler alone.
LEMMA SendStep ==
    ASSUME KInv, NEW bytes, Send(bytes)
    PROVE  /\ wire = <<>> /\ wire' = bytes /\ ext_status' = FALSE /\ UNCHANGED flags
           /\ Sync /\ PutOK'
<1>1. wire = <<>> /\ wire' = bytes /\ put' = <<>> /\ UNCHANGED <<flags, ext_status>>
    BY DEF Send
<1> QED  BY <1>1, Idle, NoPut

\* The keys of the three flags, and what a press and a release do to the
\* keys that hold one.
Kinds == {CtrlKeys, ShiftKeys, AltKeys}

LEMMA KinOf ==
    ASSUME NEW m, NEW K \in Kinds
    PROVE  (m \in K => Kin(m) = K) /\ (m \notin K => Kin(m) \cap K = {})
<1>1. ASSUME NEW J \in Kinds, NEW L \in Kinds, NEW k, k \in J, k \in L
      PROVE  J = L
    BY <1>1 DEF Kinds, ShiftKeys, AltKeys, CtrlKeys, shift_l_make, shift_r_make, alt_l_make,
       alt_r_make, ctrl_l_make, ctrl_r_make
<1>2. ASSUME NEW k, k \in Kin(m)
      PROVE  \E J \in Kinds : m \in J /\ k \in J
    BY <1>2 DEF Kin, Kinds
<1>3. ASSUME m \in K PROVE K \subseteq Kin(m)
    BY <1>3 DEF Kin, Kinds
<1>4. ASSUME m \in K PROVE Kin(m) = K
    BY <1>1, <1>2, <1>3, <1>4
<1>5. ASSUME m \notin K PROVE Kin(m) \cap K = {}
    BY <1>1, <1>2, <1>5
<1> QED  BY <1>4, <1>5

LEMMA PressHeld ==
    ASSUME NEW m, NEW K \in Kinds,
           down' = down \cup {m}, loose' = loose \ Kin(m)
    PROVE  IF m \in K THEN Held(K)' ELSE Held(K)' = Held(K)
<1>1. CASE m \in K
    <2>1. Kin(m) = K
        BY <1>1, KinOf
    <2> QED  BY <1>1, <2>1 DEF Held
<1>2. CASE m \notin K
    <2>1. Kin(m) \cap K = {}
        BY <1>2, KinOf
    <2>2. K \cap (down' \ loose') = K \cap (down \ loose)
        BY <1>2, <2>1
    <2> QED  BY <1>2, <2>2 DEF Held
<1> QED  BY <1>1, <1>2

LEMMA ReleaseHeld ==
    ASSUME NEW m, NEW K \in Kinds,
           down' = down \ {m}, loose' = (loose \cup (down \cap Kin(m))) \ {m}
    PROVE  IF m \in K THEN ~Held(K)' ELSE Held(K)' = Held(K)
<1>1. CASE m \in K
    <2>1. Kin(m) = K
        BY <1>1, KinOf
    <2> QED  BY <1>1, <2>1 DEF Held
<1>2. CASE m \notin K
    <2>1. Kin(m) \cap K = {}
        BY <1>2, KinOf
    <2>2. K \cap (down' \ loose') = K \cap (down \ loose)
        BY <1>2, <2>1
    <2> QED  BY <1>2, <2>2 DEF Held
<1> QED  BY <1>1, <1>2

LEMMA PressStep ==
    ASSUME KInv, NEW m \in Modifiers, Press(m)
    PROVE  KInv'
<1>1. /\ Send(Make(m)) /\ down' = down \cup {m} /\ loose' = loose \ Kin(m)
      /\ capsOn' = capsOn /\ repeated' = repeated /\ m # capslock_make
    BY Zenon DEF Press
<1>2. /\ wire' = Make(m) /\ ext_status' = FALSE /\ Sync /\ PutOK'
      /\ ctrl_status' = ctrl_status /\ shift_status' = shift_status
      /\ alt_status' = alt_status /\ capslock_status' = capslock_status
    BY <1>1, SendStep DEF flags
<1>3. Bools /\ down' \subseteq Modifiers /\ loose' \subseteq down'
    BY <1>1 DEF KInv
<1>4. Bools'
    BY <1>1, <1>2, <1>3 DEF Bools
<1>5. \A K \in Kinds : IF m \in K THEN Held(K)' ELSE Held(K)' = Held(K)
    BY <1>1, PressHeld
<1>6. /\ IF m \in CtrlKeys THEN Held(CtrlKeys)' ELSE CtrlOK'
      /\ IF m \in ShiftKeys THEN Held(ShiftKeys)' ELSE ShiftOK'
      /\ IF m \in AltKeys THEN Held(AltKeys)' ELSE AltOK'
    BY <1>2, <1>5 DEF Kinds, Sync, CtrlOK, ShiftOK, AltOK
<1>7. capslock_status' = ((capsOn' # repeated') # (m = capslock_make))
    BY <1>1, <1>2, <1>3 DEF Sync, CapsOK, Bools
<1>8. Pressing(m)'
    BY <1>6, <1>7 DEF Pressing
<1>9. Pending(m)'
    BY <1>2, KeysOK, MakePending
<1> QED  BY <1>2, <1>3, <1>4, <1>8, <1>9 DEF KInv, WireState

LEMMA ReleaseStep ==
    ASSUME KInv, NEW m \in Modifiers, Release(m)
    PROVE  KInv'
<1>1. /\ Send(Break(m)) /\ down' = down \ {m}
      /\ loose' = (loose \cup (down \cap Kin(m))) \ {m}
      /\ capsOn' = capsOn /\ repeated' = repeated
    BY Zenon DEF Release
<1>2. /\ wire' = Break(m) /\ ext_status' = FALSE /\ Sync /\ PutOK'
      /\ ctrl_status' = ctrl_status /\ shift_status' = shift_status
      /\ alt_status' = alt_status /\ capslock_status' = capslock_status
    BY <1>1, SendStep DEF flags
<1>3. Bools /\ down' \subseteq Modifiers /\ loose' \subseteq down'
    BY <1>1 DEF KInv
<1>4. Bools'
    BY <1>1, <1>2, <1>3 DEF Bools
<1>5. \A K \in Kinds : IF m \in K THEN ~Held(K)' ELSE Held(K)' = Held(K)
    BY <1>1, ReleaseHeld
<1>6. /\ IF m \in CtrlKeys THEN ~Held(CtrlKeys)' ELSE CtrlOK'
      /\ IF m \in ShiftKeys THEN ~Held(ShiftKeys)' ELSE ShiftOK'
      /\ IF m \in AltKeys THEN ~Held(AltKeys)' ELSE AltOK'
    BY <1>2, <1>5 DEF Kinds, Sync, CtrlOK, ShiftOK, AltOK
<1>7. CapsOK'
    BY <1>1, <1>2 DEF Sync, CapsOK
<1>8. Releasing(m)'
    BY <1>6, <1>7 DEF Releasing
<1>9. Pending(m + \h80)'
    BY <1>2, KeysOK, BreakPending
<1> QED  BY <1>2, <1>3, <1>4, <1>8, <1>9 DEF KInv, WireState

LEMMA CapslockStep ==
    ASSUME KInv, Capslock
    PROVE  KInv'
<1> DEFINE m == capslock_make
<1>1. /\ Send(Make(m)) /\ down' = down \cup {m} /\ loose' = loose
      /\ IF m \in down THEN repeated' = ~repeated /\ capsOn' = capsOn
                      ELSE capsOn' = ~capsOn /\ repeated' = repeated
    BY Zenon DEF Capslock
<1>2. /\ wire' = Make(m) /\ ext_status' = FALSE /\ Sync /\ PutOK'
      /\ ctrl_status' = ctrl_status /\ shift_status' = shift_status
      /\ alt_status' = alt_status /\ capslock_status' = capslock_status
    BY <1>1, SendStep DEF flags
<1>3. /\ m \in Modifiers /\ m \notin CtrlKeys /\ m \notin ShiftKeys /\ m \notin AltKeys
    BY DEF Modifiers, ShiftKeys, AltKeys, CtrlKeys, shift_l_make, shift_r_make, alt_l_make,
       alt_r_make, ctrl_l_make, ctrl_r_make, capslock_make
<1> HIDE DEF m
<1>4. Bools /\ down' \subseteq Modifiers /\ loose' \subseteq down'
    BY <1>1, <1>3 DEF KInv
<1>5. Bools'
    BY <1>1, <1>2, <1>4 DEF Bools
<1>6. /\ CtrlKeys \cap (down' \ loose') = CtrlKeys \cap (down \ loose)
      /\ ShiftKeys \cap (down' \ loose') = ShiftKeys \cap (down \ loose)
      /\ AltKeys \cap (down' \ loose') = AltKeys \cap (down \ loose)
    BY <1>1, <1>3
<1>7. CtrlOK' /\ ShiftOK' /\ AltOK'
    BY <1>2, <1>6 DEF Held, Sync, CtrlOK, ShiftOK, AltOK
<1>8. (capsOn' # repeated') = (capsOn = repeated)
    BY <1>1, <1>4 DEF Bools
<1>11. capslock_status' = ((capsOn' # repeated') # TRUE)
    BY <1>2, <1>4, <1>8 DEF Sync, CapsOK, Bools
<1>9. Pressing(m)'
    BY <1>3, <1>7, <1>11 DEF Pressing, m
<1>10. Pending(m)'
    BY <1>2, <1>3, KeysOK, MakePending
<1> QED  BY <1>2, <1>3, <1>4, <1>5, <1>9, <1>10 DEF KInv, WireState

LEMMA StrikeStep ==
    ASSUME KInv, NEW k \in PlainKeys \cup ExtKeys, Strike(k)
    PROVE  KInv'
<1>1. (Send(Make(k)) \/ Send(Break(k))) /\ UNCHANGED user
    BY Zenon DEF Strike
<1>2. /\ wire' = Make(k) \/ wire' = Break(k)
      /\ ext_status' = FALSE /\ UNCHANGED flags /\ Sync /\ PutOK'
    BY <1>1, SendStep
<1>3. Sync' /\ Bools' /\ down' \subseteq Modifiers /\ loose' \subseteq down'
    BY <1>1, <1>2, SameFlags, SameBools DEF KInv, user
<1>4. /\ k \in Keys /\ Neutral(k) /\ Neutral(k + \h80)
      /\ k \in Codes /\ k + \h80 \in Codes
    BY KeysOK, KeyBytes
<1>5. Pending(k)' \/ Pending(k + \h80)'
    BY <1>2, <1>4, MakePending, BreakPending
<1>6. WireState'
    BY <1>3, <1>4, <1>5 DEF WireState, Neutral
<1> QED  BY <1>2, <1>3, <1>6 DEF KInv

LEMMA TwoPairs ==
    ASSUME NEW a, NEW b, NEW c, NEW d
    PROVE  <<a, b>> \o <<c, d>> = <<a, b, c, d>>
<1> DEFINE S == {a, b, c, d}
<1>1. <<a, b>> \in Seq(S) /\ <<c, d>> \in Seq(S) /\ <<a, b, c, d>> \in Seq(S)
    OBVIOUS
<1>2. <<a, b>> \o <<c, d>> \in Seq(S) /\ Len(<<a, b>> \o <<c, d>>) = 4
    BY <1>1
<1>3. \A i \in 1 .. 4 : (<<a, b>> \o <<c, d>>)[i] = <<a, b, c, d>>[i]
    BY <1>1
<1> HIDE DEF S
<1> QED  BY <1>1, <1>2, <1>3, SeqEqual

LEMMA ShiftedStrikeStep ==
    ASSUME KInv, NEW k \in ExtKeys, ShiftedStrike(k)
    PROVE  KInv'
<1>1. UNCHANGED user
    BY DEF ShiftedStrike
<1>2. PICK m \in ShiftKeys : \/ Send(Break(Long(m)) \o Make(k))
                             \/ Send(Break(k) \o Make(Long(m)))
    BY DEF ShiftedStrike, Long
<1>3. PICK bytes : /\ Send(bytes)
                    /\ \/ bytes = Break(Long(m)) \o Make(k)
                       \/ bytes = Break(k) \o Make(Long(m))
    BY <1>2, Zenon
<1>4. wire' = bytes /\ ext_status' = FALSE /\ UNCHANGED flags /\ Sync /\ PutOK'
    BY <1>3, SendStep, Zenon
<1>5. Sync' /\ Bools' /\ down' \subseteq Modifiers /\ loose' \subseteq down'
    BY <1>1, <1>4, SameFlags, SameBools DEF KInv, user
<1>6. PICK a, b \in Final : /\ k = Long(a) /\ k + \h80 = Long(b)
                            /\ Make(k) = <<Esc, a>> /\ Break(k) = <<Esc, b>>
    BY ExtBytes
<1>7. /\ m \in Final /\ m + \h80 \in Final
      /\ Make(Long(m)) = <<Esc, m>> /\ Break(Long(m)) = <<Esc, m + \h80>>
    BY ShiftBytes
<1>8. wire' = <<Esc, m + \h80, Esc, a>> \/ wire' = <<Esc, b, Esc, m>>
    BY <1>3, <1>4, <1>6, <1>7, TwoPairs
<1>9. PendingTwo(Long(m + \h80), k)' \/ PendingTwo(k + \h80, Long(m))'
    BY <1>4, <1>6, <1>7, <1>8 DEF PendingTwo
<1>10. /\ k \in Codes /\ k + \h80 \in Codes /\ Neutral(k) /\ Neutral(k + \h80)
      /\ Long(m) \in Codes /\ Neutral(Long(m))
      /\ Long(m + \h80) \in Codes /\ Neutral(Long(m + \h80))
    BY ExtBytes, ShiftBytes
<1>11. WireState'
    BY <1>5, <1>9, <1>10 DEF WireState, Neutral
<1> QED  BY <1>4, <1>5, <1>11 DEF KInv

LEMMA PauseStep ==
    ASSUME KInv, Pause
    PROVE  KInv'
<1>1. /\ Send(<<\he1, \h1d, \h45, \he1, \h9d, \hc5>>) /\ down \cap CtrlKeys = {}
      /\ UNCHANGED user
    BY DEF Pause
<1>2. /\ wire' = <<\he1, \h1d, \h45, \he1, \h9d, \hc5>>
      /\ ext_status' = FALSE /\ UNCHANGED flags /\ Sync /\ PutOK'
    BY <1>1, SendStep
<1>3. Sync' /\ Bools' /\ down' \subseteq Modifiers /\ loose' \subseteq down'
    BY <1>1, <1>2, SameFlags, SameBools DEF KInv, user
<1>4. Pausing'
    BY <1>1, <1>2, <1>3 DEF Pausing, Sync, user
<1> QED  BY <1>2, <1>3, <1>4 DEF KInv, WireState

(***************************************************************************)
(* The theorems                                                            *)
(***************************************************************************)
LEMMA KInvInit == Init => KInv
BY DEF Init, KInv, Bools, PutOK, CharAsTyped, WireState, Sync, Held, CtrlOK, ShiftOK, AltOK, CapsOK

LEMMA KInvNext == KInv /\ [Next]_vars => KInv'
<1> SUFFICES ASSUME KInv, [Next]_vars PROVE KInv'
    OBVIOUS
<1>1. CASE kbd_handler
    BY <1>1, HandlerStep
<1>2. ASSUME NEW m \in Modifiers, Press(m) \/ Release(m) PROVE KInv'
    BY <1>2, PressStep, ReleaseStep
<1>3. ASSUME NEW k \in PlainKeys \cup ExtKeys, Strike(k) \/ ShiftedStrike(k) PROVE KInv'
    <2>1. ShiftedStrike(k) => k \in ExtKeys
        BY DEF ShiftedStrike
    <2> QED  BY <1>3, <2>1, StrikeStep, ShiftedStrikeStep
<1>4. CASE Pause
    BY <1>4, PauseStep
<1>6. CASE Capslock
    BY <1>6, CapslockStep
<1>5. CASE UNCHANGED vars
    <2>1. UNCHANGED <<flags, ext_status, wire, put, user>>
        BY <1>5 DEF vars
    <2>2. /\ Sync' = Sync /\ ShiftOK' = ShiftOK /\ AltOK' = AltOK /\ CapsOK' = CapsOK
          /\ CtrlOK' = CtrlOK
          /\ \A m : Pressing(m)' = Pressing(m) /\ Releasing(m)' = Releasing(m)
        BY <2>1, SameFlags
    <2>3. /\ \A c : Pending(c)' = Pending(c)
          /\ \A c, d : PendingTwo(c, d)' = PendingTwo(c, d)
          /\ Pausing' = Pausing
        BY <2>1, <2>2 DEF Pending, PendingTwo, Pausing, user
    <2>4. WireState'
        BY <2>1, <2>2, <2>3 DEF KInv, WireState, Neutral
    <2>5. Bools'
        BY <2>1, SameBools DEF KInv, Bools
    <2> QED  BY <2>1, <2>4, <2>5 DEF KInv, PutOK, CharAsTyped, user
<1> QED  BY <1>1, <1>2, <1>3, <1>4, <1>5, <1>6 DEF Next

\* What TypeOK calls the type of a byte.
Byte == 0 .. 255

LEMMA KInvImplies == KInv => TypeOK /\ ModifiersAsHeld /\ CharAsTyped
<1> SUFFICES ASSUME KInv PROVE TypeOK /\ ModifiersAsHeld /\ CharAsTyped
    OBVIOUS
<1>1. CharAsTyped
    BY DEF KInv, PutOK
<1>2. ModifiersAsHeld
    BY Idle DEF ModifiersAsHeld, Sync, Held, CtrlOK, ShiftOK, AltOK, CapsOK
<1>3. wire \in Seq(0 .. 255)
    <2>1. ASSUME NEW c, Pending(c) PROVE wire \in Seq(Byte)
        <3>1. Esc \in Byte /\ Final \subseteq Byte
            BY DEF Byte, Esc, Final
        <3>2. PICK b \in Final : wire = <<b>> \/ wire = <<Esc, b>>
            BY <2>1 DEF Pending
        <3>3. <<b>> \in Seq(Byte) /\ <<Esc, b>> \in Seq(Byte)
            BY <3>1
        <3> QED  BY <3>2, <3>3
    <2>2. ASSUME NEW c, NEW d, PendingTwo(c, d) PROVE wire \in Seq(Byte)
        <3>1. Esc \in Byte /\ Final \subseteq Byte
            BY DEF Byte, Esc, Final
        <3>2. PICK a, b \in Final : wire = <<Esc, a, Esc, b>> \/ wire = <<a, Esc, b>>
            BY <2>2 DEF PendingTwo
        <3>3. a \in Byte /\ b \in Byte
            BY <3>1
        <3>4. <<Esc, a, Esc, b>> \in Seq(Byte) /\ <<a, Esc, b>> \in Seq(Byte)
            BY <3>1, <3>3
        <3> QED  BY <3>2, <3>4
    <2>3. ASSUME Pausing PROVE wire \in Seq(Byte)
        <3>1. \he1 \in Byte /\ \h1d \in Byte /\ \h45 \in Byte /\ \h9d \in Byte /\ \hc5 \in Byte
            BY DEF Byte
        <3>2. PICK a, b, c, d, e \in Byte :
                 \/ wire = <<a, b, c, a, d, e>> \/ wire = <<b, c, a, d, e>> \/ wire = <<c, a, d, e>>
                 \/ wire = <<a, d, e>> \/ wire = <<d, e>>
            BY <2>3, <3>1 DEF Pausing
        <3>3. /\ <<a, b, c, a, d, e>> \in Seq(Byte) /\ <<b, c, a, d, e>> \in Seq(Byte)
              /\ <<c, a, d, e>> \in Seq(Byte) /\ <<a, d, e>> \in Seq(Byte) /\ <<d, e>> \in Seq(Byte)
            OBVIOUS
        <3> QED  BY <3>2, <3>3
    <2>4. wire = <<>> => wire \in Seq(Byte)
        OBVIOUS
    <2> QED  BY <2>1, <2>2, <2>3, <2>4 DEF KInv, WireState, Byte
<1>4. TypeOK
    BY <1>3 DEF TypeOK, KInv, Bools, PutOK, flags
<1> QED  BY <1>1, <1>2, <1>4

\* KInv is an invariant of the keyboard.
LEMMA KInvAlways == Spec => []KInv
BY KInvInit, KInvNext, PTL DEF Spec

\* kbd_handler reads only entries of keymap that hold a character, whatever
\* keys are struck in whatever order and wherever an interrupt falls in the
\* bytes of an event.
THEOREM TypeCorrect == Spec => []TypeOK
BY KInvAlways, KInvImplies, PTL

\* A modifier of kbd_handler is on exactly while a key holds it, and no prefix
\* is left over, whatever sequence of presses, repeats and releases of left and
\* right keys, of cursor keys under shift and of pause went before; but for the
\* second of two keys held and for the repeats of capslock.
THEOREM ModifiersAsHeldCorrect == Spec => []ModifiersAsHeld
BY KInvAlways, KInvImplies, PTL

\* Each character that kbd_handler puts into the ring is the one that the shift
\* keys held and capslock ask for, but for the same two cases.
THEOREM CharAsTypedCorrect == Spec => []CharAsTyped
BY KInvAlways, KInvImplies, PTL
=============================================================================
