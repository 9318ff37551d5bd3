------------------------------ MODULE Keyboard ------------------------------
(***************************************************************************)
(* The decoding of scan codes by kbd_handler, src/driver/keyboard.c, and   *)
(* the keyboard that sends them (external: scan code set 1).               *)
(*                                                                         *)
(* A key is named by its make code, with 0xe0 in the upper byte if it is   *)
(* sent with that prefix.  One interrupt reads one byte, so that a key     *)
(* with a prefix takes two interrupts and the state between them is in     *)
(* ext_status.  What becomes of a character is module IoQueue.             *)
(***************************************************************************)
EXTENDS Naturals, Sequences

CONSTANTS PlainKeys,   \* keys sent as one byte, modifiers left out
          ExtKeys      \* keys sent with the prefix, modifiers left out

shift_l_make  == \h2a
shift_r_make  == \h36
alt_l_make    == \h38
alt_r_make    == \he038
ctrl_l_make   == \h1d
ctrl_r_make   == \he01d
capslock_make == \h3a

ShiftKeys == {shift_l_make, shift_r_make}
AltKeys   == {alt_l_make, alt_r_make}
CtrlKeys  == {ctrl_l_make, ctrl_r_make}
Modifiers == ShiftKeys \cup AltKeys \cup CtrlKeys \cup {capslock_make}

ASSUME KeyboardAssumption ==
    /\ PlainKeys \subseteq 1 .. \h58 /\ ExtKeys \subseteq \he001 .. \he05f
    /\ (PlainKeys \cup ExtKeys) \cap Modifiers = {}

VARIABLES
    ctrl_status, shift_status, alt_status, capslock_status, ext_status,
    wire,     \* bytes that the keyboard has sent and no interrupt has read
    put,      \* the entry of keymap that the last interrupt gave to
              \* ioq_putchar, <<index, shift>>, or <<>>
    down,     \* modifier keys held down
    capsOn,   \* capslock has been pressed an odd number of times
    loose,    \* history: keys held whose twin has been released meanwhile
    repeated  \* history: held capslock has been sent again an odd number of
              \* times

flags == <<ctrl_status, shift_status, alt_status, capslock_status>>
user  == <<down, capsOn, loose, repeated>>
vars  == <<flags, ext_status, wire, put, user>>

Init ==
    /\ ctrl_status = FALSE /\ shift_status = FALSE /\ alt_status = FALSE
    /\ capslock_status = FALSE /\ ext_status = FALSE
    /\ wire = <<>> /\ put = <<>>
    /\ down = {} /\ capsOn = FALSE /\ loose = {} /\ repeated = FALSE

(***************************************************************************)
(* kbd_handler                                                             *)
(***************************************************************************)

\* The entries of keymap, and the ones that are char_invisible.
Keymap    == 0 .. \h3a
Invisible == {0, ctrl_l_make, shift_l_make, shift_r_make, alt_l_make, capslock_make}

\* The keys that the handler does not apply capslock to.
ShiftOnly == 1 .. \h0d \cup {\h29, \h1a, \h1b, \h2b, \h27, \h28, \h33, \h34, \h35}

IsBreak(scancode) == scancode % 256 >= \h80

\* Mutant: the prefix is dropped before the comparison.
BreakCode_byte(scancode) ==
    LET make_code == (scancode % 256) - \h80
    IN  /\ IsBreak(scancode)
        /\ ctrl_status' = (ctrl_status /\ make_code \notin CtrlKeys)
        /\ shift_status' = (shift_status /\ make_code \notin ShiftKeys)
        /\ alt_status' = (alt_status /\ make_code \notin AltKeys)
        /\ put' = <<>>
        /\ UNCHANGED capslock_status

\* A key is released: only modifiers matter.
BreakCode(scancode) ==
    LET make_code == scancode - \h80
    IN  /\ IsBreak(scancode)
        /\ ctrl_status' = (ctrl_status /\ make_code \notin CtrlKeys)
        /\ shift_status' = (shift_status /\ make_code \notin ShiftKeys)
        /\ alt_status' = (alt_status /\ make_code \notin AltKeys)
        /\ put' = <<>>
        /\ UNCHANGED capslock_status

\* Mutant: off by one at the end of the table.
Known_over(scancode) == scancode \in 1 .. \h3b \cup {alt_r_make, ctrl_r_make}

Known(scancode) == scancode \in 1 .. \h3a \cup {alt_r_make, ctrl_r_make}

\* A key in the table is pressed.  The prefix is cut off to find its entry;
\* a modifier has an empty one and is told by what is left of its code.
MakeCode(scancode) ==
    LET index == scancode % 256
        shift == IF scancode \in ShiftOnly THEN shift_status
                                           ELSE shift_status # capslock_status
    IN  /\ ~IsBreak(scancode) /\ Known(scancode)
        /\ IF index \notin Invisible
           THEN put' = <<index, shift>> /\ UNCHANGED flags
           ELSE /\ put' = <<>>
                /\ ctrl_status' = (ctrl_status \/ index \in CtrlKeys)
                /\ shift_status' = (shift_status \/ index \in ShiftKeys)
                /\ alt_status' = (alt_status \/ index \in AltKeys)
                /\ capslock_status' = (capslock_status # (index = capslock_make))

\* Any other key: "unknown key" is printed.
OtherCode(scancode) ==
    /\ ~IsBreak(scancode) /\ ~Known(scancode)
    /\ put' = <<>> /\ UNCHANGED flags

\* Mutant: ext_status is not reset.
WholeCode_sticky(byte) ==
    LET scancode == IF ext_status THEN \he000 + byte ELSE byte
    IN  /\ byte # \he0
        /\ BreakCode(scancode) \/ MakeCode(scancode) \/ OtherCode(scancode)
        /\ UNCHANGED ext_status

\* The byte ends a scan code.
WholeCode(byte) ==
    LET scancode == IF ext_status THEN \he000 + byte ELSE byte
    IN  /\ byte # \he0
        /\ BreakCode(scancode) \/ MakeCode(scancode) \/ OtherCode(scancode)
        /\ ext_status' = FALSE

Prefix(byte) ==
    /\ byte = \he0
    /\ ext_status' = TRUE
    /\ put' = <<>> /\ UNCHANGED flags

kbd_handler ==
    /\ wire # <<>>
    /\ Prefix(Head(wire)) \/ WholeCode(Head(wire))
    /\ wire' = Tail(wire)
    /\ UNCHANGED user

(***************************************************************************)
(* The keyboard.  It sends the bytes of an event once the ones of the last *)
(* event have been read.                                                   *)
(***************************************************************************)
Make(k)  == IF k < 256 THEN <<k>> ELSE <<\he0, k % 256>>
Break(k) == IF k < 256 THEN <<k + \h80>> ELSE <<\he0, (k % 256) + \h80>>

Send(bytes) ==
    /\ wire = <<>> /\ wire' = bytes
    /\ put' = <<>> /\ UNCHANGED <<flags, ext_status>>

\* The keys with the flag of m.
Kin(m) == UNION {K \in {ShiftKeys, AltKeys, CtrlKeys} : m \in K}

\* A modifier goes down, or repeats while it is held.
Press(m) ==
    /\ m # capslock_make
    /\ Send(Make(m))
    /\ down' = down \cup {m}
    /\ loose' = loose \ Kin(m)
    /\ UNCHANGED <<capsOn, repeated>>

Release(m) ==
    /\ m \in down
    /\ Send(Break(m))
    /\ down' = down \ {m}
    /\ loose' = (loose \cup (down \cap Kin(m))) \ {m}
    /\ UNCHANGED <<capsOn, repeated>>

\* Capslock goes down; it repeats like any other key.
Capslock ==
    /\ Send(Make(capslock_make))
    /\ down' = down \cup {capslock_make}
    /\ IF capslock_make \in down
       THEN repeated' = ~repeated /\ UNCHANGED capsOn
       ELSE capsOn' = ~capsOn /\ UNCHANGED repeated
    /\ UNCHANGED loose

\* Any other key goes down or up.
Strike(k) ==
    /\ k \in PlainKeys \cup ExtKeys
    /\ Send(Make(k)) \/ Send(Break(k))
    /\ UNCHANGED user

\* Around a cursor key the keyboard takes back a shift key that is held, and
\* then sends it again, both with the prefix.
ShiftedStrike(k) ==
    /\ k \in ExtKeys
    /\ \E m \in down \cap ShiftKeys :
        \/ Send(Break(\he000 + m) \o Make(k))
        \/ Send(Break(k) \o Make(\he000 + m))
    /\ UNCHANGED user

\* The pause key sends a whole press and release with a prefix of its own.
Pause ==
    /\ down \cap CtrlKeys = {}
    /\ Send(<<\he1, \h1d, \h45, \he1, \h9d, \hc5>>)
    /\ UNCHANGED user

Next ==
    \/ kbd_handler
    \/ \E m \in Modifiers : Press(m) \/ Release(m)
    \/ Capslock
    \/ \E k \in PlainKeys \cup ExtKeys : Strike(k) \/ ShiftedStrike(k)
    \/ Pause

Spec == Init /\ [][Next]_vars

(***************************************************************************)
(* Properties                                                              *)
(***************************************************************************)

\* The types, with the bound that the code relies on: whatever byte the
\* keyboard sends in whatever state, the entry read is one of keymap.
TypeOK ==
    /\ flags \in BOOLEAN \X BOOLEAN \X BOOLEAN \X BOOLEAN /\ ext_status \in BOOLEAN
    /\ wire \in Seq(0 .. 255)
    /\ put = <<>> \/ put \in (Keymap \ Invisible) \X BOOLEAN
    /\ down \subseteq Modifiers /\ loose \subseteq down
    /\ capsOn \in BOOLEAN /\ repeated \in BOOLEAN

\* Once the bytes of an event have been read a modifier is on exactly while a
\* key holds it, and no prefix is left over for the next key: left and right
\* keys, the shifts a cursor key brings along and the control key inside the
\* pause sequence neither stick nor get lost.  There are two exceptions: of
\* two keys held for one modifier the release of either turns it off, until
\* the other is pressed again; and capslock toggles whenever it repeats.
ModifiersAsHeld ==
    wire = <<>> =>
        /\ ctrl_status = (CtrlKeys \cap (down \ loose) # {})
        /\ shift_status = (ShiftKeys \cap (down \ loose) # {})
        /\ alt_status = (AltKeys \cap (down \ loose) # {})
        /\ capslock_status = (capsOn # repeated)
        /\ ~ext_status

\* The letters of keymap, and its other keys with two characters.
Letters == \h10 .. \h19 \cup \h1e .. \h26 \cup \h2c .. \h32
Symbols == 2 .. \h0d \cup {\h1a, \h1b, \h27, \h28, \h29, \h2b, \h33, \h34, \h35}

\* A character that is put into the ring is the one the user means: a shift
\* key that is held chooses the upper character, and capslock inverts that
\* for letters only; but for the two exceptions.
CharAsTyped ==
    LET shift == ShiftKeys \cap down # {}
    IN  put # <<>> /\ ShiftKeys \cap loose = {} /\ ~repeated =>
            /\ put[1] \in Letters => put[2] = (shift # capsOn)
            /\ put[1] \in Symbols => put[2] = shift
=============================================================================
