----------------------------- MODULE MCKeyboard -----------------------------
(* Every key of a 102-key keyboard that is sent as one byte, and with the   *)
(* prefix the ones whose second byte is that of a key in the table (0x1c,   *)
(* 0x35, 0x37) and some whose second byte is not.                           *)
EXTENDS Keyboard

MCPlainKeys == (1 .. \h58) \ Modifiers
MCExtKeys   == {\he01c, \he035, \he037, \he047, \he048, \he04b, \he050, \he053, \he05b}
=============================================================================
