----------------------------- MODULE MCConsole -----------------------------
(* Texts that wrap, feed a line, go back and tab on a screen of two lines. *)
EXTENDS Console

MCTexts   == {<<"TAB", "c">>, <<"NL">>}
MCKeyText == <<"BS", "CR">>
=============================================================================
