------------------------------ MODULE MCVideo ------------------------------
(***************************************************************************)
(* The instance of the text console TLC checks: a screen of two rows of    *)
(* two characters, and a string that fills more than a row.                *)
(***************************************************************************)
EXTENDS Video

MCChars   == {NEWLINE, BACKSPACE, 40}
MCStrings == {<<40, 40, 40>>}
=============================================================================
