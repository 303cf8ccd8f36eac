--------------------------- MODULE MCCharacterCache ---------------------------
EXTENDS CharacterCache

(* Of "a" two fit or one with a "b"; no two of "b"; "c" is too large. *)
MCSize == [a |-> 1, b |-> 3, c |-> 5]
MCTexts == DOMAIN MCSize
===============================================================================
