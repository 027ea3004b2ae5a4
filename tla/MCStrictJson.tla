----------------------------- MODULE MCStrictJson -----------------------------
(* StrictJson against JsonGrammar for TLC: every text of up to four nodes     *)
(* nested up to three deep, over two strings, a number and a misspelt one.    *)
EXTENDS JsonGrammar
=============================================================================
