--------------------------- MODULE MCBindingSession ---------------------------
(* BindingSession for TLC: three generations of a one-interval plan, receipts *)
(* of four to six units, an error row of one unit, and a bound that two or    *)
(* three receipts reach.                                                      *)
EXTENDS BindingSession

ReceiptLengthsTried == 4..6
=============================================================================
