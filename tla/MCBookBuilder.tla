--------------------------- MODULE MCBookBuilder ---------------------------
(***************************************************************************)
(* BookBuilder for TLC.  The two references of the tape share the last     *)
(* slot, in a table of four as well as in the table of eight that a third  *)
(* order asks for, and the device's has the slot behind it: chains wrap    *)
(* around the end of the table, and an erase meets entries that may move   *)
(* and entries that may not.                                               *)
(***************************************************************************)
EXTENDS BookBuilder

MCHash == [r \in Refs |-> CASE r = 1 -> 7 [] r = 2 -> 15 [] r = 3 -> 8]
MCAnchorPrices == {None, 12}
MCTapeTerms == Prices \X {MaxShares}
MCOwnTerms == {<<8, 1>>}
MCZeroTerms == {<<8, 0>>}
=============================================================================
