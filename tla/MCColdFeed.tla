----------------------------- MODULE MCColdFeed -----------------------------
(***************************************************************************)
(* ColdFeed for TLC: stock 1 is hot, stock 2 is cold.  The tapes have a    *)
(* day's start in the middle and directory messages before and behind it.  *)
(***************************************************************************)
EXTENDS ColdFeed

M(type, locate) == [type |-> type, locate |-> locate]

MCTapes ==
  {<<M("R", 1), M("A", 1), M("A", 2), M("S", 0)>>,
   <<M("A", 2), M("S", 0), M("R", 1), M("A", 1)>>,
   <<M("A", 1), M("R", 1), M("H", 2), M("A", 2)>>,
   <<M("A", 2), M("A", 2), M("S", 0), M("A", 2)>>}
=============================================================================
