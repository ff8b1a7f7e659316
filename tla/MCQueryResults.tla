--------------------------- MODULE MCQueryResults ---------------------------
(***************************************************************************)
(* A query of three batches: the first is read from two ranges, one of     *)
(* them asked for twice, the second from the other one and a new one, and  *)
(* the third from nothing new.  The other reader wants what the second     *)
(* batch needs.  The CSV writer refuses the third batch.                   *)
(***************************************************************************)
EXTENDS QueryResults

ThreeBatches == <<2, 1, 2>>
OverlappingRanges == <<<<"r", "r">>, <<"r", "s">>, <<"s">>>>
ThirdIsNoCsv == [csv |-> {3}, parquet |-> {}]
SomeOtherReads == {<<"s">>, <<"s", "r">>}
=============================================================================
