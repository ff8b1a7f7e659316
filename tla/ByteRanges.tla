----------------------------- MODULE ByteRanges -----------------------------
(***************************************************************************)
(* Half-open byte ranges, and the ranges a read of the object store stands *)
(* for: get_opts resolves the GetRange of its options against the size of  *)
(* the object, get_ranges takes its ranges as they are.                    *)
(***************************************************************************)
EXTENDS Integers, FiniteSetsExt

Span(a, b) == [start |-> a, end |-> b]

Offsets(range) == range.start .. (range.end - 1)

(* GetRange::as_range refuses an empty bounded range and a start at or     *)
(* past the end of the object.                                             *)
InRange(c, size) ==
    /\ c.op = "bounded" => c.range.start < c.range.end /\ c.range.start < size
    /\ c.op = "offset"  => c.range.start < size

(* The length of a suffix is the end of its range field.  A head request   *)
(* reads the empty range.                                                  *)
RangesOf(c, size) ==
    LET start == IF c.op = "suffix" THEN Max({0, size - c.range.end})
                 ELSE IF c.op \in {"head", "whole"} THEN 0 ELSE c.range.start
        end == IF c.op = "head" THEN 0
               ELSE IF c.op = "bounded" THEN Min({c.range.end, size}) ELSE size
    IN  IF c.op = "ranges" THEN c.ranges ELSE {Span(start, end)}

NonEmpty(ranges) == {range \in ranges : range.start < range.end}
=============================================================================
