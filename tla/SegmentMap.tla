----------------------------- MODULE SegmentMap -----------------------------
(***************************************************************************)
(* The byte cache of one remote object: `segments` of CachedObject in      *)
(* case-search/src/store.rs, a BTreeMap from the offset where a segment    *)
(* starts to its bytes.                                                    *)
(*                                                                         *)
(* Here a segment map is a function from start offsets to records          *)
(*     [end |-> first offset after the segment, at |-> [start..end-1 -> B]]*)
(* so a byte is looked up by its offset in the object instead of by its    *)
(* offset in the segment.  Byte ranges are half open, as Range<u64> is.    *)
(*                                                                         *)
(* Every operator is pure and none is recursive: the loops of the source   *)
(* are stated here by the set of ranges they leave behind; module          *)
(* SegmentScan keeps the loops themselves and TLC compares the two.        *)
(***************************************************************************)
EXTENDS Integers, FiniteSets, FiniteSetsExt, ByteRanges

CONSTANTS
    Hole,       \* what `vec![0; n]` leaves where no segment was copied
    CoalesceGap \* COALESCE_GAP_BYTES

ASSUME CoalesceGapIsNat == CoalesceGap \in Nat

-----------------------------------------------------------------------------
EmptyMap == [s \in {} |-> [end |-> 0, at |-> << >>]]

(* The segments whose start is at most o: segments.range(..=o). *)
UpTo(segs, o) == {s \in DOMAIN segs : s <= o}

(* The offsets of the object that are held, and with which byte. *)
Cached(segs) == UNION {s .. (segs[s].end - 1) : s \in DOMAIN segs}
Content(segs) == UNION {{<<o, segs[s].at[o]>> : o \in s .. (segs[s].end - 1)} : s \in DOMAIN segs}

-----------------------------------------------------------------------------
(* CachedObject::slice: only the segment with the greatest start that is   *)
(* not after the range is looked at, and it has to reach the range's end.  *)
HasSlice(segs, range) ==
    /\ UpTo(segs, range.start) # {}
    /\ range.end <= segs[Max(UpTo(segs, range.start))].end

(* Mutant: the offset of the segment in the object is not subtracted. *)
SliceFromSegmentStart(segs, range) ==
    [o \in Offsets(range) |->
        LET s == Max(UpTo(segs, range.start)) IN segs[s].at[s + (o - range.start)]]

Slice(segs, range) ==
    [o \in Offsets(range) |-> segs[Max(UpTo(segs, range.start))].at[o]]

(* CachedObject::is_uncached: the last segment that starts before the end  *)
(* of the range ends before the range.                                     *)
IsUncached(segs, range) ==
    LET before == UpTo(segs, range.end - 1)
    IN  before # {} => segs[Max(before)].end <= range.start

(* CachedObject::missing: the gaps of a range.  A gap starts at the        *)
(* range's start or where a segment ends, and ends where a segment starts  *)
(* or at the range's end.                                                  *)
Missing(segs, range) ==
    {gap \in [start : {range.start} \cup {segs[s].end : s \in DOMAIN segs},
              end   : {range.end} \cup DOMAIN segs] :
        /\ range.start <= gap.start /\ gap.start < gap.end /\ gap.end <= range.end
        /\ Offsets(gap) \cap Cached(segs) = {}}

(* Mutant: the segment right after is not merged. *)
TouchingBefore(segs, start, new) == {s \in DOMAIN segs : s < new.end /\ segs[s].end >= start}

(* CachedObject::insert: every segment that overlaps or touches the new    *)
(* one is merged with it into one buffer of zeros, first the old segments  *)
(* in order, the new bytes last.                                           *)
Touching(segs, start, new) == {s \in DOMAIN segs : s <= new.end /\ segs[s].end >= start}

MergedStart(segs, start, new) == Min(Touching(segs, start, new) \cup {start})

(* Mutant: a segment that reaches further than the new one is cut off. *)
MergedEndOfNew(segs, start, new) == new.end

MergedEnd(segs, start, new) ==
    Max({segs[s].end : s \in Touching(segs, start, new)} \cup {new.end})

(* Mutant: the new bytes are copied first. *)
MergedByteOldLast(segs, start, new, o) ==
    LET over == {s \in Touching(segs, start, new) : s <= o /\ o < segs[s].end}
    IN  IF over # {} THEN segs[Max(over)].at[o] ELSE IF start <= o /\ o < new.end THEN new.at[o] ELSE Hole

MergedByte(segs, start, new, o) ==
    LET over == {s \in Touching(segs, start, new) : s <= o /\ o < segs[s].end}
    IN  IF start <= o /\ o < new.end THEN new.at[o]
        ELSE IF over # {} THEN segs[Max(over)].at[o] ELSE Hole

Insert(segs, start, new) ==
    LET first == MergedStart(segs, start, new)
        last  == MergedEnd(segs, start, new)
    IN  [s \in (DOMAIN segs \ Touching(segs, start, new)) \cup {first} |->
            IF s = first
            THEN [end |-> last,
                  at  |-> [o \in first .. (last - 1) |-> MergedByte(segs, start, new, o)]]
            ELSE segs[s]]

-----------------------------------------------------------------------------
(* HttpRangeStore::ranges_to_fetch, for an object that is registered.      *)

(* Mutant: a range that is cached in part is taken for cached. *)
NeededOfUncached(segs, ranges) ==
    UNION {Offsets(range) : range \in {x \in ranges : IsUncached(segs, x)}}

(* The bytes asked for and not held. *)
Needed(segs, ranges) ==
    UNION {Offsets(gap) : gap \in UNION {Missing(segs, range) : range \in ranges}}

(* Mutant: cached bytes in the gap are fetched again. *)
BridgedBlindly(segs, ranges) ==
    LET gaps == UNION {Missing(segs, range) : range \in ranges}
        between == {Span(left.end, right.start) : left \in gaps, right \in gaps}
    IN  UNION {Offsets(hop) : hop \in {h \in between :
                  h.start < h.end /\ h.end - h.start <= CoalesceGap}}

(* A gap between two needed runs is fetched along with them when it is     *)
(* short and no byte of it is held.                                        *)
Bridged(segs, ranges) ==
    LET gaps == UNION {Missing(segs, range) : range \in ranges}
        between == {Span(left.end, right.start) : left \in gaps, right \in gaps}
    IN  UNION {Offsets(hop) : hop \in {h \in between :
                  /\ h.start < h.end
                  /\ h.end - h.start <= CoalesceGap
                  /\ IsUncached(segs, h)}}

(* The maximal runs of a set of offsets, as ranges. *)
Runs(offsets) ==
    {run \in [start : offsets, end : {o + 1 : o \in offsets}] :
        /\ run.start < run.end
        /\ Offsets(run) \subseteq offsets
        /\ run.start - 1 \notin offsets /\ run.end \notin offsets}

RangesToFetch(segs, ranges) == Runs(Needed(segs, ranges) \cup Bridged(segs, ranges))

-----------------------------------------------------------------------------
(* What `segments` must be at all times (store.rs: "Segments never overlap *)
(* or touch"), with the bytes each segment claims to have.                 *)

WellFormed(segs) ==
    \A s \in DOMAIN segs :
        /\ s \in Nat /\ segs[s].end \in Nat /\ s < segs[s].end
        /\ DOMAIN segs[s].at = s .. (segs[s].end - 1)

Separated(segs) ==
    \A s, t \in DOMAIN segs : s < t => segs[s].end < t
=============================================================================
