----------------------------- MODULE SegmentScan -----------------------------
(***************************************************************************)
(* The loops of CachedObject and ranges_to_fetch (case-search/src/store.rs)*)
(* step by step, over every cache that any sequence of inserts can build.  *)
(* The state machine inserts arbitrary segments, overlapping ones and ones *)
(* of other versions included, next to a plain record of which byte was    *)
(* written last at each offset; the properties hold the loops, the set     *)
(* operators of SegmentMap and that record against each other.             *)
(***************************************************************************)
EXTENDS SegmentMap, Lists

CONSTANTS
    Length, \* bound: the object has offsets 0 .. Length - 1
    Stamps  \* the bytes that are written

VARIABLES
    segments, \* the cache
    written   \* written[o]: the byte inserted last at offset o

scanVars == <<segments, written>>

-----------------------------------------------------------------------------
InOrder(offsets) == Ascending(offsets)

(* CachedObject::missing: a cursor walks over the segments that overlap    *)
(* the range.                                                              *)
ScanMissing(segs, range) ==
    LET first == IF UpTo(segs, range.start) = {} THEN range.start
                 ELSE Max(UpTo(segs, range.start))
        step(walk, s) ==
            [cursor |-> Max({walk.cursor, segs[s].end}),
             gaps   |-> IF s > walk.cursor THEN Append(walk.gaps, Span(walk.cursor, s))
                        ELSE walk.gaps]
        walk == FoldLeft(step, [cursor |-> range.start, gaps |-> << >>],
                         InOrder({s \in DOMAIN segs : first <= s /\ s < range.end}))
    IN  IF walk.cursor < range.end THEN Append(walk.gaps, Span(walk.cursor, range.end))
        ELSE walk.gaps

(* Mutant: the gaps are not sorted before they are merged. *)
ScanToFetchUnsorted(segs, ranges) ==
    LET gaps == FlattenSeq([i \in 1 .. Len(ranges) |-> ScanMissing(segs, ranges[i])])
        joins(last, gap) ==
            \/ gap.start <= last.end
            \/ gap.start - last.end <= CoalesceGap /\ IsUncached(segs, Span(last.end, gap.start))
        step(merged, gap) ==
            IF merged # << >> /\ joins(Last(merged), gap)
            THEN [merged EXCEPT ![Len(merged)].end = Max({@, gap.end})]
            ELSE Append(merged, gap)
    IN  FoldLeft(step, << >>, gaps)

(* ranges_to_fetch: the gaps of all ranges, sorted by their start, each    *)
(* merged into the last request when it overlaps or touches it, or when    *)
(* the bytes between them are few and not cached.                          *)
ScanToFetch(segs, ranges) ==
    LET gaps == FlattenSeq([i \in 1 .. Len(ranges) |-> ScanMissing(segs, ranges[i])])
        joins(last, gap) ==
            \/ gap.start <= last.end
            \/ /\ gap.start - last.end <= CoalesceGap
               /\ IsUncached(segs, Span(last.end, gap.start))
        step(merged, gap) ==
            IF merged # << >> /\ joins(Last(merged), gap)
            THEN [merged EXCEPT ![Len(merged)].end = Max({@, gap.end})]
            ELSE Append(merged, gap)
    IN  FoldLeft(step, << >>, Sorted(gaps, [i \in DOMAIN gaps |-> gaps[i].start]))

-----------------------------------------------------------------------------
Ranges == {range \in [start : 0 .. Length, end : 0 .. Length] : range.start < range.end}

ScanInit == segments = EmptyMap /\ written = [o \in {} |-> 0]

Write(range, stamp) ==
    /\ segments' = Insert(segments, range.start,
                          [end |-> range.end, at |-> [o \in Offsets(range) |-> stamp]])
    /\ written' = [o \in DOMAIN written \cup Offsets(range) |->
                      IF o \in Offsets(range) THEN stamp ELSE written[o]]

ScanNext == \E range \in Ranges, stamp \in Stamps : Write(range, stamp)

ScanSpec == ScanInit /\ [][ScanNext]_scanVars

-----------------------------------------------------------------------------
(* Properties.                                                             *)

(* slice and is_uncached look at one segment only, and still decide for    *)
(* the whole range: it is held where it was written, as it was written     *)
(* last.                                                                   *)
LookupsDecide ==
    \A range \in Ranges :
        /\ HasSlice(segments, range) <=> Offsets(range) \subseteq DOMAIN written
        /\ HasSlice(segments, range) => Slice(segments, range) = Restrict(written, Offsets(range))
        /\ IsUncached(segments, range) <=> Offsets(range) \cap DOMAIN written = {}

(* Whatever is inserted in whatever order, the cache holds exactly the     *)
(* last byte inserted at each offset, in segments that neither overlap nor *)
(* touch, and none of the zeros its merge buffer starts with; and a lookup *)
(* of any range finds it.                                                  *)
CacheIsLastWritten ==
    /\ WellFormed(segments) /\ Separated(segments)
    /\ Content(segments) = {<<o, written[o]>> : o \in DOMAIN written}
    /\ LookupsDecide

(* The cursor walk of missing leaves exactly the gaps of the range, in     *)
(* order, and the merge loop of ranges_to_fetch exactly the runs of the    *)
(* bytes needed and bridged, whatever the order and the overlap of ranges. *)
ScansAreExact ==
    \A a \in Ranges :
        LET scan == ScanMissing(segments, a)
        IN  /\ ToSet(scan) = Missing(segments, a)
            /\ \A i \in 1 .. Len(scan) - 1 : scan[i].end < scan[i + 1].start
            /\ \A b \in Ranges :
                ToSet(ScanToFetch(segments, <<a, b>>)) = RangesToFetch(segments, {a, b})

(* A plan fetches every byte that is asked for and not cached and none     *)
(* that is cached, wastes no more than short gaps, and never sends two     *)
(* requests where one could bridge the gap.                                *)
PlansAreTight ==
    \A a, b \in Ranges :
        LET plan == RangesToFetch(segments, {a, b})
            fetched == UNION {Offsets(p) : p \in plan}
            asked == Offsets(a) \cup Offsets(b)
        IN  /\ asked \ DOMAIN written \subseteq fetched
            /\ fetched \cap DOMAIN written = {}
            /\ \A p, q \in plan : p.end <= q.start =>
                  \/ q.start - p.end > CoalesceGap
                  \/ \E o \in p.end .. (q.start - 1) : o \in DOMAIN written
            /\ \A p \in plan : {p.start, p.end - 1} \subseteq asked
=============================================================================
