------------------------ MODULE HttpRangeStoreProofs ------------------------
(***************************************************************************)
(* The safety of the object store for every number of readers, every file, *)
(* every sequence of republications and every server mode: the cached      *)
(* segments stay apart, and when the object is opened by a first read of   *)
(* its own, no byte of another version is ever cached or returned.  Of the *)
(* cache itself: it holds what was written last, plans waste nothing, and  *)
(* the loops of the source compute the sets that the models plan with.     *)
(***************************************************************************)
EXTENDS HttpRangeStore, SegmentScan, SequenceFacts

(***************************************************************************)
(* What the operators of SegmentMap preserve, for every cache and every    *)
(* response: the facts the store's invariants rest on.                     *)
(***************************************************************************)

-----------------------------------------------------------------------------
(* Minima and maxima of sets of offsets.                                   *)

LEMMA MaxIsGreatest ==
    ASSUME NEW S \in SUBSET Nat, S # {}, NEW bound \in Nat, \A x \in S : x <= bound
    PROVE  Max(S) \in S /\ \A x \in S : x <= Max(S)
<1> DEFINE T == {d \in Nat : \E x \in S : d = bound - x}
<1>1. T \in SUBSET Nat /\ T # {}
    <2>1. PICK x \in S : TRUE
        OBVIOUS
    <2>2. bound - x \in T
        BY <2>1
    <2> QED BY <2>2
<1>2. PICK d \in T : \A e \in T : d <= e
    BY <1>1, NatSetHasLeast
<1>3. PICK x \in S : d = bound - x
    BY <1>2
<1>4. \A y \in S : bound - y \in T
    BY SMT
<1>5. \A y \in S : y <= x
    BY <1>2, <1>3, <1>4, SMT
<1> QED BY <1>5 DEF Max

LEMMA MaxEquals ==
    ASSUME NEW S \in SUBSET Nat, NEW m \in S, \A x \in S : x <= m
    PROVE  Max(S) = m
<1>1. \A x \in S : (\A y \in S : x >= y) => x = m
    BY SMT
<1>2. \A y \in S : m >= y
    BY SMT
<1> QED BY <1>1, <1>2 DEF Max
-----------------------------------------------------------------------------
(* CachedObject::insert.                                                   *)

(* The merged buffer starts at the first and ends at the last byte of the  *)
(* segments it is made of; only the touching segment that starts last can  *)
(* end after the new bytes.                                                *)
LEMMA MergedBounds ==
    ASSUME NEW segs, WellFormed(segs), Separated(segs),
           NEW start \in Nat, NEW new, new.end \in Nat, start < new.end
    PROVE  LET touching == Touching(segs, start, new)
               first == MergedStart(segs, start, new)
               last  == MergedEnd(segs, start, new)
           IN  /\ first \in Nat /\ last \in Nat
               /\ first <= start /\ new.end <= last
               /\ first = start \/ first \in touching
               /\ last = new.end \/ \E s \in touching : last = segs[s].end
               /\ \A s \in touching : first <= s /\ segs[s].end <= last
<1> DEFINE touching == Touching(segs, start, new)
           first == MergedStart(segs, start, new)
           last  == MergedEnd(segs, start, new)
           ends  == {segs[s].end : s \in touching}
<1>1. touching \subseteq DOMAIN segs /\ touching \in SUBSET Nat /\ ends \in SUBSET Nat
    BY DEF Touching, WellFormed
<1>2. /\ first \in touching \cup {start}
      /\ \A x \in touching \cup {start} : first <= x
    BY <1>1, MinIsLeast DEF MergedStart
<1>3. /\ last \in ends \cup {new.end}
      /\ \A x \in ends \cup {new.end} : x <= last
    <2>1. CASE touching = {}
        <3>1. ends \cup {new.end} = {new.end} /\ {new.end} \in SUBSET Nat
            BY <2>1
        <3>2. Max({new.end}) \in {new.end} /\ \A x \in {new.end} : x <= Max({new.end})
            BY <3>1, MaxIsGreatest
        <3>3. last = Max({new.end})
            BY <3>1 DEF MergedEnd
        <3> QED BY <3>1, <3>2, <3>3
    <2>2. CASE touching # {}
        <3> DEFINE m == Max(touching)
        <3>1. \A s \in touching : s <= new.end
            BY DEF Touching
        <3>2. m \in touching /\ \A s \in touching : s <= m
            BY <1>1, <2>2, <3>1, MaxIsGreatest
        <3>3. \A s \in touching : s # m => segs[s].end < m
            BY <1>1, <3>2 DEF Separated
        <3>4. \A s \in touching : segs[s].end <= segs[m].end
            BY <1>1, <3>2, <3>3 DEF WellFormed
        <3> HIDE DEF m
        <3>5. PICK bound \in Nat : segs[m].end <= bound /\ new.end <= bound
            <4>1. segs[m].end + new.end \in Nat /\ segs[m].end \in Nat
                BY <1>1, <3>2
            <4> QED BY <4>1
        <3>6. \A x \in ends \cup {new.end} : x <= bound
            BY <1>1, <3>2, <3>4, <3>5
        <3> QED BY <1>1, <3>6, MaxIsGreatest DEF MergedEnd
    <2> QED BY <2>1, <2>2
<1> HIDE DEF first, last
<1>4. first \in Nat /\ last \in Nat
    BY <1>1, <1>2, <1>3
<1> QED BY <1>1, <1>2, <1>3, <1>4 DEF first, last

(* What insert leaves: the segments that were not touched, and the merged  *)
(* one.                                                                    *)
LEMMA InsertShape ==
    ASSUME NEW segs, WellFormed(segs), Separated(segs),
           NEW start \in Nat, NEW new, new.end \in Nat, start < new.end
    PROVE  LET touching == Touching(segs, start, new)
               first == MergedStart(segs, start, new)
               last  == MergedEnd(segs, start, new)
               map   == Insert(segs, start, new)
           IN  /\ DOMAIN map = (DOMAIN segs \ touching) \cup {first}
               /\ map[first].end = last
               /\ DOMAIN map[first].at = first .. (last - 1)
               /\ \A o \in first .. (last - 1) :
                     map[first].at[o] = MergedByte(segs, start, new, o)
               /\ \A s \in DOMAIN segs \ touching : s # first /\ map[s] = segs[s]
<1> DEFINE touching == Touching(segs, start, new)
           first == MergedStart(segs, start, new)
           last  == MergedEnd(segs, start, new)
           map   == Insert(segs, start, new)
           merged == [end |-> last,
                      at  |-> [o \in first .. (last - 1) |-> MergedByte(segs, start, new, o)]]
<1>1. map = [s \in (DOMAIN segs \ touching) \cup {first} |->
                IF s = first THEN merged ELSE segs[s]]
    BY DEF Insert
<1>2. \A s \in DOMAIN segs \ touching : s # first
    <2>1. first = start \/ first \in touching
        BY MergedBounds
    <2>2. \A s \in DOMAIN segs : s = start => s \in touching
        BY DEF WellFormed, Touching
    <2> QED BY <2>1, <2>2
<1> HIDE DEF first, last, map, touching
<1>3. /\ DOMAIN map = (DOMAIN segs \ touching) \cup {first}
      /\ map[first] = merged
      /\ \A s \in DOMAIN segs \ touching : s # first /\ map[s] = segs[s]
    BY <1>1, <1>2
<1> QED BY <1>3 DEF first, last, map, touching

(* A segment that is not touched lies wholly before or after the merged    *)
(* one, with a gap.                                                        *)
LEMMA InsertSeparates ==
    ASSUME NEW segs, WellFormed(segs), Separated(segs),
           NEW start \in Nat, NEW new, new.end \in Nat, start < new.end
    PROVE  WellFormed(Insert(segs, start, new)) /\ Separated(Insert(segs, start, new))
<1> DEFINE touching == Touching(segs, start, new)
           first == MergedStart(segs, start, new)
           last  == MergedEnd(segs, start, new)
           map   == Insert(segs, start, new)
<1>1. /\ DOMAIN map = (DOMAIN segs \ touching) \cup {first}
      /\ map[first].end = last
      /\ DOMAIN map[first].at = first .. (last - 1)
      /\ \A s \in DOMAIN segs \ touching : s # first /\ map[s] = segs[s]
    BY InsertShape, ZenonT(30)
<1>2. /\ first \in Nat /\ last \in Nat
      /\ first <= start /\ new.end <= last
      /\ first = start \/ first \in touching
      /\ last = new.end \/ \E s \in touching : last = segs[s].end
    BY MergedBounds
<1>3. touching = {s \in DOMAIN segs : s <= new.end /\ segs[s].end >= start}
    BY DEF Touching
<1> HIDE DEF first, last, map, touching
<1>4. WellFormed(map)
    <2> SUFFICES ASSUME NEW s \in DOMAIN map
                 PROVE  /\ s \in Nat /\ map[s].end \in Nat /\ s < map[s].end
                        /\ DOMAIN map[s].at = s .. (map[s].end - 1)
        BY DEF WellFormed
    <2>1. CASE s = first
        BY <1>1, <1>2, <2>1
    <2>2. CASE s \in DOMAIN segs \ touching
        BY <1>1, <2>2 DEF WellFormed
    <2> QED BY <1>1, <2>1, <2>2
<1>5. Separated(map)
    <2> SUFFICES ASSUME NEW s \in DOMAIN map, NEW t \in DOMAIN map, s < t
                 PROVE  map[s].end < t
        BY DEF Separated
    <2>1. CASE s \in DOMAIN segs \ touching /\ t \in DOMAIN segs \ touching
        BY <1>1, <2>1 DEF Separated
    <2>2. CASE s \in DOMAIN segs \ touching /\ t = first
        <3>1. segs[s].end < start
            BY <1>2, <1>3, <2>2 DEF WellFormed
        <3>2. first \in touching => segs[s].end < first
            BY <1>3, <2>2 DEF Separated
        <3> QED BY <1>1, <1>2, <2>2, <3>1, <3>2
    <2>3. CASE s = first /\ t \in DOMAIN segs \ touching
        <3>1. t \in Nat /\ segs[t].end \in Nat /\ t < segs[t].end
            BY <2>3 DEF WellFormed
        <3>2. first \in touching => segs[first].end < t /\ segs[first].end >= start /\ segs[first].end \in Nat
            BY <1>3, <2>3 DEF Separated, WellFormed
        <3>3. new.end < t
            BY <1>2, <1>3, <2>3, <3>1, <3>2
        <3>4. \A u \in touching : segs[u].end < t
            BY <1>3, <2>3, <3>1, <3>3 DEF Separated, WellFormed
        <3> QED BY <1>1, <1>2, <2>3, <3>3, <3>4
    <2>4. CASE s = first /\ t = first
        BY <1>2, <2>4
    <2> QED BY <1>1, <2>1, <2>2, <2>3, <2>4
<1> QED BY <1>4, <1>5 DEF map

(* Every byte of the merged segment is one of the new bytes or a byte that *)
(* was cached at that offset: the zeros of the buffer are all overwritten. *)
LEMMA InsertAddsNothingElse ==
    ASSUME NEW segs, WellFormed(segs), Separated(segs),
           NEW start \in Nat, NEW new, new.end \in Nat, start < new.end,
           NEW entry \in Content(Insert(segs, start, new))
    PROVE  \/ entry \in Content(segs)
           \/ \E o \in start .. (new.end - 1) : entry = <<o, new.at[o]>>
<1> DEFINE touching == Touching(segs, start, new)
           first == MergedStart(segs, start, new)
           last  == MergedEnd(segs, start, new)
           map   == Insert(segs, start, new)
<1>1. /\ DOMAIN map = (DOMAIN segs \ touching) \cup {first}
      /\ map[first].end = last
      /\ DOMAIN map[first].at = first .. (last - 1)
      /\ \A o \in first .. (last - 1) : map[first].at[o] = MergedByte(segs, start, new, o)
      /\ \A s \in DOMAIN segs \ touching : s # first /\ map[s] = segs[s]
    BY InsertShape
<1>2. /\ first \in Nat /\ last \in Nat
      /\ first <= start /\ new.end <= last
      /\ first = start \/ first \in touching
      /\ last = new.end \/ \E s \in touching : last = segs[s].end
    BY MergedBounds
<1>3. touching = {s \in DOMAIN segs : s <= new.end /\ segs[s].end >= start}
    BY DEF Touching
<1>4. PICK s \in DOMAIN map : \E o \in s .. (map[s].end - 1) : entry = <<o, map[s].at[o]>>
    BY DEF Content
<1>5. PICK o \in s .. (map[s].end - 1) : entry = <<o, map[s].at[o]>>
    BY <1>4
<1> HIDE DEF first, last, map, touching
<1>6. CASE s \in DOMAIN segs \ touching
    BY <1>1, <1>6, <1>5 DEF Content
<1>7. CASE s = first
    <2> DEFINE over == {t \in touching : t <= o /\ o < segs[t].end}
    <2>1. o \in Nat /\ first <= o /\ o < last /\ entry = <<o, MergedByte(segs, start, new, o)>>
        BY <1>1, <1>2, <1>7, <1>5
    <2>2. CASE start <= o /\ o < new.end
        <3>1. MergedByte(segs, start, new, o) = new.at[o]
            BY <2>2 DEF MergedByte
        <3> QED BY <2>1, <2>2, <3>1
    <2>3. CASE ~(start <= o /\ o < new.end)
        <3>1. over # {}
            <4>1. CASE o < start
                <5>1. first \in touching /\ segs[first].end >= start /\ segs[first].end \in Nat
                    BY <1>2, <1>3, <2>1, <4>1 DEF WellFormed
                <5>2. first \in over
                    BY <1>2, <2>1, <4>1, <5>1
                <5> QED BY <5>2
            <4>2. CASE new.end <= o
                <5>1. PICK t \in touching : last = segs[t].end
                    BY <1>2, <2>1, <4>2
                <5>2. t \in over
                    BY <1>2, <1>3, <2>1, <4>2, <5>1 DEF WellFormed
                <5> QED BY <5>2
            <4> QED BY <2>1, <2>3, <4>1, <4>2
        <3>2. over \in SUBSET Nat /\ \A t \in over : t <= o
            BY <1>3 DEF WellFormed
        <3>3. Max(over) \in over
            BY <2>1, <3>1, <3>2, MaxIsGreatest
        <3>4. MergedByte(segs, start, new, o) = segs[Max(over)].at[o]
            BY <2>1, <2>3, <3>1 DEF MergedByte, touching
        <3>5. PICK t \in touching : /\ t <= o /\ o < segs[t].end
                                    /\ entry = <<o, segs[t].at[o]>>
            BY <2>1, <3>3, <3>4
        <3>6. t \in DOMAIN segs /\ o \in t .. (segs[t].end - 1)
            BY <1>3, <2>1, <3>5 DEF WellFormed
        <3> QED BY <3>5, <3>6 DEF Content
    <2> QED BY <2>2, <2>3
<1> QED BY <1>1, <1>4, <1>6, <1>7

(* Every byte that was cached is still cached, unless one of the new bytes *)
(* is another one; and every new byte is cached.                           *)
LEMMA InsertKeeps ==
    ASSUME NEW segs, WellFormed(segs), Separated(segs),
           NEW start \in Nat, NEW new, new.end \in Nat, start < new.end
    PROVE  /\ \A o \in start .. (new.end - 1) :
                 <<o, new.at[o]>> \in Content(Insert(segs, start, new))
           /\ \A s \in DOMAIN segs : \A o \in s .. (segs[s].end - 1) :
                 (start <= o /\ o < new.end => new.at[o] = segs[s].at[o])
                 => <<o, segs[s].at[o]>> \in Content(Insert(segs, start, new))
<1> DEFINE touching == Touching(segs, start, new)
           first == MergedStart(segs, start, new)
           last  == MergedEnd(segs, start, new)
           map   == Insert(segs, start, new)
<1>1. /\ DOMAIN map = (DOMAIN segs \ touching) \cup {first}
      /\ map[first].end = last
      /\ DOMAIN map[first].at = first .. (last - 1)
      /\ \A o \in first .. (last - 1) : map[first].at[o] = MergedByte(segs, start, new, o)
      /\ \A s \in DOMAIN segs \ touching : s # first /\ map[s] = segs[s]
    BY InsertShape
<1>2. /\ first \in Nat /\ last \in Nat
      /\ first <= start /\ new.end <= last
      /\ first = start \/ first \in touching
      /\ last = new.end \/ \E s \in touching : last = segs[s].end
      /\ \A s \in touching : first <= s /\ segs[s].end <= last
    BY MergedBounds
<1>3. touching = {s \in DOMAIN segs : s <= new.end /\ segs[s].end >= start}
    BY DEF Touching
<1> HIDE DEF first, last, map, touching
<1>4. \A o \in first .. (last - 1) : <<o, MergedByte(segs, start, new, o)>> \in Content(map)
    BY <1>1 DEF Content
<1>5. \A o \in start .. (new.end - 1) : <<o, new.at[o]>> \in Content(map)
    <2> TAKE o \in start .. (new.end - 1)
    <2>1. o \in first .. (last - 1)
        BY <1>2
    <2>2. MergedByte(segs, start, new, o) = new.at[o]
        BY DEF MergedByte
    <2> QED BY <1>4, <2>1, <2>2
<1>6. ASSUME NEW s \in DOMAIN segs, NEW o \in s .. (segs[s].end - 1),
             start <= o /\ o < new.end => new.at[o] = segs[s].at[o]
      PROVE  <<o, segs[s].at[o]>> \in Content(map)
    <2>0. s \in Nat /\ segs[s].end \in Nat /\ o \in Nat /\ s <= o /\ o < segs[s].end
        BY <1>6 DEF WellFormed
    <2>1. CASE s \notin touching
        BY <1>1, <1>6, <2>1 DEF Content
    <2>2. CASE s \in touching
        <3> DEFINE over == {t \in touching : t <= o /\ o < segs[t].end}
        <3>1. o \in first .. (last - 1)
            BY <1>2, <2>0, <2>2
        <3>2. over = {s}
            BY <1>3, <2>0, <2>2 DEF Separated, WellFormed
        <3>3. Max({s}) = s
            BY <2>0, MaxEquals
        <3>4. MergedByte(segs, start, new, o) = segs[s].at[o]
            BY <1>6, <2>0, <3>2, <3>3 DEF MergedByte, touching
        <3> QED BY <1>4, <3>1, <3>4
    <2> QED BY <2>1, <2>2
<1> QED BY <1>5, <1>6 DEF map

-----------------------------------------------------------------------------
(* CachedObject::slice.                                                    *)

(* The one segment slice looks at holds every byte of the range.           *)
LEMMA SliceIsCached ==
    ASSUME NEW segs, WellFormed(segs), NEW range,
           range.start \in Nat, range.end \in Nat, HasSlice(segs, range)
    PROVE  \A o \in Offsets(range) : <<o, Slice(segs, range)[o]>> \in Content(segs)
<1> DEFINE s == Max(UpTo(segs, range.start))
<1>1. UpTo(segs, range.start) \in SUBSET Nat /\ UpTo(segs, range.start) # {}
    BY DEF UpTo, WellFormed, HasSlice
<1>2. \A x \in UpTo(segs, range.start) : x <= range.start
    BY DEF UpTo
<1>3. s \in DOMAIN segs /\ s <= range.start
    BY <1>1, <1>2, MaxIsGreatest DEF UpTo
<1>4. range.end <= segs[s].end
    BY DEF HasSlice
<1>5. \A o \in Offsets(range) : Slice(segs, range)[o] = segs[s].at[o]
    BY DEF Slice
<1> HIDE DEF s
<1>6. \A o \in Offsets(range) : o \in s .. (segs[s].end - 1)
    BY <1>3, <1>4 DEF Offsets, WellFormed
<1> QED BY <1>3, <1>5, <1>6 DEF Content

(* A range whose every byte is cached is found in one segment: segments    *)
(* that hold neighbouring bytes would touch.                               *)
LEMMA CachedRangeHasSlice ==
    ASSUME NEW segs, WellFormed(segs), Separated(segs), NEW range,
           range.start \in Nat, range.end \in Nat, range.start < range.end,
           \A o \in Offsets(range) : o \in Cached(segs)
    PROVE  HasSlice(segs, range)
<1> DEFINE s == Max(UpTo(segs, range.start))
<1>1. UpTo(segs, range.start) \in SUBSET Nat /\ \A x \in UpTo(segs, range.start) : x <= range.start
    BY DEF UpTo, WellFormed
<1>2. \A o \in Offsets(range) : \E t \in DOMAIN segs : t <= o /\ o < segs[t].end
    BY DEF Cached, WellFormed, Offsets
<1>3. range.start \in Offsets(range)
    BY DEF Offsets
<1>4. PICK t \in DOMAIN segs : t <= range.start /\ range.start < segs[t].end
    BY <1>2, <1>3
<1>5. UpTo(segs, range.start) # {}
    BY <1>4 DEF UpTo
<1>6. s \in DOMAIN segs /\ s <= range.start /\ t <= s
    <2>1. s \in UpTo(segs, range.start) /\ \A x \in UpTo(segs, range.start) : x <= s
        BY <1>1, <1>5, MaxIsGreatest
    <2> QED BY <1>4, <2>1 DEF UpTo
<1> HIDE DEF s
<1>7. s = t
    BY <1>4, <1>6 DEF WellFormed, Separated
<1>8. range.end <= segs[s].end
    <2> SUFFICES ASSUME segs[s].end < range.end PROVE FALSE
        BY <1>6 DEF WellFormed
    <2>1. segs[s].end \in Offsets(range)
        BY <1>4, <1>6, <1>7 DEF WellFormed, Offsets
    <2>2. PICK u \in DOMAIN segs : u <= segs[s].end /\ segs[s].end < segs[u].end
        BY <1>2, <2>1
    <2> QED BY <1>6, <2>2 DEF WellFormed, Separated
<1> QED BY <1>5, <1>8 DEF HasSlice, s

(* What insert leaves cached is what was cached and the new bytes. *)
LEMMA InsertCaches ==
    ASSUME NEW segs, WellFormed(segs), Separated(segs),
           NEW start \in Nat, NEW new, new.end \in Nat, start < new.end
    PROVE  Cached(Insert(segs, start, new)) = Cached(segs) \cup start .. (new.end - 1)
<1> DEFINE touching == Touching(segs, start, new)
           first == MergedStart(segs, start, new)
           last  == MergedEnd(segs, start, new)
           map   == Insert(segs, start, new)
<1>1. /\ DOMAIN map = (DOMAIN segs \ touching) \cup {first}
      /\ map[first].end = last
      /\ \A s \in DOMAIN segs \ touching : s # first /\ map[s] = segs[s]
    BY InsertShape, ZenonT(30)
<1>2. /\ first \in Nat /\ last \in Nat
      /\ first <= start /\ new.end <= last
      /\ \A s \in touching : first <= s /\ segs[s].end <= last
    BY MergedBounds
<1>3. touching \subseteq DOMAIN segs
    BY DEF Touching
<1>4. ASSUME NEW o \in Cached(map) PROVE o \in Cached(segs) \cup start .. (new.end - 1)
    <2>1. PICK s \in DOMAIN map : o \in s .. (map[s].end - 1)
        BY <1>4 DEF Cached
    <2>2. <<o, map[s].at[o]>> \in Content(map)
        BY <2>1 DEF Content
    <2>3. \/ <<o, map[s].at[o]>> \in Content(segs)
          \/ \E x \in start .. (new.end - 1) : <<o, map[s].at[o]>> = <<x, new.at[x]>>
        BY <2>2, InsertAddsNothingElse
    <2>4. <<o, map[s].at[o]>> \in Content(segs) => o \in Cached(segs)
        BY DEF Content, Cached
    <2> QED BY <2>3, <2>4
<1> HIDE DEF first, last, map, touching
<1>5. ASSUME NEW o \in Cached(segs) PROVE o \in Cached(map)
    <2>1. PICK s \in DOMAIN segs : o \in s .. (segs[s].end - 1)
        BY <1>5 DEF Cached
    <2>2. CASE s \in touching
        <3>1. o \in first .. (map[first].end - 1)
            BY <1>1, <1>2, <2>1, <2>2 DEF WellFormed
        <3> QED BY <1>1, <3>1 DEF Cached
    <2>3. CASE s \notin touching
        BY <1>1, <2>1, <2>3 DEF Cached
    <2> QED BY <2>2, <2>3
<1>6. ASSUME NEW o \in start .. (new.end - 1) PROVE o \in Cached(map)
    <2>1. o \in first .. (map[first].end - 1)
        BY <1>1, <1>2
    <2> QED BY <1>1, <2>1 DEF Cached
<1> QED BY <1>4, <1>5, <1>6 DEF map

-----------------------------------------------------------------------------
(* CachedObject::missing and HttpRangeStore::ranges_to_fetch.              *)

(* Every byte of a range that is not held lies in one of the gaps.         *)
LEMMA GapsCoverTheRange ==
    ASSUME NEW segs, WellFormed(segs), NEW range, range.start \in Nat, range.end \in Nat,
           NEW o \in Offsets(range), o \notin Cached(segs)
    PROVE  \E gap \in Missing(segs, range) : o \in Offsets(gap)
<1> DEFINE ended == {x \in {range.start} \cup {segs[s].end : s \in DOMAIN segs} : x <= o}
           begun == {x \in {range.end} \cup DOMAIN segs : o < x}
           gap   == [start |-> Max(ended), end |-> Min(begun)]
<1>1. o \in Nat /\ range.start <= o /\ o < range.end
    BY DEF Offsets
<1>2. /\ ended \in SUBSET Nat /\ range.start \in ended
      /\ begun \in SUBSET Nat /\ range.end \in begun
    BY <1>1 DEF WellFormed
<1>3. Max(ended) \in ended /\ \A x \in ended : x <= Max(ended)
    BY <1>1, <1>2, MaxIsGreatest
<1>4. Min(begun) \in begun /\ \A x \in begun : Min(begun) <= x
    BY <1>2, MinIsLeast
<1>5. \A s \in DOMAIN segs : segs[s].end <= o => segs[s].end <= Max(ended)
    BY <1>3
<1>6. \A s \in DOMAIN segs : o < s => Min(begun) <= s
    BY <1>4
<1>7. \A s \in DOMAIN segs : segs[s].end <= o \/ o < s
    BY <1>1 DEF Cached, WellFormed
<1>8. /\ Max(ended) \in {range.start} \cup {segs[s].end : s \in DOMAIN segs}
      /\ Max(ended) \in Nat /\ Max(ended) <= o /\ range.start <= Max(ended)
      /\ Min(begun) \in {range.end} \cup DOMAIN segs
      /\ Min(begun) \in Nat /\ o < Min(begun) /\ Min(begun) <= range.end
    BY <1>2, <1>3, <1>4
<1> HIDE DEF ended, begun
<1>9. Offsets(gap) \cap Cached(segs) = {}
    <2> SUFFICES ASSUME NEW p \in Offsets(gap), NEW s \in DOMAIN segs, p \in s .. (segs[s].end - 1)
                 PROVE  FALSE
        BY DEF Cached
    <2>1. p \in Nat /\ Max(ended) <= p /\ p < Min(begun)
        BY <1>8 DEF Offsets
    <2> QED BY <1>5, <1>6, <1>7, <1>8, <2>1 DEF WellFormed
<1>10. gap \in Missing(segs, range) /\ o \in Offsets(gap)
    BY <1>1, <1>8, <1>9 DEF Missing, Offsets
<1> QED BY <1>10

(* Every member of a bounded set of offsets lies in one of its runs.       *)
LEMMA RunsCoverTheOffsets ==
    ASSUME NEW S \in SUBSET Nat, NEW limit \in Nat, \A x \in S : x < limit, NEW o \in S
    PROVE  \E run \in Runs(S) : o \in Offsets(run)
<1> DEFINE starts == {a \in S : a <= o /\ a .. o \subseteq S}
           ends   == {b \in {x + 1 : x \in S} : o < b /\ o .. (b - 1) \subseteq S}
<1>1. o \in Nat /\ o .. o = {o} /\ o .. ((o + 1) - 1) = {o}
    OBVIOUS
<1>2. starts \in SUBSET Nat /\ o \in starts
    <2>1. o .. o \subseteq S /\ o <= o
        BY <1>1
    <2> QED BY <2>1
<1>3. ends \in SUBSET Nat /\ o + 1 \in ends /\ \A b \in ends : b <= limit
    BY <1>1
<1>4. PICK first \in starts : \A a \in starts : first <= a
    BY <1>2, MinIsLeast
<1>5. PICK past \in ends : \A b \in ends : b <= past
    BY <1>3, MaxIsGreatest
<1>6. first - 1 \notin S
    <2> SUFFICES ASSUME first - 1 \in S PROVE FALSE
        OBVIOUS
    <2>1. (first - 1) .. o = {first - 1} \cup first .. o
        BY <1>4
    <2>2. first - 1 \in starts
        BY <1>4, <2>1
    <2> QED BY <1>2, <1>4, <2>2
<1>7. past \notin S
    <2> SUFFICES ASSUME past \in S PROVE FALSE
        OBVIOUS
    <2>1. o .. ((past + 1) - 1) = o .. (past - 1) \cup {past}
        BY <1>1, <1>3, <1>5
    <2>2. past + 1 \in ends
        BY <1>1, <1>3, <1>5, <2>1
    <2> QED BY <1>3, <1>5, <2>2
<1>8. \A x \in first .. (past - 1) : x \in first .. o \/ x \in o .. (past - 1)
    BY <1>1, <1>2, <1>3, <1>4, <1>5
<1>9. [start |-> first, end |-> past] \in Runs(S)
    BY <1>1, <1>3, <1>4, <1>5, <1>6, <1>7, <1>8 DEF Runs, Offsets
<1>10. o \in Offsets([start |-> first, end |-> past])
    BY <1>1, <1>3, <1>4, <1>5 DEF Offsets
<1> QED BY <1>9, <1>10

(* What is fetched lies before the end of one of the ranges asked for.     *)
LEMMA PlanStaysWithin ==
    ASSUME NEW segs, WellFormed(segs), NEW ranges, ranges \subseteq [start : Nat, end : Nat],
           NEW o \in Needed(segs, ranges) \cup Bridged(segs, ranges)
    PROVE  o \in Nat /\ \E range \in ranges : o < range.end
<1> DEFINE gaps == UNION {Missing(segs, range) : range \in ranges}
<1>1. \A gap \in gaps : /\ gap.start \in Nat /\ gap.end \in Nat /\ gap.start < gap.end
                        /\ \E range \in ranges : gap.end <= range.end
    BY DEF Missing, WellFormed
<1>2. CASE o \in Needed(segs, ranges)
    <2>1. PICK gap \in gaps : o \in Offsets(gap)
        BY <1>2 DEF Needed
    <2> HIDE DEF gaps
    <2> QED BY <1>1, <2>1 DEF Offsets
<1>3. CASE o \in Bridged(segs, ranges)
    <2>1. PICK left \in gaps, right \in gaps : o \in Offsets(Span(left.end, right.start))
        BY <1>3 DEF Bridged
    <2> HIDE DEF gaps
    <2>2. left.end \in Nat /\ o \in left.end .. (right.start - 1)
        BY <1>1, <2>1 DEF Offsets, Span
    <2> QED BY <1>1, <2>2
<1> QED BY <1>2, <1>3

(* The plan of a read covers every byte that is not held and nothing after *)
(* the last byte asked for.                                                *)
LEMMA PlanCoversTheRanges ==
    ASSUME NEW segs, WellFormed(segs), NEW ranges, ranges \subseteq [start : Nat, end : Nat],
           NEW limit \in Nat, \A range \in ranges : range.end <= limit
    PROVE  /\ \A range \in ranges : \A o \in Offsets(range) :
                 o \in Cached(segs) \/ \E run \in RangesToFetch(segs, ranges) : o \in Offsets(run)
           /\ \A run \in RangesToFetch(segs, ranges) : \E range \in ranges : run.end <= range.end
<1> DEFINE offsets == Needed(segs, ranges) \cup Bridged(segs, ranges)
<1>1. \A o \in offsets : o \in Nat /\ \E range \in ranges : o < range.end
    BY PlanStaysWithin
<1>2. ASSUME NEW range \in ranges, NEW o \in Offsets(range), o \notin Cached(segs)
      PROVE  o \in offsets
    <2>1. range.start \in Nat /\ range.end \in Nat
        OBVIOUS
    <2>2. PICK gap \in Missing(segs, range) : o \in Offsets(gap)
        BY <1>2, <2>1, GapsCoverTheRange
    <2>3. o \in Needed(segs, ranges)
        BY <2>2 DEF Needed
    <2> QED BY <2>3
<1>3. RangesToFetch(segs, ranges) = Runs(offsets)
    BY DEF RangesToFetch
<1> HIDE DEF offsets
<1>4. offsets \in SUBSET Nat /\ \A o \in offsets : o < limit
    BY <1>1
<1>5. \A o \in offsets : \E run \in Runs(offsets) : o \in Offsets(run)
    BY <1>4, RunsCoverTheOffsets
<1>6. \A run \in Runs(offsets) : \E range \in ranges : run.end <= range.end
    BY <1>1 DEF Runs
<1> QED BY <1>2, <1>3, <1>5, <1>6

(* A call asks for finitely many ranges, so one of their ends is the last. *)
LEMMA RangesHaveALimit ==
    ASSUME NEW ranges, ranges \subseteq [start : Nat, end : Nat], IsFiniteSet(ranges)
    PROVE  \E limit \in Nat : \A range \in ranges : range.end <= limit
<1>1. PICK n \in Nat : \E f : f \in Surjection(1 .. n, ranges)
    BY FS_NatSurjection DEF ExistsSurjection
<1>2. PICK f : f \in Surjection(1 .. n, ranges)
    BY <1>1
<1>3. /\ \A i \in 1 .. n : f[i] \in ranges /\ f[i].end \in Nat
      /\ \A range \in ranges : \E i \in 1 .. n : f[i] = range
    BY <1>2 DEF Surjection
<1> DEFINE HasLimit(k) == \E limit \in Nat : \A i \in 1 .. k : f[i].end <= limit
           unlimited == {k \in Nat : k <= n /\ ~HasLimit(k)}
<1>4. HasLimit(0)
    BY 0 \in Nat
<1>5. ASSUME NEW k \in Nat, k < n, HasLimit(k) PROVE HasLimit(k + 1)
    <2>1. PICK limit \in Nat : \A i \in 1 .. k : f[i].end <= limit
        BY <1>5
    <2>2. f[k + 1].end \in Nat /\ \A i \in 1 .. k : f[i].end \in Nat
        BY <1>3, <1>5
    <2>3. limit + f[k + 1].end \in Nat
        BY <2>2
    <2>4. \A i \in 1 .. (k + 1) : f[i].end <= limit + f[k + 1].end
        BY <2>1, <2>2
    <2> QED BY <2>3, <2>4
<1> HIDE DEF HasLimit
<1>6. unlimited = {}
    <2> SUFFICES ASSUME unlimited # {} PROVE FALSE
        OBVIOUS
    <2>1. PICK k \in unlimited : \A other \in unlimited : k <= other
        BY NatSetHasLeast
    <2>2. k \in Nat /\ k # 0 /\ k <= n /\ ~HasLimit(k)
        BY <1>4, <2>1
    <2>3. k - 1 \in Nat /\ k - 1 < n /\ (k - 1) + 1 = k
        BY <2>2
    <2>4. HasLimit(k - 1)
        BY <2>1, <2>3
    <2> QED BY <1>5, <2>2, <2>3, <2>4
<1>7. HasLimit(n)
    BY <1>6
<1> QED BY <1>3, <1>7 DEF HasLimit

-----------------------------------------------------------------------------
(* What the cache holds, and what a plan for any ranges fetches.           *)

(* An offset is held once. *)
LEMMA OneByteAnOffset ==
    ASSUME NEW segs, WellFormed(segs), Separated(segs), NEW o, NEW a, NEW b,
           <<o, a>> \in Content(segs), <<o, b>> \in Content(segs)
    PROVE  a = b /\ o \in Cached(segs)
<1>1. PICK s \in DOMAIN segs : o \in s .. (segs[s].end - 1) /\ a = segs[s].at[o]
    BY DEF Content
<1>2. PICK t \in DOMAIN segs : o \in t .. (segs[t].end - 1) /\ b = segs[t].at[o]
    BY DEF Content
<1>3. s = t
    BY <1>1, <1>2 DEF WellFormed, Separated
<1> QED BY <1>1, <1>2, <1>3 DEF Cached

(* is_uncached looks at one segment, and decides for the whole range. *)
LEMMA UncachedRangesAreEmpty ==
    ASSUME NEW segs, WellFormed(segs), Separated(segs), NEW range,
           range.start \in Nat, range.end \in Nat, range.start < range.end
    PROVE  IsUncached(segs, range) <=> Offsets(range) \cap Cached(segs) = {}
<1> DEFINE before == UpTo(segs, range.end - 1)
           m == Max(before)
<1>1. before \in SUBSET Nat /\ range.end - 1 \in Nat /\ \A x \in before : x <= range.end - 1
    BY DEF UpTo, WellFormed
<1>2. before # {} => m \in before /\ \A x \in before : x <= m
    BY <1>1, MaxIsGreatest
<1>3. \A s \in before : s \in DOMAIN segs /\ s \in Nat /\ segs[s].end \in Nat /\ s < segs[s].end
    BY DEF UpTo, WellFormed
<1>4. IsUncached(segs, range) <=> (before # {} => segs[m].end <= range.start)
    BY DEF IsUncached
<1>5. ASSUME NEW o \in Offsets(range), o \in Cached(segs), before # {} => segs[m].end <= range.start
      PROVE  FALSE
    <2>1. PICK s \in DOMAIN segs : o \in s .. (segs[s].end - 1)
        BY <1>5 DEF Cached
    <2>2. s \in before /\ o \in Nat /\ range.start <= o /\ o < segs[s].end
        BY <1>5, <2>1 DEF UpTo, Offsets, WellFormed
    <2> HIDE DEF m, before
    <2>3. s <= m /\ s \in DOMAIN segs /\ s \in Nat /\ segs[s].end \in Nat
        BY <1>2, <1>3, <2>2
    <2>4. m \in DOMAIN segs /\ m \in Nat /\ segs[m].end \in Nat /\ m < segs[m].end
        BY <1>2, <1>3, <2>2
    <2>5. segs[m].end <= range.start
        BY <1>5, <2>2
    <2>6. s # m => segs[s].end < m
        BY <2>3, <2>4 DEF Separated
    <2> QED BY <2>2, <2>3, <2>4, <2>5, <2>6
<1>6. ASSUME before # {}, ~(segs[m].end <= range.start)
      PROVE  \E o \in Offsets(range) : o \in Cached(segs)
    <2>1. m \in DOMAIN segs /\ m \in Nat /\ segs[m].end \in Nat /\ m < segs[m].end /\ m <= range.end - 1
        BY <1>1, <1>2, <1>3, <1>6
    <2> HIDE DEF m, before
    <2>2. PICK o \in Nat : o = IF m <= range.start THEN range.start ELSE m
        BY <2>1
    <2>3. o \in Offsets(range) /\ o \in m .. (segs[m].end - 1)
        BY <1>6, <2>1, <2>2 DEF Offsets
    <2> QED BY <2>1, <2>3 DEF Cached
<1> QED BY <1>4, <1>5, <1>6

(* A run that is fetched starts where a gap starts and ends where one      *)
(* ends: what bridges two gaps lies between them.                          *)
LEMMA RunsEndWithGaps ==
    ASSUME NEW segs, WellFormed(segs), NEW ranges, ranges \subseteq [start : Nat, end : Nat],
           NEW run \in RangesToFetch(segs, ranges)
    PROVE  LET gaps == UNION {Missing(segs, range) : range \in ranges}
           IN  /\ \E gap \in gaps : run.start = gap.start
               /\ \E gap \in gaps : run.end = gap.end
<1> DEFINE gaps == UNION {Missing(segs, range) : range \in ranges}
           offsets == Needed(segs, ranges) \cup Bridged(segs, ranges)
<1>1. \A gap \in gaps : gap.start \in Nat /\ gap.end \in Nat /\ gap.start < gap.end
    BY DEF Missing, WellFormed
<1>2. \A o : o \in Needed(segs, ranges) <=> \E gap \in gaps : o \in Offsets(gap)
    BY DEF Needed
<1>3. \A o \in Bridged(segs, ranges) : \E left \in gaps, right \in gaps :
        /\ left.end <= o /\ o < right.start
        /\ \A x \in left.end .. (right.start - 1) : x \in Bridged(segs, ranges)
    <2> TAKE o \in Bridged(segs, ranges)
    <2>1. PICK left \in gaps, right \in gaps :
            /\ o \in Offsets(Span(left.end, right.start))
            /\ \A x \in Offsets(Span(left.end, right.start)) : x \in Bridged(segs, ranges)
        BY DEF Bridged
    <2> HIDE DEF gaps
    <2> QED BY <1>1, <2>1 DEF Offsets, Span
<1>4. \A o \in offsets : o \in Nat
    BY PlanStaysWithin
<1>5. /\ run.start \in Nat /\ run.end - 1 \in Nat /\ run.end \in Nat
      /\ run.start \in offsets /\ run.end - 1 \in offsets
      /\ run.start - 1 \notin offsets /\ run.end \notin offsets
    <2>1. run \in Runs(offsets)
        BY DEF RangesToFetch
    <2> HIDE DEF offsets
    <2>2. run.start \in offsets /\ run.start < run.end /\ \E o \in offsets : run.end = o + 1
        BY <2>1 DEF Runs
    <2>3. run.start - 1 \notin offsets /\ run.end \notin offsets
        BY <2>1 DEF Runs
    <2> QED BY <1>4, <2>2, <2>3
<1> HIDE DEF gaps
<1>6. \E gap \in gaps : run.start = gap.start
    <2>1. CASE run.start \in Needed(segs, ranges)
        <3>1. PICK gap \in gaps : run.start \in Offsets(gap)
            BY <1>2, <2>1
        <3>2. run.start - 1 \notin Offsets(gap)
            BY <1>2, <1>5
        <3> QED BY <1>1, <1>5, <3>1, <3>2 DEF Offsets
    <2>2. CASE run.start \in Bridged(segs, ranges)
        <3>1. PICK left \in gaps, right \in gaps :
                /\ left.end <= run.start /\ run.start < right.start
                /\ \A x \in left.end .. (right.start - 1) : x \in Bridged(segs, ranges)
            BY <1>3, <2>2
        <3>2. left.end = run.start
            BY <1>1, <1>5, <3>1
        <3>3. run.start - 1 \in Offsets(left)
            BY <1>1, <3>2 DEF Offsets
        <3> QED BY <1>2, <1>5, <3>3
    <2> QED BY <1>5, <2>1, <2>2
<1>7. \E gap \in gaps : run.end = gap.end
    <2>1. CASE run.end - 1 \in Needed(segs, ranges)
        <3>1. PICK gap \in gaps : run.end - 1 \in Offsets(gap)
            BY <1>2, <2>1
        <3>2. run.end \notin Offsets(gap)
            BY <1>2, <1>5
        <3> QED BY <1>1, <1>5, <3>1, <3>2 DEF Offsets
    <2>2. CASE run.end - 1 \in Bridged(segs, ranges)
        <3>1. PICK left \in gaps, right \in gaps :
                /\ left.end <= run.end - 1 /\ run.end - 1 < right.start
                /\ \A x \in left.end .. (right.start - 1) : x \in Bridged(segs, ranges)
            BY <1>3, <2>2
        <3>2. right.start = run.end
            BY <1>1, <1>5, <3>1
        <3>3. run.end \in Offsets(right)
            BY <1>1, <3>2 DEF Offsets
        <3> QED BY <1>2, <1>5, <3>3
    <2> QED BY <1>5, <2>1, <2>2
<1> QED BY <1>6, <1>7 DEF gaps

(* What is planned is asked for or bridges a short gap, and nothing of it  *)
(* is held; two runs that a short gap parts have a held byte between them. *)
LEMMA PlansWasteNothing ==
    ASSUME NEW segs, WellFormed(segs), Separated(segs),
           NEW ranges, ranges \subseteq [start : Nat, end : Nat]
    PROVE  LET plan == RangesToFetch(segs, ranges)
           IN  /\ \A p \in plan : Offsets(p) \cap Cached(segs) = {}
               /\ \A p, q \in plan : p.end <= q.start =>
                     \/ q.start - p.end > CoalesceGap
                     \/ \E o \in p.end .. (q.start - 1) : o \in Cached(segs)
               /\ \A p \in plan :
                     /\ \E range \in ranges : p.start \in Offsets(range)
                     /\ \E range \in ranges : p.end - 1 \in Offsets(range)
<1> DEFINE gaps == UNION {Missing(segs, range) : range \in ranges}
           offsets == Needed(segs, ranges) \cup Bridged(segs, ranges)
           plan == RangesToFetch(segs, ranges)
<1>1. \A gap \in gaps :
        /\ gap.start \in Nat /\ gap.end \in Nat /\ gap.start < gap.end
        /\ Offsets(gap) \cap Cached(segs) = {}
        /\ \E range \in ranges : range.start <= gap.start /\ gap.end <= range.end
                               /\ range.start \in Nat /\ range.end \in Nat
    BY DEF Missing, WellFormed
<1>2. ASSUME NEW left \in gaps, NEW right \in gaps, left.end < right.start,
             right.start - left.end <= CoalesceGap,
             \A o \in left.end .. (right.start - 1) : o \notin Cached(segs)
      PROVE  left.end \in Bridged(segs, ranges)
    <2> DEFINE hop == Span(left.end, right.start)
    <2>1. /\ hop.start = left.end /\ hop.end = right.start
          /\ hop.start \in Nat /\ hop.end \in Nat /\ hop.start < hop.end
        BY <1>1, <1>2 DEF Span
    <2>2. Offsets(hop) = left.end .. (right.start - 1)
        BY <2>1 DEF Offsets
    <2>3. IsUncached(segs, hop)
      <3> HIDE DEF hop
      <3> QED BY <1>2, <2>1, <2>2, UncachedRangesAreEmpty
    <2>4. left.end \in Offsets(hop)
        BY <2>1, <2>2
    <2> QED BY <1>2, <2>1, <2>3, <2>4 DEF Bridged
<1>3. \A o \in offsets : o \in Nat /\ o \notin Cached(segs)
    <2> TAKE o \in offsets
    <2>1. o \in Nat
        BY PlanStaysWithin
    <2>2. ASSUME o \in Needed(segs, ranges) PROVE o \notin Cached(segs)
        BY <1>1, <2>2 DEF Needed
    <2>3. ASSUME o \in Bridged(segs, ranges) PROVE o \notin Cached(segs)
        <3>1. PICK left \in gaps, right \in gaps :
                LET h == Span(left.end, right.start)
                IN  o \in Offsets(h) /\ h.start < h.end /\ IsUncached(segs, h)
            BY <2>3 DEF Bridged
        <3>2. left.end \in Nat /\ right.start \in Nat
            BY <1>1
        <3> DEFINE h == Span(left.end, right.start)
        <3>3. h.start \in Nat /\ h.end \in Nat /\ h.start < h.end /\ o \in Offsets(h) /\ IsUncached(segs, h)
            BY <3>1, <3>2 DEF Span
        <3> HIDE DEF h
        <3> QED BY <3>3, UncachedRangesAreEmpty
    <2> QED BY <2>1, <2>2, <2>3
<1>4. ASSUME NEW p \in plan
      PROVE  /\ p.start \in offsets /\ p.end \notin offsets /\ \A o \in Offsets(p) : o \in offsets
             /\ \E gap \in gaps : p.start = gap.start
             /\ \E gap \in gaps : p.end = gap.end
    <2>1. p \in Runs(offsets)
        BY <1>4 DEF RangesToFetch
    <2>2. p.start \in offsets /\ p.end \notin offsets /\ \A o \in Offsets(p) : o \in offsets
      <3> HIDE DEF offsets
      <3> QED BY <2>1 DEF Runs
    <2> QED BY <1>4, <2>2, RunsEndWithGaps
<1>5. \A p \in plan : Offsets(p) \cap Cached(segs) = {}
    BY <1>3, <1>4
<1>6. ASSUME NEW p \in plan, NEW q \in plan, p.end <= q.start, ~(q.start - p.end > CoalesceGap),
             \A o \in p.end .. (q.start - 1) : o \notin Cached(segs)
      PROVE  FALSE
    <2> HIDE DEF plan
    <2>1. PICK left \in gaps : p.end = left.end
        BY <1>4
    <2>2. PICK right \in gaps : q.start = right.start
        BY <1>4
    <2>3. p.end \notin offsets /\ q.start \in offsets
        BY <1>4
    <2>4. left.end \in Nat /\ right.start \in Nat
        BY <1>1
    <2>5. left.end < right.start /\ right.start - left.end <= CoalesceGap
        BY <1>6, <2>1, <2>2, <2>3, <2>4, CoalesceGapIsNat
    <2>6. left.end \in Bridged(segs, ranges)
        BY <1>2, <1>6, <2>1, <2>2, <2>5
    <2> QED BY <2>1, <2>3, <2>6
<1>7. ASSUME NEW p \in plan
      PROVE  /\ \E range \in ranges : p.start \in Offsets(range)
             /\ \E range \in ranges : p.end - 1 \in Offsets(range)
    <2> HIDE DEF gaps, plan
    <2>1. PICK first \in gaps : p.start = first.start
        BY <1>4
    <2>2. PICK last \in gaps : p.end = last.end
        BY <1>4
    <2> QED BY <1>1, <2>1, <2>2 DEF Offsets
<1> QED BY <1>5, <1>6, <1>7

(* The cache holds what was written last at each offset. *)
Records(segs, bytes) ==
    /\ WellFormed(segs) /\ Separated(segs)
    /\ Content(segs) = {<<o, bytes[o]>> : o \in DOMAIN bytes}

LEMMA RecordedOffsets ==
    ASSUME NEW segs, NEW bytes, Records(segs, bytes)
    PROVE  /\ Cached(segs) = DOMAIN bytes
           /\ \A o, b : <<o, b>> \in Content(segs) => o \in DOMAIN bytes /\ b = bytes[o]
<1>1. \A o, b : <<o, b>> \in Content(segs) => o \in DOMAIN bytes /\ b = bytes[o]
    BY DEF Records
<1>2. ASSUME NEW o \in Cached(segs) PROVE o \in DOMAIN bytes
    <2>1. PICK s \in DOMAIN segs : o \in s .. (segs[s].end - 1)
        BY <1>2 DEF Cached
    <2>2. <<o, segs[s].at[o]>> \in Content(segs)
        BY <2>1 DEF Content
    <2> QED BY <1>1, <2>2
<1>3. ASSUME NEW o \in DOMAIN bytes PROVE o \in Cached(segs)
    <2>1. <<o, bytes[o]>> \in Content(segs)
        BY <1>3 DEF Records
    <2> QED BY <2>1, OneByteAnOffset DEF Records
<1> QED BY <1>1, <1>2, <1>3

(* A write is recorded, whatever segments it overlaps or touches. *)
LEMMA InsertRecords ==
    ASSUME NEW segs, NEW bytes, Records(segs, bytes), NEW start \in Nat, NEW new,
           new.end \in Nat, start < new.end
    PROVE  Records(Insert(segs, start, new),
                   [o \in DOMAIN bytes \cup start .. (new.end - 1) |->
                       IF o \in start .. (new.end - 1) THEN new.at[o] ELSE bytes[o]])
<1> DEFINE range == start .. (new.end - 1)
           map == Insert(segs, start, new)
           after == [o \in DOMAIN bytes \cup range |-> IF o \in range THEN new.at[o] ELSE bytes[o]]
<1>1. WellFormed(segs) /\ Separated(segs)
    BY DEF Records
<1>2. WellFormed(map) /\ Separated(map)
    BY <1>1, InsertSeparates
<1>3. \A o \in range : <<o, new.at[o]>> \in Content(map)
    BY <1>1, InsertKeeps
<1>4. ASSUME NEW e \in Content(map) PROVE \E o \in DOMAIN after : e = <<o, after[o]>>
    <2>1. CASE \E o \in range : e = <<o, new.at[o]>>
        BY <2>1
    <2>2. CASE e \in Content(segs) /\ ~\E o \in range : e = <<o, new.at[o]>>
        <3>1. PICK o \in DOMAIN bytes : e = <<o, bytes[o]>>
            BY <2>2 DEF Records
        <3>2. o \notin range
            <4> SUFFICES ASSUME o \in range PROVE FALSE
                OBVIOUS
            <4>1. <<o, new.at[o]>> \in Content(map) /\ <<o, bytes[o]>> \in Content(map)
                BY <1>3, <1>4, <3>1
            <4>2. new.at[o] = bytes[o]
              <5> HIDE DEF map
              <5> QED BY <1>2, <4>1, OneByteAnOffset
            <4> QED BY <2>2, <3>1, <4>2
        <3> QED BY <3>1, <3>2
    <2> QED BY <1>1, <1>4, <2>1, <2>2, InsertAddsNothingElse
<1>5. ASSUME NEW o \in DOMAIN after PROVE <<o, after[o]>> \in Content(map)
    <2>1. CASE o \in range
        BY <1>3, <2>1
    <2>2. CASE o \notin range
        <3>1. o \in DOMAIN bytes /\ <<o, bytes[o]>> \in Content(segs)
            BY <1>5, <2>2 DEF Records
        <3>2. PICK s \in DOMAIN segs : o \in s .. (segs[s].end - 1) /\ bytes[o] = segs[s].at[o]
            BY <3>1 DEF Content
        <3>3. o \in Nat /\ ~(start <= o /\ o < new.end)
            BY <1>1, <2>2, <3>2 DEF WellFormed
        <3>4. <<o, segs[s].at[o]>> \in Content(map)
            BY <1>1, <3>2, <3>3, InsertKeeps
        <3> QED BY <2>2, <3>1, <3>2, <3>4
    <2> QED BY <2>1, <2>2
<1> HIDE DEF after, map
<1>6. Content(map) = {<<o, after[o]>> : o \in DOMAIN after}
    BY <1>4, <1>5
<1> QED BY <1>2, <1>6 DEF Records, after, map

(* The lookups, which see one segment, decide by what was written. *)
LEMMA LookupsFindTheRecord ==
    ASSUME NEW segs, NEW bytes, Records(segs, bytes), NEW range,
           range.start \in Nat, range.end \in Nat, range.start < range.end
    PROVE  /\ HasSlice(segs, range) <=> Offsets(range) \subseteq DOMAIN bytes
           /\ HasSlice(segs, range) => Slice(segs, range) = [o \in Offsets(range) |-> bytes[o]]
           /\ IsUncached(segs, range) <=> Offsets(range) \cap DOMAIN bytes = {}
<1>1. WellFormed(segs) /\ Separated(segs)
    BY DEF Records
<1>2. Cached(segs) = DOMAIN bytes
    BY RecordedOffsets
<1>3. Offsets(range) \subseteq DOMAIN bytes => HasSlice(segs, range)
    BY <1>1, <1>2, CachedRangeHasSlice
<1>4. ASSUME HasSlice(segs, range), NEW o \in Offsets(range)
      PROVE  o \in DOMAIN bytes /\ Slice(segs, range)[o] = bytes[o]
    <2>1. <<o, Slice(segs, range)[o]>> \in Content(segs)
        BY <1>1, <1>4, SliceIsCached
    <2> QED BY <2>1, RecordedOffsets
<1>5. HasSlice(segs, range) => Slice(segs, range) = [o \in Offsets(range) |-> bytes[o]]
    <2> DEFINE cut == Slice(segs, range)
    <2>1. cut = [o \in Offsets(range) |-> cut[o]]
        BY DEF Slice
    <2> HIDE DEF cut
    <2>2. HasSlice(segs, range) => \A o \in Offsets(range) : cut[o] = bytes[o]
        BY <1>4 DEF cut
    <2> QED BY <2>1, <2>2 DEF cut
<1>6. IsUncached(segs, range) <=> Offsets(range) \cap DOMAIN bytes = {}
    BY <1>1, <1>2, UncachedRangesAreEmpty
<1> QED BY <1>3, <1>4, <1>5, <1>6

(***************************************************************************)
(* The store.                                                              *)
(***************************************************************************)
-----------------------------------------------------------------------------
(* Ranges and plans.                                                       *)

LEMMA MinMaxOfTwo ==
    ASSUME NEW a \in Int, NEW b \in Int
    PROVE  /\ Max({a, b}) \in {a, b} /\ Max({a, b}) >= a /\ Max({a, b}) >= b
           /\ Min({a, b}) \in {a, b} /\ Min({a, b}) <= a /\ Min({a, b}) <= b
<1>1. \E x \in {a, b} : \A y \in {a, b} : x >= y
    <2>1. CASE a >= b
        BY <2>1
    <2>2. CASE b >= a
        BY <2>2
    <2> QED BY <2>1, <2>2
<1>2. \E x \in {a, b} : \A y \in {a, b} : x <= y
    <2>1. CASE a >= b
        BY <2>1
    <2>2. CASE b >= a
        BY <2>2
    <2> QED BY <2>1, <2>2
<1>3. Max({a, b}) \in {a, b} /\ \A y \in {a, b} : Max({a, b}) >= y
    BY <1>1 DEF Max
<1>4. Min({a, b}) \in {a, b} /\ \A y \in {a, b} : Min({a, b}) <= y
    BY <1>2 DEF Min
<1> QED BY <1>3, <1>4

LEMMA RangesAreTyped ==
    ASSUME NEW c \in Calls, NEW size \in Nat
    PROVE  RangesOf(c, size) \subseteq [start : Nat, end : Nat]
<1>1. /\ c.op \in {"head", "ranges", "bounded", "suffix", "offset", "whole"}
      /\ c.range.start \in Nat /\ c.range.end \in Nat
      /\ c.ranges \subseteq [start : Nat, end : Nat]
    BY CallsAreTyped
<1>2. Min({c.range.end, size}) \in Nat
    <2>1. c.range.end \in Int /\ size \in Int
        BY <1>1
    <2>2. Min({c.range.end, size}) \in {c.range.end, size}
        BY <2>1, MinMaxOfTwo
    <2> QED BY <1>1, <2>2
<1>3. Max({0, size - c.range.end}) \in Nat
    <2>1. 0 \in Int /\ size - c.range.end \in Int
        BY <1>1
    <2>2. /\ Max({0, size - c.range.end}) \in {0, size - c.range.end}
          /\ Max({0, size - c.range.end}) >= 0
        BY <2>1, MinMaxOfTwo, Zenon
    <2> QED BY <2>1, <2>2
<1>4. 0 \in Nat
    OBVIOUS
<1>5. \A a, b \in Nat : {Span(a, b)} \subseteq [start : Nat, end : Nat]
    BY DEF Span
<1> QED BY <1>1, <1>2, <1>3, <1>4, <1>5 DEF RangesOf

(* The ranges of a plan are those of non-empty requests. *)
LEMMA PlanIsTyped ==
    ASSUME NEW segs, WellFormed(segs),
           NEW ranges, ranges \subseteq [start : Nat, end : Nat],
           NEW run \in RangesToFetch(segs, ranges)
    PROVE  run.start \in Nat /\ run.end \in Nat /\ run.start < run.end
<1> DEFINE gaps == UNION {Missing(segs, range) : range \in ranges}
<1>1. \A gap \in gaps : gap.start \in Nat /\ gap.end \in Nat
    BY DEF Missing, WellFormed
<1>2. Needed(segs, ranges) \subseteq Nat
    BY <1>1 DEF Needed, Offsets
<1>3. Bridged(segs, ranges) \subseteq Nat
    BY <1>1 DEF Bridged, Offsets, Span
<1> QED BY <1>2, <1>3 DEF RangesToFetch, Runs

-----------------------------------------------------------------------------
(* The server and its replies.                                             *)

(* A reply that is not refused carries at least one byte of its version. *)
LEMMA ServedBytes ==
    ASSUME NEW v \in Versions, NEW whole \in BOOLEAN,
           NEW request, request \in {SuffixRequest, HeadRequest} \/ IsFetch(request),
           Succeeded(Serve(request, v, whole))
    PROVE  LET reply == Serve(request, v, whole)
           IN  /\ reply.version = v
               /\ reply.range.start \in Nat /\ reply.range.end \in Nat
               /\ reply.range.start < reply.range.end
               /\ reply.status = 200 => reply.range.start = 0
               /\ IsFetch(request) /\ reply.status = 206 =>
                     reply.range.start = request.range.start
<1> DEFINE size == Size[v]
<1>1. size \in Nat /\ size \in Int /\ size - TailLength \in Int /\ size > 0 /\ TailLength \in Nat /\ TailLength > 0
    BY SizesArePositive, TailIsPositive
<1> HIDE DEF size
<1>2. /\ Max({0, size - TailLength}) \in {0, size - TailLength}
      /\ Max({0, size - TailLength}) >= 0
    <2>1. 0 \in Int
        OBVIOUS
    <2> QED BY <1>1, <2>1, MinMaxOfTwo, Zenon
<1>3. CASE request.kind = "head" \/ whole
    BY <1>1, <1>3 DEF Serve, Reply, Span, Succeeded, IsFetch, size
<1>4. CASE ~(request.kind = "head" \/ whole) /\ request.kind = "suffix"
    BY <1>1, <1>2, <1>4 DEF Serve, Reply, Span, Succeeded, IsFetch, size
<1>5. CASE ~(request.kind = "head" \/ whole) /\ request.kind # "suffix"
    <2>1. IsFetch(request)
        BY <1>5 DEF SuffixRequest, HeadRequest
    <2>2. Min({request.range.end, size}) \in {request.range.end, size}
        <3>1. request.range.end \in Int
            BY <2>1 DEF IsFetch
        <3> QED BY <1>1, <3>1, MinMaxOfTwo
    <2>3. request.range.start < size
        BY <1>1, <1>5, <2>1 DEF Serve, Reply, Span, Succeeded, IsFetch, size
    <2> QED BY <1>1, <1>5, <2>1, <2>2, <2>3 DEF Serve, Reply, Span, Succeeded, IsFetch, size
<1> QED BY <1>3, <1>4, <1>5

LEMMA ServedOrFailed ==
    ASSUME NEW request, NEW reply \in Replies(request), Succeeded(reply)
    PROVE  \E v \in Versions, whole \in BOOLEAN : reply = Serve(request, v, whole)
<1>1. reply \notin {Pending, Failure}
    BY DEF Succeeded, Pending, Failure
<1>2. PICK v \in Versions : reply \in Served(request, v)
    BY <1>1 DEF Replies
<1>3. \E whole \in {FALSE, MayIgnoreRanges} : reply = Serve(request, v, whole)
    BY <1>2 DEF Served
<1> QED BY <1>3, FlagsAreBoolean

(* Where the store places the bytes of a reply is where they belong. *)
LEMMA FetchIsPlaced ==
    ASSUME NEW v \in Versions, NEW whole \in BOOLEAN, NEW request, IsFetch(request),
           NEW reply, reply = Serve(request, v, whole), Succeeded(reply),
           NEW start, start = StartOf(reply, request.range)
    PROVE  LET new == Placed(reply, start)
           IN  /\ start \in Nat /\ new.end \in Nat /\ start < new.end
               /\ \A o \in start .. (new.end - 1) : new.at[o] = Byte(v, o)
<1>1. /\ reply.version = v
      /\ reply.range.start \in Nat /\ reply.range.end \in Nat
      /\ reply.range.start < reply.range.end
      /\ reply.status = 206 => reply.range.start = request.range.start
    BY ServedBytes
<1>2. start = reply.range.start
    BY <1>1 DEF StartOf, HasPosition, Succeeded
<1> QED BY <1>1, <1>2 DEF Placed, Byte

LEMMA TailIsPlaced ==
    ASSUME NEW v \in Versions, NEW whole \in BOOLEAN, NEW reply, reply = Serve(SuffixRequest, v, whole), Succeeded(reply)
    PROVE  LET start == reply.range.start
               new == Placed(reply, start)
           IN  /\ start \in Nat /\ new.end \in Nat /\ start < new.end
               /\ \A o \in start .. (new.end - 1) : new.at[o] = Byte(v, o)
<1>1. /\ reply.version = v
      /\ reply.range.start \in Nat /\ reply.range.end \in Nat
      /\ reply.range.start < reply.range.end
    BY ServedBytes
<1> QED BY <1>1 DEF Placed, Byte
-----------------------------------------------------------------------------
(* What the operations that end a step do to the reader that takes it.     *)

Await == {"idle", "tail", "head", "fetch"}
Meta == [size : Nat, version : {NoVersion} \cup Versions]

OthersUnchanged(r) ==
    /\ DOMAIN wire' = Readers /\ DOMAIN answer' = Readers
    /\ pc' \in [Readers -> Await] /\ meta' \in [Readers -> Meta]
    /\ \A q \in Readers \ {r} : /\ pc'[q] = pc[q] /\ meta'[q] = meta[q]
                               /\ wire'[q] = wire[q] /\ answer'[q] = answer[q]

(* Every byte of a result is cached at its offset. *)
TakenFrom(result, segs) ==
    \A range \in DOMAIN result.value : \A o \in Offsets(range) :
        <<o, result.value[range][o]>> \in Content(segs)

LEMMA NoMetaIsMeta == NoMeta \in Meta
BY DEF NoMeta, Meta

LEMMA ReturnStep ==
    ASSUME TypeOK, NEW r \in Readers, NEW result, Return(r, result)
    PROVE  /\ OthersUnchanged(r)
           /\ pc'[r] = "idle" /\ DOMAIN wire'[r] = {} /\ answer'[r] = result
BY NoMetaIsMeta DEF TypeOK, Return, OthersUnchanged, NoRequests, Await, Meta

LEMMA ErrorsTakeNothing ==
    ASSUME NEW kind, NEW segs
    PROVE  DOMAIN Err(kind).value = {} /\ TakenFrom(Err(kind), segs)
BY DEF Err, NoValue, TakenFrom

LEMMA SendStep ==
    ASSUME TypeOK, NEW r \in Readers, NEW await \in Await, NEW requests,
           Send(r, await, requests), UNCHANGED <<meta, answer>>
    PROVE  /\ OthersUnchanged(r)
           /\ pc'[r] = await /\ DOMAIN wire'[r] = requests /\ answer'[r] = answer[r]
           /\ \A request \in requests : wire'[r][request] = Pending
BY DEF TypeOK, Send, OthersUnchanged, Await, Meta

LEMMA CutOutIsCached ==
    ASSUME NEW segs, WellFormed(segs), NEW ranges, ranges \subseteq [start : Nat, end : Nat]
    PROVE  TakenFrom(CutOut(segs, ranges), segs)
<1>1. CASE \A range \in NonEmpty(ranges) : HasSlice(segs, range)
    <2>1. CutOut(segs, ranges).value = [range \in ranges |-> Slice(segs, range)]
        BY <1>1 DEF CutOut, Ok
    <2>2. \A range \in ranges : \A o \in Offsets(range) :
            <<o, Slice(segs, range)[o]>> \in Content(segs)
        <3> TAKE range \in ranges
        <3>1. range.start \in Nat /\ range.end \in Nat
            OBVIOUS
        <3>2. CASE range.start < range.end
            <4>1. HasSlice(segs, range)
                BY <1>1, <3>2 DEF NonEmpty
            <4> QED BY <3>1, <4>1, SliceIsCached
        <3>3. CASE range.start >= range.end
            <4>1. Offsets(range) = {}
                BY <3>1, <3>3 DEF Offsets
            <4> QED BY <4>1
        <3> QED BY <3>1, <3>2, <3>3
    <2> QED BY <2>1, <2>2 DEF TakenFrom
<1>2. CASE ~\A range \in NonEmpty(ranges) : HasSlice(segs, range)
    <2>1. CutOut(segs, ranges) = Err("missing")
        BY <1>2 DEF CutOut
    <2> QED BY <2>1, ErrorsTakeNothing
<1> QED BY <1>1, <1>2

(* After object_meta a reader is either done, with bytes of the cache, or  *)
(* fetches for the entry it was given.                                     *)
LEMMA PlanStep ==
    ASSUME TypeOK, NEW r \in Readers, NEW c \in Calls, NEW entry,
           entry.size \in Nat, entry.version \in {NoVersion} \cup Versions,
           WellFormed(entry.segments), Plan(r, c, entry)
    PROVE  /\ OthersUnchanged(r)
           /\ \/ /\ pc'[r] = "idle" /\ DOMAIN wire'[r] = {}
                 /\ TakenFrom(answer'[r], entry.segments)
              \/ /\ pc'[r] = "fetch" /\ answer'[r] = answer[r]
                 /\ meta'[r] = [size |-> entry.size, version |-> entry.version]
                 /\ \A request \in DOMAIN wire'[r] :
                        IsFetch(request) /\ wire'[r][request] = Pending
<1> DEFINE ranges == RangesOf(c, entry.size)
           runs == RangesToFetch(entry.segments, NonEmpty(ranges))
           fetches == {BoundedRequest(range) : range \in runs}
<1>1. ranges \subseteq [start : Nat, end : Nat]
    BY RangesAreTyped
<1>2. NonEmpty(ranges) \subseteq [start : Nat, end : Nat]
    BY <1>1 DEF NonEmpty
<1>3. \A request \in fetches : IsFetch(request)
    <2>1. \A run \in runs : run.start \in Nat /\ run.end \in Nat /\ run.start < run.end
        BY <1>2, PlanIsTyped
    <2> HIDE DEF runs
    <2> QED BY <2>1 DEF IsFetch, BoundedRequest
<1> HIDE DEF ranges, fetches
<1>4. CASE Return(r, Err("out_of_range"))
    BY <1>4, ReturnStep, ErrorsTakeNothing
<1>5. CASE Return(r, CutOut(entry.segments, ranges))
    BY <1>1, <1>5, ReturnStep, CutOutIsCached
<1>6. CASE /\ Send(r, "fetch", fetches)
           /\ meta' = [meta EXCEPT ![r] = [size |-> entry.size, version |-> entry.version]]
           /\ UNCHANGED answer
    BY <1>3, <1>6 DEF TypeOK, Send, OthersUnchanged, Await, Meta
<1> QED BY <1>4, <1>5, <1>6 DEF Plan, ranges, fetches
-----------------------------------------------------------------------------
(* The invariant of the cache and its requests.                            *)

(* The entry keeps its size and version once it is registered. *)
EntryIsKept ==
    /\ object'.size \in Nat /\ object'.version \in {NoVersion} \cup Versions
    /\ WellFormed(object'.segments) /\ Separated(object'.segments)
    /\ Registered => object'.size = object.size /\ object'.version = object.version

(* What AwaitsMatch and TypeOK say of reader r after a step. *)
RequestsMatch(r) ==
    /\ pc'[r] = "tail" => DOMAIN wire'[r] = {SuffixRequest}
    /\ pc'[r] = "head" => DOMAIN wire'[r] = {HeadRequest}
    /\ pc'[r] = "fetch" =>
        /\ Registered' /\ meta'[r] = [size |-> object'.size, version |-> object'.version]
        /\ \A request \in DOMAIN wire'[r] : IsFetch(request)
    /\ \A request \in DOMAIN wire'[r] : wire'[r][request] \in Replies(request)

LEMMA ReaderStepKeepsCacheInv ==
    ASSUME CacheInv, NEW r \in Readers, OthersUnchanged(r), EntryIsKept, RequestsMatch(r),
           published' \in Versions, call' \in [Readers -> Calls]
    PROVE  CacheInv'
<1>1. TypeOK'
    <2>1. \A q \in Readers : \A request \in DOMAIN wire'[q] : wire'[q][request] \in Replies(request)
        BY DEF CacheInv, TypeOK, OthersUnchanged, RequestsMatch
    <2>2. DOMAIN object'.segments \subseteq Nat
        BY DEF EntryIsKept, WellFormed
    <2> QED BY <2>1, <2>2 DEF TypeOK, OthersUnchanged, EntryIsKept, Await, Meta, Replies
<1>2. AwaitsMatch'
    <2>1. \A q \in Readers \ {r} : pc[q] = "fetch" => Registered /\ Registered'
        BY DEF CacheInv, AwaitsMatch, EntryIsKept, Registered
    <2> QED BY <2>1 DEF CacheInv, AwaitsMatch, OthersUnchanged, EntryIsKept, RequestsMatch, IsFetch
<1>3. SegmentsStayApart'
    BY DEF EntryIsKept, SegmentsStayApart
<1> QED BY <1>1, <1>2, <1>3 DEF CacheInv

LEMMA EmptyMapIsSeparated == WellFormed(EmptyMap) /\ Separated(EmptyMap) /\ Content(EmptyMap) = {}
BY DEF EmptyMap, WellFormed, Separated, Content

LEMMA InitCacheInv == Init => CacheInv
<1> SUFFICES ASSUME Init PROVE CacheInv
    OBVIOUS
<1>1. TypeOK
    <2>1. (CHOOSE c \in Calls : TRUE) \in Calls
        BY CallsAreTyped
    <2>2. published \in Versions
        BY VersionsExist DEF Init, Versions
    <2>3. DOMAIN object.segments = {} /\ object.size = 0 /\ object.version = NoVersion
        BY DEF Init, NoObject, EmptyMap
    <2>4. meta \in [Readers -> Meta]
        BY NoMetaIsMeta DEF Init
    <2> QED BY <2>1, <2>2, <2>3, <2>4 DEF Init, TypeOK, NoRequests, Meta
<1>2. AwaitsMatch
    BY DEF Init, AwaitsMatch
<1>3. SegmentsStayApart
    BY EmptyMapIsSeparated DEF Init, NoObject, SegmentsStayApart
<1> QED BY <1>1, <1>2, <1>3 DEF CacheInv

LEMMA SameEntryIsKept == CacheInv /\ UNCHANGED object => EntryIsKept
BY DEF CacheInv, TypeOK, SegmentsStayApart, EntryIsKept

(* A plan for the entry the step leaves in the store. *)
LEMMA PlanKeepsCacheInv ==
    ASSUME CacheInv, NEW r \in Readers, NEW c \in Calls, EntryIsKept, Registered',
           Plan(r, c, object'), published' \in Versions, call' \in [Readers -> Calls]
    PROVE  CacheInv'
<1>1. /\ OthersUnchanged(r)
      /\ \/ pc'[r] = "idle" /\ DOMAIN wire'[r] = {}
         \/ /\ pc'[r] = "fetch"
            /\ meta'[r] = [size |-> object'.size, version |-> object'.version]
            /\ \A request \in DOMAIN wire'[r] : IsFetch(request) /\ wire'[r][request] = Pending
    BY PlanStep DEF CacheInv, EntryIsKept
<1>2. RequestsMatch(r)
    BY <1>1 DEF RequestsMatch, Replies
<1> QED BY <1>1, <1>2, ReaderStepKeepsCacheInv

LEMMA ReturnKeepsCacheInv ==
    ASSUME CacheInv, NEW r \in Readers, NEW result, Return(r, result), EntryIsKept,
           published' \in Versions, call' \in [Readers -> Calls]
    PROVE  CacheInv'
<1>1. OthersUnchanged(r) /\ pc'[r] = "idle" /\ DOMAIN wire'[r] = {}
    BY ReturnStep DEF CacheInv
<1>2. RequestsMatch(r)
    BY <1>1 DEF RequestsMatch
<1> QED BY <1>1, <1>2, ReaderStepKeepsCacheInv

LEMMA SendKeepsCacheInv ==
    ASSUME CacheInv, NEW r \in Readers, NEW await, NEW request,
           <<await, request>> \in {<<"tail", SuffixRequest>>, <<"head", HeadRequest>>},
           Send(r, await, {request}), UNCHANGED <<object, meta, answer>>,
           published' \in Versions, call' \in [Readers -> Calls]
    PROVE  CacheInv'
<1>1. await \in Await
    BY DEF Await
<1>2. /\ OthersUnchanged(r) /\ pc'[r] = await /\ DOMAIN wire'[r] = {request}
      /\ wire'[r][request] = Pending
    BY <1>1, SendStep DEF CacheInv
<1>3. RequestsMatch(r)
    BY <1>2 DEF RequestsMatch, Replies
<1> QED BY <1>2, <1>3, SameEntryIsKept, ReaderStepKeepsCacheInv

LEMMA BeginKeepsCacheInv ==
    ASSUME CacheInv, NEW r \in Readers, Begin(r) PROVE CacheInv'
<1>1. PICK c \in Calls :
        /\ call' = [call EXCEPT ![r] = c]
        /\ IF Registered THEN Plan(r, c, object)
           ELSE Send(r, "tail", {SuffixRequest}) /\ UNCHANGED <<meta, answer>>
    BY DEF Begin
<1>2. UNCHANGED <<published, object>>
    BY DEF Begin
<1>3. call' \in [Readers -> Calls] /\ published' \in Versions
    BY <1>1, <1>2 DEF CacheInv, TypeOK
<1>4. CASE Registered
    <2>1. Registered' /\ Plan(r, c, object')
        BY <1>1, <1>2, <1>4 DEF Registered
    <2> QED BY <1>2, <1>3, <2>1, SameEntryIsKept, PlanKeepsCacheInv
<1>5. CASE ~Registered
    <2>1. Send(r, "tail", {SuffixRequest}) /\ UNCHANGED <<object, meta, answer>>
        BY <1>1, <1>2, <1>5
    <2> QED BY <1>3, <2>1, SendKeepsCacheInv, SMTT(30)
<1> QED BY <1>4, <1>5

LEMMA RespondKeepsCacheInv ==
    ASSUME CacheInv, NEW r \in Readers, Respond(r) PROVE CacheInv'
<1>1. PICK request \in DOMAIN wire[r] :
        \E reply \in Served(request, published) \cup {Failure} :
            wire' = [wire EXCEPT ![r][request] = reply]
    BY DEF Respond
<1>2. PICK reply \in Served(request, published) \cup {Failure} :
        wire' = [wire EXCEPT ![r][request] = reply]
    BY <1>1
<1>3. UNCHANGED <<published, object, pc, call, meta, answer>>
    BY DEF Respond
<1>4. /\ DOMAIN wire' = Readers
      /\ \A q \in Readers \ {r} : wire'[q] = wire[q]
      /\ DOMAIN wire'[r] = DOMAIN wire[r]
      /\ \A other \in DOMAIN wire[r] : wire'[r][other] = IF other = request THEN reply ELSE wire[r][other]
    BY <1>2 DEF CacheInv, TypeOK
<1>5. OthersUnchanged(r)
    BY <1>3, <1>4 DEF CacheInv, TypeOK, OthersUnchanged, Await, Meta
<1>6. reply \in Replies(request)
    BY <1>2 DEF CacheInv, TypeOK, Replies
<1>7. \A other \in DOMAIN wire'[r] : wire'[r][other] \in Replies(other)
    BY <1>4, <1>6 DEF CacheInv, TypeOK
<1>8. RequestsMatch(r)
    <2>1. Registered' <=> Registered
        BY <1>3 DEF Registered
    <2> QED BY <1>3, <1>4, <1>7, <2>1 DEF CacheInv, AwaitsMatch, RequestsMatch
<1>9. call' \in [Readers -> Calls] /\ published' \in Versions
    BY <1>3 DEF CacheInv, TypeOK
<1> QED BY <1>3, <1>5, <1>8, <1>9, SameEntryIsKept, ReaderStepKeepsCacheInv

(* Registering keeps an entry that is there and creates it otherwise. *)
LEMMA RegisterStep ==
    ASSUME CacheInv, NEW r \in Readers, NEW size \in Nat \ {0},
           NEW version \in {NoVersion} \cup Versions,
           NEW segs, WellFormed(segs), Separated(segs), Register(r, size, version, segs)
    PROVE  /\ EntryIsKept /\ Registered' /\ object'.segments = segs
           /\ ~Registered => object'.size = size /\ object'.version = version
           /\ Plan(r, call[r], object')
<1>1. Plan(r, call[r], object')
    BY DEF Register
<1>2. CASE Registered
    <2>1. object' = CachedObject(object.size, object.version, segs)
        BY <1>2 DEF Register
    <2> QED BY <1>1, <1>2, <2>1 DEF CacheInv, TypeOK, EntryIsKept, Registered, CachedObject
<1>3. CASE ~Registered
    <2>1. object' = CachedObject(size, version, segs)
        BY <1>3 DEF Register
    <2> QED BY <1>1, <1>3, <2>1 DEF CachedObject, EntryIsKept, Registered
<1> QED BY <1>2, <1>3

LEMMA VersionOfIsTyped ==
    ASSUME NEW reply, reply.version \in Versions
    PROVE  VersionOf(reply) \in {NoVersion} \cup Versions
BY DEF VersionOf

LEMMA DeliverTailKeepsCacheInv ==
    ASSUME CacheInv, NEW r \in Readers, DeliverTail(r) PROVE CacheInv'
<1> DEFINE tail == wire[r][SuffixRequest]
           start == tail.range.start
           segs == Insert(object.segments, start, Placed(tail, start))
<1>1. pc[r] = "tail" /\ DOMAIN wire[r] = {SuffixRequest}
    BY DEF DeliverTail, CacheInv, AwaitsMatch
<1>2. /\ IF ~Succeeded(tail) THEN Return(r, Err("failed")) /\ UNCHANGED object
         ELSE IF HasPosition(tail)
         THEN Register(r, Size[tail.version], VersionOf(tail), segs)
         ELSE Send(r, "head", {HeadRequest}) /\ UNCHANGED <<object, meta, answer>>
      /\ UNCHANGED <<published, call>>
    BY <1>1 DEF DeliverTail, Answered
<1>3. call' \in [Readers -> Calls] /\ published' \in Versions
    BY <1>2 DEF CacheInv, TypeOK
<1>4. CASE ~Succeeded(tail)
    BY <1>2, <1>3, <1>4, SameEntryIsKept, ReturnKeepsCacheInv
<1>5. CASE Succeeded(tail) /\ HasPosition(tail)
    <2>1. tail \in Replies(SuffixRequest)
        BY <1>1 DEF CacheInv, TypeOK
    <2>2. PICK v \in Versions, whole \in BOOLEAN : tail = Serve(SuffixRequest, v, whole)
        BY <1>5, <2>1, ServedOrFailed
    <2>3. tail.version = v
        BY <1>5, <2>2, ServedBytes
    <2>4. /\ start \in Nat /\ Placed(tail, start).end \in Nat
          /\ start < Placed(tail, start).end
        BY <1>5, <2>2, TailIsPlaced
    <2>5. WellFormed(segs) /\ Separated(segs)
        BY <2>4, InsertSeparates DEF CacheInv, SegmentsStayApart
    <2>6. Size[tail.version] \in Nat \ {0}
        BY <2>3, SizesArePositive
    <2>7. VersionOf(tail) \in {NoVersion} \cup Versions
        BY <2>3, VersionOfIsTyped
    <2>8. EntryIsKept /\ Registered' /\ Plan(r, call[r], object')
        BY <1>2, <1>5, <2>5, <2>6, <2>7, RegisterStep
    <2>9. call[r] \in Calls
        BY DEF CacheInv, TypeOK
    <2> QED BY <1>3, <2>8, <2>9, PlanKeepsCacheInv
<1>6. CASE Succeeded(tail) /\ ~HasPosition(tail)
    BY <1>2, <1>3, <1>6, SendKeepsCacheInv
<1> QED BY <1>4, <1>5, <1>6

LEMMA DeliverHeadKeepsCacheInv ==
    ASSUME CacheInv, NEW r \in Readers, DeliverHead(r) PROVE CacheInv'
<1> DEFINE head == wire[r][HeadRequest]
<1>1. pc[r] = "head" /\ DOMAIN wire[r] = {HeadRequest}
    BY DEF DeliverHead, CacheInv, AwaitsMatch
<1>2. /\ IF ~Succeeded(head) \/ "content_length" \notin Exposed
         THEN Return(r, Err("failed")) /\ UNCHANGED object
         ELSE Register(r, Size[head.version], VersionOf(head), object.segments)
      /\ UNCHANGED <<published, call>>
    BY <1>1 DEF DeliverHead, Answered
<1>3. call' \in [Readers -> Calls] /\ published' \in Versions
    BY <1>2 DEF CacheInv, TypeOK
<1>4. CASE ~Succeeded(head) \/ "content_length" \notin Exposed
    BY <1>2, <1>3, <1>4, SameEntryIsKept, ReturnKeepsCacheInv
<1>5. CASE Succeeded(head) /\ "content_length" \in Exposed
    <2>1. head \in Replies(HeadRequest)
        BY <1>1 DEF CacheInv, TypeOK
    <2>2. PICK v \in Versions, whole \in BOOLEAN : head = Serve(HeadRequest, v, whole)
        BY <1>5, <2>1, ServedOrFailed
    <2>3. head.version = v
        BY <1>5, <2>2, ServedBytes
    <2>4. WellFormed(object.segments) /\ Separated(object.segments)
        BY DEF CacheInv, SegmentsStayApart
    <2>5. Size[head.version] \in Nat \ {0}
        BY <2>3, SizesArePositive
    <2>6. VersionOf(head) \in {NoVersion} \cup Versions
        BY <2>3, VersionOfIsTyped
    <2>7. EntryIsKept /\ Registered' /\ Plan(r, call[r], object')
        BY <1>2, <1>5, <2>4, <2>5, <2>6, RegisterStep
    <2>8. call[r] \in Calls
        BY DEF CacheInv, TypeOK
    <2> QED BY <1>3, <2>7, <2>8, PlanKeepsCacheInv
<1> QED BY <1>4, <1>5

(* What a fetch that is delivered may do: fail and leave the cache alone,  *)
(* or insert the bytes of the version it was served from.                  *)
LEMMA DeliverRangeCases ==
    ASSUME CacheInv, NEW r \in Readers, DeliverRange(r)
    PROVE  \/ (\E kind : Return(r, Err(kind))) /\ UNCHANGED object
           \/ \E v \in Versions, start \in Nat : \E new :
                /\ new.end \in Nat /\ start < new.end
                /\ \A o \in start .. (new.end - 1) : new.at[o] = Byte(v, o)
                /\ VersionIsExposed /\ object.version # NoVersion => v = object.version
                /\ object' = CachedObject(object.size, object.version,
                                         Insert(object.segments, start, new))
                /\ \/ Return(r, CutOut(object'.segments, RangesOf(call[r], object.size)))
                   \/ /\ \E request : wire' = [wire EXCEPT ![r] = Restrict(@, DOMAIN @ \ {request})]
                      /\ UNCHANGED <<pc, meta, answer>>
<1>1. /\ pc[r] = "fetch" /\ meta[r] = [size |-> object.size, version |-> object.version]
      /\ \A request \in DOMAIN wire[r] : IsFetch(request)
    BY DEF DeliverRange, CacheInv, AwaitsMatch
<1>2. PICK request \in Answered(r) :
        LET reply == wire[r][request]
            start == StartOf(reply, request.range)
            segs  == Insert(object.segments, start, Placed(reply, start))
        IN  IF ~Succeeded(reply) THEN Return(r, Err("failed")) /\ UNCHANGED object
            ELSE IF IsStale(meta[r], reply) THEN Return(r, Err("stale")) /\ UNCHANGED object
            ELSE IF IsIncomplete(reply, request.range)
                 THEN Return(r, Err("incomplete")) /\ UNCHANGED object
            ELSE /\ object' = CachedObject(object.size, object.version, segs)
                 /\ IF DOMAIN wire[r] = {request}
                    THEN Return(r, CutOut(segs, RangesOf(call[r], meta[r].size)))
                    ELSE /\ wire' = [wire EXCEPT ![r] = Restrict(@, DOMAIN @ \ {request})]
                         /\ UNCHANGED <<pc, meta, answer>>
    BY DEF DeliverRange
<1> DEFINE reply == wire[r][request]
           start == StartOf(reply, request.range)
           new == Placed(reply, start)
           segs == Insert(object.segments, start, new)
<1>3. CASE ~Succeeded(reply) \/ IsStale(meta[r], reply) \/ IsIncomplete(reply, request.range)
    BY <1>2, <1>3
<1>4. CASE Succeeded(reply) /\ ~IsStale(meta[r], reply) /\ ~IsIncomplete(reply, request.range)
    <2>1. request \in DOMAIN wire[r] /\ IsFetch(request) /\ reply \in Replies(request)
        BY <1>1 DEF Answered, CacheInv, TypeOK
    <2>2. PICK v \in Versions, whole \in BOOLEAN : reply = Serve(request, v, whole)
        BY <1>4, <2>1, ServedOrFailed
    <2>3. reply.version = v
        BY <1>4, <2>1, <2>2, ServedBytes
    <2>4. /\ start \in Nat /\ new.end \in Nat /\ start < new.end
          /\ \A o \in start .. (new.end - 1) : new.at[o] = Byte(v, o)
        BY <1>4, <2>1, <2>2, FetchIsPlaced
    <2>5. VersionIsExposed /\ object.version # NoVersion => v = object.version
        BY <1>1, <1>4, <2>3, VersionsExist DEF IsStale, VersionOf, Versions, NoVersion
    <2>6. /\ object' = CachedObject(object.size, object.version, segs)
          /\ \/ Return(r, CutOut(segs, RangesOf(call[r], object.size)))
             \/ /\ wire' = [wire EXCEPT ![r] = Restrict(@, DOMAIN @ \ {request})]
                /\ UNCHANGED <<pc, meta, answer>>
        BY <1>1, <1>2, <1>4
    <2>7. object'.segments = segs
        BY <2>6 DEF CachedObject
    <2> HIDE DEF reply, start, new
    <2> QED BY <2>4, <2>5, <2>6, <2>7
<1> QED BY <1>3, <1>4

LEMMA DeliverRangeKeepsCacheInv ==
    ASSUME CacheInv, NEW r \in Readers, DeliverRange(r) PROVE CacheInv'
<1>1. UNCHANGED <<published, call>> /\ pc[r] = "fetch"
    BY DEF DeliverRange
<1>2. call' \in [Readers -> Calls] /\ published' \in Versions
    BY <1>1 DEF CacheInv, TypeOK
<1>3. CASE (\E kind : Return(r, Err(kind))) /\ UNCHANGED object
    BY <1>2, <1>3, SameEntryIsKept, ReturnKeepsCacheInv
<1>4. ASSUME NEW v \in Versions, NEW start \in Nat, NEW new,
             new.end \in Nat /\ start < new.end,
             object' = CachedObject(object.size, object.version,
                                    Insert(object.segments, start, new)),
             \/ Return(r, CutOut(object'.segments, RangesOf(call[r], object.size)))
             \/ /\ \E request : wire' = [wire EXCEPT ![r] = Restrict(@, DOMAIN @ \ {request})]
                /\ UNCHANGED <<pc, meta, answer>>
      PROVE  CacheInv'
    <2>1. /\ object'.size = object.size /\ object'.version = object.version
          /\ object'.segments = Insert(object.segments, start, new)
        BY <1>4 DEF CachedObject
    <2>2. WellFormed(object'.segments) /\ Separated(object'.segments)
        BY <1>4, <2>1, InsertSeparates DEF CacheInv, SegmentsStayApart
    <2>3. EntryIsKept
        BY <2>1, <2>2 DEF EntryIsKept, CacheInv, TypeOK
    <2>4. CASE Return(r, CutOut(object'.segments, RangesOf(call[r], object.size)))
        BY <1>2, <2>3, <2>4, ReturnKeepsCacheInv
    <2>5. CASE /\ \E request : wire' = [wire EXCEPT ![r] = Restrict(@, DOMAIN @ \ {request})]
               /\ UNCHANGED <<pc, meta, answer>>
        <3>1. PICK request : wire' = [wire EXCEPT ![r] = Restrict(@, DOMAIN @ \ {request})]
            BY <2>5
        <3>2. /\ DOMAIN wire' = Readers /\ \A q \in Readers \ {r} : wire'[q] = wire[q]
              /\ wire'[r] = Restrict(wire[r], DOMAIN wire[r] \ {request})
            BY <3>1 DEF CacheInv, TypeOK
        <3>3. /\ DOMAIN wire'[r] \subseteq DOMAIN wire[r]
              /\ \A other \in DOMAIN wire'[r] : wire'[r][other] = wire[r][other]
            BY <3>2 DEF Restrict
        <3>4. OthersUnchanged(r)
            BY <2>5, <3>2 DEF CacheInv, TypeOK, OthersUnchanged, Await, Meta
        <3>5. \A other \in DOMAIN wire'[r] : wire'[r][other] \in Replies(other)
            BY <3>3 DEF CacheInv, TypeOK
        <3>6. RequestsMatch(r)
            BY <1>1, <2>1, <2>5, <3>3, <3>5 DEF CacheInv, AwaitsMatch, RequestsMatch, Registered
        <3> QED BY <1>2, <2>3, <3>4, <3>6, ReaderStepKeepsCacheInv
    <2> QED BY <1>4, <2>4, <2>5
<1> QED BY <1>3, <1>4, DeliverRangeCases

LEMMA NextKeepsCacheInv == CacheInv /\ [Next]_vars => CacheInv'
<1> SUFFICES ASSUME CacheInv, [Next]_vars PROVE CacheInv'
    OBVIOUS
<1>1. CASE Republish
    <2>1. published' \in Versions
        BY <1>1, VersionsExist DEF Republish, CacheInv, TypeOK, Versions
    <2>2. UNCHANGED <<object, pc, call, meta, wire, answer>>
        BY <1>1 DEF Republish
    <2> QED BY <2>1, <2>2 DEF CacheInv, TypeOK, AwaitsMatch, SegmentsStayApart, Registered
<1>2. CASE \E r \in Readers : Begin(r)
    BY <1>2, BeginKeepsCacheInv
<1>3. CASE \E r \in Readers : Respond(r)
    BY <1>3, RespondKeepsCacheInv
<1>4. CASE \E r \in Readers : DeliverTail(r)
    BY <1>4, DeliverTailKeepsCacheInv
<1>5. CASE \E r \in Readers : DeliverHead(r)
    BY <1>5, DeliverHeadKeepsCacheInv
<1>6. CASE \E r \in Readers : DeliverRange(r)
    BY <1>6, DeliverRangeKeepsCacheInv
<1>7. CASE \E r \in Readers : Drop(r)
    <2>1. PICK r \in Readers : Return(r, Err("dropped")) /\ UNCHANGED <<published, object, call>>
        BY <1>7 DEF Drop
    <2>2. call' \in [Readers -> Calls] /\ published' \in Versions
        BY <2>1 DEF CacheInv, TypeOK
    <2> QED BY <2>1, <2>2, SameEntryIsKept, ReturnKeepsCacheInv
<1>8. CASE UNCHANGED vars
    BY <1>8 DEF vars, CacheInv, TypeOK, AwaitsMatch, SegmentsStayApart, Registered
<1> QED BY <1>1, <1>2, <1>3, <1>4, <1>5, <1>6, <1>7, <1>8 DEF Next

(* Types, requests and segments, in every reachable state.                 *)
THEOREM CacheInvariant == Spec => []CacheInv
<1>1. Init => CacheInv
    BY InitCacheInv
<1>2. CacheInv /\ [Next]_vars => CacheInv'
    BY NextKeepsCacheInv
<1> QED BY <1>1, <1>2, PTL DEF Spec

(* The cached segments never overlap and never touch, for any number of    *)
(* concurrent readers, and however often the file is republished.          *)
THEOREM SegmentsNeverTouch == Spec => []SegmentsStayApart
<1>1. CacheInv => SegmentsStayApart
    BY DEF CacheInv
<1> QED BY <1>1, CacheInvariant, PTL
-----------------------------------------------------------------------------
(* One version: the invariant of a store that is opened by a first read.   *)

LEMMA TakenIsExact ==
    ASSUME NEW result, TakenFrom(result, object.segments), Registered, NeverMixesVersions,
           NEW range \in DOMAIN result.value, NEW o \in Offsets(range)
    PROVE  result.value[range][o] = Byte(object.version, o)
<1>1. <<o, result.value[range][o]>> \in Content(object.segments)
    BY DEF TakenFrom
<1> QED BY <1>1 DEF NeverMixesVersions

(* A step of r that leaves a registered entry behind. *)
LEMMA RegisteredStepKeepsVersionInv ==
    ASSUME VersionInv, NEW r \in Readers, OthersUnchanged(r), EntryIsKept,
           Registered', NeverMixesVersions',
           object'.version \in Versions, object'.size = Size[object'.version],
           \A q \in Readers \ {r} : pc[q] \in {"idle", "fetch"},
           pc'[r] \in {"idle", "fetch"},
           TakenFrom(answer'[r], object'.segments) \/ answer'[r] = answer[r]
    PROVE  VersionInv'
<1>1. FirstReadOpens'
    BY DEF FirstReadOpens, OthersUnchanged
<1>2. ASSUME NEW q \in Readers, answer'[q] = answer[q],
             NEW range \in DOMAIN answer'[q].value, NEW o \in Offsets(range)
      PROVE  answer'[q].value[range][o] = Byte(object'.version, o)
    <2>1. CASE Registered
        BY <1>2, <2>1 DEF VersionInv, AnswersAreExact, EntryIsKept
    <2>2. CASE ~Registered
        BY <1>2, <2>2 DEF VersionInv, FirstReadOpens
    <2> QED BY <2>1, <2>2
<1>3. ASSUME TakenFrom(answer'[r], object'.segments),
             NEW range \in DOMAIN answer'[r].value, NEW o \in Offsets(range)
      PROVE  answer'[r].value[range][o] = Byte(object'.version, o)
    <2>1. <<o, answer'[r].value[range][o]>> \in Content(object'.segments)
        BY <1>3 DEF TakenFrom
    <2> QED BY <2>1 DEF NeverMixesVersions
<1>4. AnswersAreExact'
    BY <1>2, <1>3 DEF AnswersAreExact, OthersUnchanged
<1> QED BY <1>1, <1>4 DEF VersionInv

(* A step of r that leaves the object unregistered. *)
LEMMA UnregisteredStepKeepsVersionInv ==
    ASSUME VersionInv, NEW r \in Readers, OthersUnchanged(r),
           ~Registered, UNCHANGED object,
           \A q \in Readers \ {r} : ~Active(q),
           answer'[r] = answer[r] \/ DOMAIN answer'[r].value = {}
    PROVE  VersionInv'
<1>1. ~Registered' /\ object' = NoObject
    BY DEF Registered, VersionInv, FirstReadOpens
<1>2. \A q \in Readers : DOMAIN answer'[q].value = {}
    BY DEF VersionInv, FirstReadOpens, OthersUnchanged
<1>3. \A q \in Readers \ {r} : ~Active(q)'
    BY DEF Active, OthersUnchanged
<1> QED BY <1>1, <1>2, <1>3 DEF VersionInv, FirstReadOpens, NeverMixesVersions, AnswersAreExact

LEMMA ErrorKeepsVersionInv ==
    ASSUME CacheInv, VersionInv, NEW r \in Readers, NEW kind,
           Return(r, Err(kind)), UNCHANGED object,
           ~Registered => \A q \in Readers \ {r} : ~Active(q)
    PROVE  VersionInv'
<1>1. /\ OthersUnchanged(r) /\ pc'[r] = "idle"
      /\ DOMAIN answer'[r].value = {} /\ TakenFrom(answer'[r], object'.segments)
    BY ReturnStep, ErrorsTakeNothing DEF CacheInv
<1>2. CASE Registered
    <2>1. Registered' /\ EntryIsKept
        BY <1>2, SameEntryIsKept DEF Registered
    <2>2. NeverMixesVersions'
        BY <1>2 DEF VersionInv, NeverMixesVersions, Registered
    <2>3. \A q \in Readers : pc[q] \in {"idle", "fetch"}
        BY <1>2 DEF VersionInv, FirstReadOpens
    <2>4. object'.version \in Versions /\ object'.size = Size[object'.version]
        BY <1>2 DEF VersionInv, FirstReadOpens
    <2> QED BY <1>1, <2>1, <2>2, <2>3, <2>4, RegisteredStepKeepsVersionInv
<1>3. CASE ~Registered
    BY <1>1, <1>3, UnregisteredStepKeepsVersionInv
<1> QED BY <1>2, <1>3

LEMMA InitVersionInv == Init => VersionInv
<1> SUFFICES ASSUME Init PROVE VersionInv
    OBVIOUS
<1>1. object = NoObject /\ ~Registered
    BY DEF Init, NoObject, Registered
<1>2. \A r \in Readers : ~Active(r) /\ DOMAIN answer[r].value = {}
    BY DEF Init, Active, Ok, NoValue
<1> QED BY <1>1, <1>2 DEF VersionInv, FirstReadOpens, NeverMixesVersions, AnswersAreExact

LEMMA BeginKeepsVersionInv ==
    ASSUME OpenFirst, CacheInv, VersionInv, NEW r \in Readers, Begin(r) PROVE VersionInv'
<1>1. PICK c \in Calls :
        IF Registered THEN Plan(r, c, object)
        ELSE Send(r, "tail", {SuffixRequest}) /\ UNCHANGED <<meta, answer>>
    BY DEF Begin
<1>2. /\ UNCHANGED <<published, object>> /\ pc[r] = "idle"
      /\ Registered \/ \A q \in Readers : ~Active(q)
    BY DEF Begin
<1>3. CASE Registered
    <2>1. Registered' /\ EntryIsKept
        BY <1>2, <1>3, SameEntryIsKept DEF Registered
    <2>2. /\ OthersUnchanged(r) /\ pc'[r] \in {"idle", "fetch"}
          /\ TakenFrom(answer'[r], object.segments) \/ answer'[r] = answer[r]
        <3>1. /\ TypeOK /\ object.size \in Nat /\ object.version \in {NoVersion} \cup Versions
              /\ WellFormed(object.segments) /\ Plan(r, c, object)
            BY <1>1, <1>3 DEF CacheInv, TypeOK, SegmentsStayApart
        <3> QED BY <3>1, PlanStep
    <2>3. NeverMixesVersions'
        BY <1>2, <1>3 DEF VersionInv, NeverMixesVersions, Registered
    <2>4. \A q \in Readers : pc[q] \in {"idle", "fetch"}
        BY <1>3 DEF VersionInv, FirstReadOpens
    <2>5. object'.version \in Versions /\ object'.size = Size[object'.version]
        BY <1>2, <1>3 DEF VersionInv, FirstReadOpens
    <2>6. TakenFrom(answer'[r], object'.segments) \/ answer'[r] = answer[r]
        BY <1>2, <2>2
    <2> QED BY <2>1, <2>2, <2>3, <2>4, <2>5, <2>6, RegisteredStepKeepsVersionInv
<1>4. CASE ~Registered
    <2>1. OthersUnchanged(r) /\ answer'[r] = answer[r]
        BY <1>1, <1>4, SendStep DEF CacheInv, Await
    <2> QED BY <1>2, <1>4, <2>1, UnregisteredStepKeepsVersionInv
<1> QED BY <1>3, <1>4

(* Before the object is registered, the reader that asks for its tail or   *)
(* its size is the only active one.                                        *)
LEMMA FirstReaderIsAlone ==
    ASSUME VersionInv, NEW r \in Readers, pc[r] \in {"tail", "head"}
    PROVE  /\ ~Registered /\ object = NoObject
           /\ \A q \in Readers \ {r} : ~Active(q)
BY DEF VersionInv, FirstReadOpens, Active

(* The first reader registers version v with bytes of v only. *)
LEMMA FirstRegisterKeepsVersionInv ==
    ASSUME CacheInv, VersionInv, NEW r \in Readers, pc[r] \in {"tail", "head"},
           NEW v \in Versions, NEW segs, WellFormed(segs), Separated(segs),
           \A entry \in Content(segs) : entry[2] = Byte(v, entry[1]),
           Register(r, Size[v], v, segs)
    PROVE  VersionInv'
<1>1. ~Registered /\ \A q \in Readers \ {r} : ~Active(q)
    BY FirstReaderIsAlone
<1>2. Size[v] \in Nat \ {0} /\ v \in {NoVersion} \cup Versions
    BY SizesArePositive
<1>3. /\ EntryIsKept /\ Registered' /\ object'.segments = segs
      /\ object'.size = Size[v] /\ object'.version = v
      /\ Plan(r, call[r], object')
    BY <1>1, <1>2, RegisterStep
<1>4. /\ OthersUnchanged(r) /\ pc'[r] \in {"idle", "fetch"}
      /\ TakenFrom(answer'[r], object'.segments) \/ answer'[r] = answer[r]
    <2>1. /\ TypeOK /\ call[r] \in Calls
          /\ object'.size \in Nat /\ object'.version \in {NoVersion} \cup Versions
          /\ WellFormed(object'.segments)
        BY <1>3 DEF CacheInv, TypeOK, EntryIsKept
    <2> QED BY <1>3, <2>1, PlanStep
<1>5. NeverMixesVersions'
    BY <1>3 DEF NeverMixesVersions
<1>6. \A q \in Readers \ {r} : pc[q] \in {"idle", "fetch"}
    BY <1>1 DEF Active, CacheInv, TypeOK
<1> QED BY <1>3, <1>4, <1>5, <1>6, RegisteredStepKeepsVersionInv

LEMMA DeliverTailKeepsVersionInv ==
    ASSUME VersionIsExposed, CacheInv, VersionInv, NEW r \in Readers, DeliverTail(r)
    PROVE  VersionInv'
<1> DEFINE tail == wire[r][SuffixRequest]
           start == tail.range.start
           new == Placed(tail, start)
           segs == Insert(object.segments, start, new)
<1>1. pc[r] = "tail" /\ DOMAIN wire[r] = {SuffixRequest}
    BY DEF DeliverTail, CacheInv, AwaitsMatch
<1>2. IF ~Succeeded(tail) THEN Return(r, Err("failed")) /\ UNCHANGED object
      ELSE IF HasPosition(tail)
      THEN Register(r, Size[tail.version], VersionOf(tail), segs)
      ELSE Send(r, "head", {HeadRequest}) /\ UNCHANGED <<object, meta, answer>>
    BY <1>1 DEF DeliverTail, Answered
<1>3. /\ ~Registered /\ object = NoObject
      /\ \A q \in Readers \ {r} : ~Active(q)
    BY <1>1, FirstReaderIsAlone
<1>4. CASE ~Succeeded(tail)
    BY <1>2, <1>3, <1>4, ErrorKeepsVersionInv
<1>5. CASE Succeeded(tail) /\ HasPosition(tail)
    <2>1. tail \in Replies(SuffixRequest)
        BY <1>1 DEF CacheInv, TypeOK
    <2>2. PICK v \in Versions, whole \in BOOLEAN : tail = Serve(SuffixRequest, v, whole)
        BY <1>5, <2>1, ServedOrFailed
    <2>3. tail.version = v /\ VersionOf(tail) = v
        <3>1. tail.version = v
            BY <1>5, <2>2, ServedBytes
        <3> QED BY <3>1 DEF VersionOf
    <2>4. /\ start \in Nat /\ new.end \in Nat /\ start < new.end
          /\ \A o \in start .. (new.end - 1) : new.at[o] = Byte(v, o)
        BY <1>5, <2>2, TailIsPlaced
    <2>5. WellFormed(segs) /\ Separated(segs)
        BY <2>4, InsertSeparates DEF CacheInv, SegmentsStayApart
    <2>6. Content(object.segments) = {}
        BY <1>3, EmptyMapIsSeparated DEF NoObject
    <2>7. \A entry \in Content(segs) : \E o \in start .. (new.end - 1) : entry = <<o, new.at[o]>>
        <3> DEFINE old == object.segments
        <3>1. WellFormed(old) /\ Separated(old)
            BY DEF CacheInv, SegmentsStayApart
        <3> TAKE entry \in Content(segs)
        <3>2. entry \in Content(Insert(old, start, new))
            OBVIOUS
        <3> HIDE DEF old, segs, start, new
        <3>3. entry \in Content(old) \/ \E o \in start .. (new.end - 1) : entry = <<o, new.at[o]>>
            BY <2>4, <3>1, <3>2, InsertAddsNothingElse
        <3> QED BY <2>6, <3>3 DEF old
    <2> HIDE DEF segs, new
    <2>8. \A entry \in Content(segs) : entry[2] = Byte(v, entry[1])
        BY <2>4, <2>7
    <2>9. Register(r, Size[v], v, segs)
        BY <1>2, <1>5, <2>3
    <2> QED BY <1>1, <2>5, <2>8, <2>9, FirstRegisterKeepsVersionInv
<1>6. CASE Succeeded(tail) /\ ~HasPosition(tail)
    <2>1. OthersUnchanged(r) /\ answer'[r] = answer[r]
        BY <1>2, <1>6, SendStep DEF CacheInv, Await
    <2> QED BY <1>2, <1>3, <1>6, <2>1, UnregisteredStepKeepsVersionInv
<1> QED BY <1>4, <1>5, <1>6

LEMMA DeliverHeadKeepsVersionInv ==
    ASSUME VersionIsExposed, CacheInv, VersionInv, NEW r \in Readers, DeliverHead(r)
    PROVE  VersionInv'
<1> DEFINE head == wire[r][HeadRequest]
<1>1. pc[r] = "head" /\ DOMAIN wire[r] = {HeadRequest}
    BY DEF DeliverHead, CacheInv, AwaitsMatch
<1>2. IF ~Succeeded(head) \/ "content_length" \notin Exposed
      THEN Return(r, Err("failed")) /\ UNCHANGED object
      ELSE Register(r, Size[head.version], VersionOf(head), object.segments)
    BY <1>1 DEF DeliverHead, Answered
<1>3. /\ ~Registered /\ object = NoObject
      /\ \A q \in Readers \ {r} : ~Active(q)
    BY <1>1, FirstReaderIsAlone
<1>4. CASE ~Succeeded(head) \/ "content_length" \notin Exposed
    BY <1>2, <1>3, <1>4, ErrorKeepsVersionInv
<1>5. CASE Succeeded(head) /\ "content_length" \in Exposed
    <2>1. head \in Replies(HeadRequest)
        BY <1>1 DEF CacheInv, TypeOK
    <2>2. PICK v \in Versions, whole \in BOOLEAN : head = Serve(HeadRequest, v, whole)
        BY <1>5, <2>1, ServedOrFailed
    <2>3. head.version = v /\ VersionOf(head) = v
        <3>1. head.version = v
            BY <1>5, <2>2, ServedBytes
        <3> QED BY <3>1 DEF VersionOf
    <2>4. /\ WellFormed(object.segments) /\ Separated(object.segments)
          /\ Content(object.segments) = {}
        BY <1>3, EmptyMapIsSeparated DEF NoObject
    <2>5. Register(r, Size[v], v, object.segments)
        BY <1>2, <1>5, <2>3
    <2>6. \A entry \in Content(object.segments) : entry[2] = Byte(v, entry[1])
        BY <2>4
    <2> QED BY <1>1, <2>4, <2>5, <2>6, FirstRegisterKeepsVersionInv
<1> QED BY <1>4, <1>5

(* What a delivered fetch does to the cache and the answers. *)
LEMMA DeliverRangeKeepsVersionInv ==
    ASSUME VersionIsExposed, CacheInv, VersionInv, NEW r \in Readers, DeliverRange(r)
    PROVE  VersionInv' /\ Content(object.segments) \subseteq Content(object'.segments)
<1>1. pc[r] = "fetch" /\ Registered
    BY DEF DeliverRange, CacheInv, AwaitsMatch
<1>2. /\ object.version \in Versions /\ object.size = Size[object.version]
      /\ \A q \in Readers : pc[q] \in {"idle", "fetch"}
    BY <1>1 DEF VersionInv, FirstReadOpens
<1>3. CASE (\E kind : Return(r, Err(kind))) /\ UNCHANGED object
    BY <1>1, <1>3, ErrorKeepsVersionInv
<1>4. ASSUME NEW v \in Versions, NEW start \in Nat, NEW new,
             new.end \in Nat /\ start < new.end,
             \A o \in start .. (new.end - 1) : new.at[o] = Byte(v, o),
             VersionIsExposed /\ object.version # NoVersion => v = object.version,
             object' = CachedObject(object.size, object.version,
                                    Insert(object.segments, start, new)),
             \/ Return(r, CutOut(object'.segments, RangesOf(call[r], object.size)))
             \/ /\ \E request : wire' = [wire EXCEPT ![r] = Restrict(@, DOMAIN @ \ {request})]
                /\ UNCHANGED <<pc, meta, answer>>
      PROVE  VersionInv' /\ Content(object.segments) \subseteq Content(object'.segments)
    <2>1. /\ object'.size = object.size /\ object'.version = object.version
          /\ object'.segments = Insert(object.segments, start, new)
        BY <1>4 DEF CachedObject
    <2>2. v = object.version
        BY <1>2, <1>4 DEF Versions, NoVersion
    <2>3. WellFormed(object.segments) /\ Separated(object.segments)
        BY DEF CacheInv, SegmentsStayApart
    <2>4. WellFormed(object'.segments) /\ Separated(object'.segments)
        BY <1>4, <2>1, <2>3, InsertSeparates
    <2>5. EntryIsKept /\ Registered'
        BY <1>1, <2>1, <2>4 DEF EntryIsKept, CacheInv, TypeOK, Registered
    <2>6. NeverMixesVersions'
        <3> SUFFICES ASSUME NEW entry \in Content(object'.segments)
                     PROVE  entry[2] = Byte(object'.version, entry[1])
            BY DEF NeverMixesVersions
        <3>1. \/ entry \in Content(object.segments)
              \/ \E o \in start .. (new.end - 1) : entry = <<o, new.at[o]>>
            BY <1>4, <2>1, <2>3, InsertAddsNothingElse
        <3> QED BY <1>1, <1>4, <2>1, <2>2, <3>1 DEF VersionInv, NeverMixesVersions
    <2>7. Content(object.segments) \subseteq Content(object'.segments)
        <3> SUFFICES ASSUME NEW s \in DOMAIN object.segments,
                            NEW o \in s .. (object.segments[s].end - 1)
                     PROVE  <<o, object.segments[s].at[o]>> \in Content(object'.segments)
            BY DEF Content
        <3>1. <<o, object.segments[s].at[o]>> \in Content(object.segments)
            BY DEF Content
        <3>2. object.segments[s].at[o] = Byte(object.version, o)
            BY <1>1, <3>1 DEF VersionInv, NeverMixesVersions
        <3>3. o \in Nat
            BY <2>3 DEF WellFormed
        <3>4. start <= o /\ o < new.end => new.at[o] = object.segments[s].at[o]
            BY <1>4, <2>2, <3>2, <3>3
        <3>5. \A t \in DOMAIN object.segments : \A x \in t .. (object.segments[t].end - 1) :
                (start <= x /\ x < new.end => new.at[x] = object.segments[t].at[x])
                => <<x, object.segments[t].at[x]>> \in Content(Insert(object.segments, start, new))
            BY <1>4, <2>3, InsertKeeps
        <3>6. <<o, object.segments[s].at[o]>> \in Content(Insert(object.segments, start, new))
            BY <3>4, <3>5
        <3> QED BY <2>1, <3>6
    <2>8. /\ OthersUnchanged(r) /\ pc'[r] \in {"idle", "fetch"}
          /\ TakenFrom(answer'[r], object'.segments) \/ answer'[r] = answer[r]
        <3>1. CASE Return(r, CutOut(object'.segments, RangesOf(call[r], object.size)))
            <4>1. RangesOf(call[r], object.size) \subseteq [start : Nat, end : Nat]
                BY RangesAreTyped DEF CacheInv, TypeOK
            <4> QED BY <2>4, <3>1, <4>1, ReturnStep, CutOutIsCached DEF CacheInv
        <3>2. CASE /\ \E request : wire' = [wire EXCEPT ![r] = Restrict(@, DOMAIN @ \ {request})]
                   /\ UNCHANGED <<pc, meta, answer>>
            BY <1>1, <3>2 DEF CacheInv, TypeOK, OthersUnchanged, Await, Meta
        <3> QED BY <1>4, <3>1, <3>2
    <2>9. VersionInv'
        BY <1>2, <2>1, <2>5, <2>6, <2>8, RegisteredStepKeepsVersionInv
    <2> QED BY <2>7, <2>9
<1> QED BY <1>3, <1>4, DeliverRangeCases

LEMMA NextKeepsVersionInv ==
    ASSUME OpenFirst, VersionIsExposed, CacheInv, VersionInv, [Next]_vars
    PROVE  VersionInv'
<1>1. CASE Republish
    BY <1>1 DEF Republish, VersionInv, FirstReadOpens, NeverMixesVersions, AnswersAreExact,
                Registered, Active
<1>2. CASE \E r \in Readers : Begin(r)
    BY <1>2, BeginKeepsVersionInv
<1>3. CASE \E r \in Readers : Respond(r)
    <2>1. UNCHANGED <<object, pc, call, meta, answer>>
        BY <1>3 DEF Respond
    <2> QED BY <2>1 DEF VersionInv, FirstReadOpens, NeverMixesVersions, AnswersAreExact,
                        Registered, Active
<1>4. CASE \E r \in Readers : DeliverTail(r)
    BY <1>4, DeliverTailKeepsVersionInv
<1>5. CASE \E r \in Readers : DeliverHead(r)
    BY <1>5, DeliverHeadKeepsVersionInv
<1>6. CASE \E r \in Readers : DeliverRange(r)
    BY <1>6, DeliverRangeKeepsVersionInv
<1>7. CASE \E r \in Readers : Drop(r)
    <2>1. PICK r \in Readers : /\ Active(r) /\ Return(r, Err("dropped"))
                               /\ UNCHANGED <<published, object, call>>
        BY <1>7 DEF Drop
    <2>2. ~Registered => \A q \in Readers \ {r} : ~Active(q)
        BY <2>1 DEF VersionInv, FirstReadOpens
    <2> QED BY <2>1, <2>2, ErrorKeepsVersionInv
<1>8. CASE UNCHANGED vars
    BY <1>8 DEF vars, VersionInv, FirstReadOpens, NeverMixesVersions, AnswersAreExact,
                Registered, Active
<1> QED BY <1>1, <1>2, <1>3, <1>4, <1>5, <1>6, <1>7, <1>8 DEF Next

LEMMA VersionInvariant ==
    ASSUME OpenFirst, VersionIsExposed
    PROVE  Spec => []VersionInv
<1>1. Init => VersionInv
    BY InitVersionInv
<1>2. CacheInv /\ VersionInv /\ [Next]_vars => VersionInv'
    BY NextKeepsVersionInv
<1> QED BY <1>1, <1>2, CacheInvariant, PTL DEF Spec

(* The cache holds bytes of one version only, whatever is republished when. *)
THEOREM OneVersionIsCached ==
    ASSUME OpenFirst, VersionIsExposed
    PROVE  Spec => []NeverMixesVersions
<1>1. VersionInv => NeverMixesVersions
    BY DEF VersionInv
<1> QED BY <1>1, VersionInvariant, PTL

(* Every byte a call returns is the byte of the opened version at the      *)
(* offset it was asked for.                                                *)
THEOREM AnswersAreOfOneVersion ==
    ASSUME OpenFirst, VersionIsExposed
    PROVE  Spec => []AnswersAreExact
<1>1. VersionInv => AnswersAreExact
    BY DEF VersionInv
<1> QED BY <1>1, VersionInvariant, PTL

(* A cached byte is never dropped and never overwritten by another one.    *)
THEOREM CachedBytesStay ==
    ASSUME OpenFirst, VersionIsExposed
    PROVE  Spec => CacheOnlyGrows
<1>1. CacheInv /\ VersionInv /\ [Next]_vars
      => [Content(object.segments) \subseteq Content(object'.segments)]_vars
    <2> SUFFICES ASSUME CacheInv, VersionInv, [Next]_vars
                 PROVE  \/ Content(object.segments) \subseteq Content(object'.segments)
                        \/ UNCHANGED vars
        OBVIOUS
    <2>1. CASE Republish \/ \E r \in Readers : Begin(r) \/ Respond(r) \/ Drop(r)
        <3>1. UNCHANGED object
            BY <2>1 DEF Republish, Begin, Respond, Drop
        <3> QED BY <3>1
    <2>2. CASE \E r \in Readers : DeliverTail(r) \/ DeliverHead(r)
        <3>1. PICK r \in Readers : pc[r] \in {"tail", "head"}
            BY <2>2 DEF DeliverTail, DeliverHead
        <3>2. Content(object.segments) = {}
            BY <3>1, FirstReaderIsAlone, EmptyMapIsSeparated DEF NoObject
        <3> QED BY <3>2
    <2>3. CASE \E r \in Readers : DeliverRange(r)
        BY <2>3, DeliverRangeKeepsVersionInv
    <2> QED BY <2>1, <2>2, <2>3 DEF Next
<1> QED BY <1>1, CacheInvariant, VersionInvariant, PTL DEF Spec, CacheOnlyGrows
-----------------------------------------------------------------------------
(* The promise of VersionedRead, in the terms of the store.                *)

LEMMA PromisedRanges ==
    /\ \A c, size : /\ Promise!RangesOf(c, size) = RangesOf(c, size)
                    /\ Promise!InRange(c, size) <=> InRange(c, size)
    /\ \A range : Promise!Offsets(range) = Offsets(range)
    /\ \A ranges : Promise!NonEmpty(ranges) = NonEmpty(ranges)
<1>1. \A S : Promise!Max(S) = Max(S) /\ Promise!Min(S) = Min(S)
    BY DEF Promise!Max, Max, Promise!Min, Min
<1>2. \A a, b : Promise!Span(a, b) = Span(a, b)
    BY DEF Promise!Span, Span
<1>3. ASSUME NEW c, NEW size PROVE Promise!RangesOf(c, size) = RangesOf(c, size)
    BY <1>1, <1>2, Zenon DEF Promise!RangesOf, RangesOf
<1>4. ASSUME NEW c, NEW size PROVE Promise!InRange(c, size) <=> InRange(c, size)
    BY DEF Promise!InRange, InRange
<1>5. ASSUME NEW range PROVE Promise!Offsets(range) = Offsets(range)
    BY DEF Promise!Offsets, Offsets
<1>6. ASSUME NEW ranges PROVE Promise!NonEmpty(ranges) = NonEmpty(ranges)
    BY DEF Promise!NonEmpty, NonEmpty
<1> QED BY <1>3, <1>4, <1>5, <1>6

(* The bytes of one version, none of them past its end. *)
HoldsOnly(segs, v) ==
    /\ WellFormed(segs) /\ Separated(segs)
    /\ \A entry \in Content(segs) : entry[2] = Byte(v, entry[1])
    /\ \A o \in Cached(segs) : o < Size[v]

(* A call whose bytes are all cached is answered as promised: the error    *)
(* "missing" is never returned.                                            *)
LEMMA CutOutFulfills ==
    ASSUME NEW segs, NEW v \in Versions, HoldsOnly(segs, v), NEW c \in Calls, InRange(c, Size[v]),
           \A range \in NonEmpty(RangesOf(c, Size[v])) : \A o \in Offsets(range) : o \in Cached(segs)
    PROVE  CutOut(segs, RangesOf(c, Size[v])) \in Promise!Fulfilled(c, v)
<1> DEFINE ranges == RangesOf(c, Size[v])
<1>1. Size[v] \in Nat
    BY SizesArePositive
<1>2. ranges \subseteq [start : Nat, end : Nat]
    BY <1>1, RangesAreTyped
<1> HIDE DEF ranges
<1>3. \A range \in NonEmpty(ranges) : \A o \in Offsets(range) : o \in Cached(segs)
    BY DEF ranges
<1>4. \A range \in NonEmpty(ranges) :
        /\ range.start \in Nat /\ range.end \in Nat /\ range.start < range.end
        /\ HasSlice(segs, range)
    <2> TAKE range \in NonEmpty(ranges)
    <2>1. range.start \in Nat /\ range.end \in Nat /\ range.start < range.end
        BY <1>2 DEF NonEmpty
    <2> QED BY <1>3, <2>1, CachedRangeHasSlice DEF HoldsOnly
<1>5. CutOut(segs, ranges) = Ok([range \in ranges |-> Slice(segs, range)])
    BY <1>4 DEF CutOut
<1>6. ASSUME NEW range \in ranges
      PROVE  Slice(segs, range) = [o \in Offsets(range) |-> <<v, o>>]
    <2>1. ASSUME NEW o \in Offsets(range) PROVE Slice(segs, range)[o] = <<v, o>>
        <3>1. range.start \in Nat /\ range.end \in Nat /\ range \in NonEmpty(ranges)
            BY <1>2, <2>1 DEF Offsets, NonEmpty
        <3>2. <<o, Slice(segs, range)[o]>> \in Content(segs)
            BY <1>4, <2>1, <3>1, SliceIsCached DEF HoldsOnly
        <3> QED BY <3>2 DEF HoldsOnly, Byte
    <2>2. Slice(segs, range) = [o \in Offsets(range) |-> Slice(segs, range)[o]]
        BY DEF Slice
    <2> QED BY <2>1, <2>2
<1>7. [range \in ranges |-> Slice(segs, range)] = Promise!Bytes(c, v)
    <2>1. Promise!Bytes(c, v) = [range \in ranges |-> [o \in Offsets(range) |-> <<v, o>>]]
        BY PromisedRanges, Zenon DEF Promise!Bytes, ranges
    <2> QED BY <1>6, <2>1
<1>8. ~Promise!ReachesPast(c, v)
    <2> SUFFICES ASSUME NEW range \in NonEmpty(ranges), range.end > Size[v] PROVE FALSE
        BY PromisedRanges DEF Promise!ReachesPast, ranges
    <2>1. range.end - 1 \in Offsets(range)
        BY <1>4 DEF Offsets
    <2>2. range.end - 1 < Size[v]
        BY <1>3, <2>1 DEF HoldsOnly
    <2> QED BY <1>1, <1>4, <2>2
<1>9. Promise!InRange(c, Size[v]) /\ v # Promise!NoVersion
    BY PromisedRanges DEF Versions, Promise!NoVersion
<1> QED BY <1>5, <1>7, <1>8, <1>9 DEF Promise!Fulfilled, Ok, ranges

(* The errors the promise allows for, each for its reason. *)
MayRefuse(kind, c, v) ==
    \/ kind \in {"failed", "dropped"}
    \/ /\ v \in Versions
       /\ \/ kind = "stale" /\ v # published
          \/ kind = "out_of_range" /\ ~InRange(c, Size[v])
          \/ kind = "incomplete" /\ \E range \in NonEmpty(RangesOf(c, Size[v])) : range.end > Size[v]

LEMMA ErrorsAreRefusals ==
    ASSUME NEW kind, NEW c, NEW v, MayRefuse(kind, c, v)
    PROVE  Err(kind) \in Promise!Refused(c, v)
<1>1. v \in Versions => v # Promise!NoVersion
    BY DEF Versions, Promise!NoVersion
<1>2. /\ Promise!InRange(c, Size[v]) <=> InRange(c, Size[v])
      /\ Promise!ReachesPast(c, v) <=>
            \E range \in NonEmpty(RangesOf(c, Size[v])) : range.end > Size[v]
    BY PromisedRanges DEF Promise!ReachesPast
<1>3. Err(kind) = [error |-> kind, value |-> Promise!NoValue]
    BY DEF Err, NoValue, Promise!NoValue
<1> QED BY <1>1, <1>2, <1>3 DEF MayRefuse, Promise!Refused

(* What a step of reader r is in the promise. *)
LEMMA ReturnAnswers ==
    ASSUME TypeOK, NEW r \in Readers, NEW c, NEW result, Return(r, result),
           result \in Promise!Fulfilled(c, object'.version) \cup Promise!Refused(c, object'.version)
    PROVE  Promise!WaitOrAnswer(r, c)
<1>1. [q \in Readers |-> Active(q)]' = [[q \in Readers |-> Active(q)] EXCEPT ![r] = FALSE]
    <2>1. \A q \in Readers \ {r} : Active(q)' = Active(q)
        BY DEF TypeOK, Return, Active
    <2>2. Active(r)' = FALSE
        <3>1. pc'[r] = "idle"
            BY DEF TypeOK, Return
        <3> QED BY <3>1 DEF Active
    <2> QED BY <2>1, <2>2
<1>2. answer' = [answer EXCEPT ![r] = result]
    BY DEF Return
<1> QED BY <1>1, <1>2 DEF Promise!WaitOrAnswer

LEMMA SendWaits ==
    ASSUME TypeOK, NEW r \in Readers, NEW c, NEW await \in {"tail", "head", "fetch"}, NEW requests,
           Send(r, await, requests), UNCHANGED answer
    PROVE  Promise!WaitOrAnswer(r, c)
<1>1. [q \in Readers |-> Active(q)]' = [[q \in Readers |-> Active(q)] EXCEPT ![r] = TRUE]
    BY DEF TypeOK, Send, Active
<1> QED BY <1>1 DEF Promise!WaitOrAnswer

(* A call either ends with an answer as promised, or waits for requests    *)
(* that cover what it asks for.                                            *)
LEMMA PlanOutcome ==
    ASSUME NEW r \in Readers, NEW c \in Calls, NEW v \in Versions, NEW entry,
           entry.size = Size[v], HoldsOnly(entry.segments, v), Plan(r, c, entry)
    PROVE  \/ \E result \in Promise!Fulfilled(c, v) \cup Promise!Refused(c, v) : Return(r, result)
           \/ \E requests : /\ Send(r, "fetch", requests) /\ UNCHANGED answer
                            /\ Covers(c, Size[v], entry.segments, requests)
<1> DEFINE ranges == RangesOf(c, Size[v])
           asked == NonEmpty(ranges)
           runs == RangesToFetch(entry.segments, asked)
           fetches == {BoundedRequest(range) : range \in runs}
<1>1. Size[v] \in Nat
    BY SizesArePositive
<1>2. ranges \subseteq [start : Nat, end : Nat]
    BY <1>1, RangesAreTyped
<1>3. PICK limit \in Nat : \A range \in ranges : range.end <= limit
    <2>1. IsFiniteSet(ranges)
        <3>1. \A x : IsFiniteSet({x})
            BY FS_Singleton
        <3> QED BY <3>1, CallsAreTyped DEF RangesOf
    <2> QED BY <1>2, <2>1, RangesHaveALimit
<1>4. /\ \A range \in asked : \A o \in Offsets(range) :
            o \in Cached(entry.segments) \/ \E run \in runs : o \in Offsets(run)
      /\ \A run \in runs : \E range \in asked : run.end <= range.end
    <2>1. asked \subseteq [start : Nat, end : Nat] /\ \A range \in asked : range.end <= limit
        BY <1>2, <1>3 DEF NonEmpty
    <2> QED BY <2>1, PlanCoversTheRanges DEF HoldsOnly
<1> HIDE DEF runs, asked
<1>5. CASE ~InRange(c, Size[v])
    <2>1. Err("out_of_range") \in Promise!Refused(c, v)
        BY <1>5, ErrorsAreRefusals DEF MayRefuse
    <2>2. Return(r, Err("out_of_range"))
        BY <1>5 DEF Plan
    <2> QED BY <2>1, <2>2
<1>6. CASE InRange(c, Size[v]) /\ fetches = {}
    <2>1. \A range \in asked : \A o \in Offsets(range) : o \in Cached(entry.segments)
        BY <1>4, <1>6
    <2>2. CutOut(entry.segments, ranges) \in Promise!Fulfilled(c, v)
        BY <1>6, <2>1, CutOutFulfills DEF asked
    <2>3. Return(r, CutOut(entry.segments, ranges))
        BY <1>6 DEF Plan, runs, asked
    <2> QED BY <2>2, <2>3
<1>7. CASE InRange(c, Size[v]) /\ fetches # {}
    <2>1. Send(r, "fetch", fetches) /\ UNCHANGED answer
        BY <1>7 DEF Plan, runs, asked
    <2>2. \A run \in runs : BoundedRequest(run) \in fetches /\ BoundedRequest(run).range = run
        BY DEF BoundedRequest
    <2>3. \A request \in fetches : \E run \in runs : request.range = run
        BY DEF BoundedRequest
    <2> HIDE DEF fetches
    <2>4. Covers(c, Size[v], entry.segments, fetches)
        BY <1>4, <1>7, <2>2, <2>3 DEF Covers, asked
    <2> QED BY <2>1, <2>4
<1> QED BY <1>5, <1>6, <1>7

(* No reply reaches past the end of its version, and one that falls short  *)
(* of what was asked for ends there.                                       *)
LEMMA ServedWithinTheFile ==
    ASSUME NEW v \in Versions, NEW whole \in BOOLEAN,
           NEW request, request \in {SuffixRequest, HeadRequest} \/ IsFetch(request),
           NEW reply, reply = Serve(request, v, whole), Succeeded(reply)
    PROVE  /\ reply.range.end <= Size[v]
           /\ IsFetch(request) /\ IsIncomplete(reply, request.range) => Size[v] < request.range.end
<1> DEFINE size == Size[v]
<1>1. size \in Nat /\ size \in Int /\ size > 0
    BY SizesArePositive
<1> HIDE DEF size
<1>2. /\ reply.range.start \in Nat /\ reply.range.end \in Nat
      /\ reply.status = 200 => reply.range.start = 0
      /\ IsFetch(request) /\ reply.status = 206 => reply.range.start = request.range.start
    BY ServedBytes
<1>3. CASE request.kind = "head" \/ whole
    <2>1. reply.status = 200 /\ reply.range.end = size
        BY <1>3 DEF Serve, Reply, Span, size
    <2>2. IsFetch(request) => StartOf(reply, request.range) = 0
        BY <1>2, <2>1 DEF StartOf, HasPosition
    <2> QED BY <1>1, <1>2, <2>1, <2>2 DEF IsIncomplete, Placed, IsFetch, size
<1>4. CASE ~(request.kind = "head" \/ whole) /\ request.kind = "suffix"
    BY <1>1, <1>4 DEF Serve, Reply, Span, IsFetch, size
<1>5. CASE ~(request.kind = "head" \/ whole) /\ request.kind # "suffix"
    <2>1. IsFetch(request) /\ request.range.end \in Int
        BY <1>5 DEF SuffixRequest, HeadRequest, IsFetch
    <2>2. /\ Min({request.range.end, size}) \in {request.range.end, size}
          /\ Min({request.range.end, size}) <= size
        BY <1>1, <2>1, MinMaxOfTwo
    <2>3. reply.status = 206 /\ reply.range.end = Min({request.range.end, size})
        BY <1>5, <2>1 DEF Serve, Reply, Span, Succeeded, size
    <2>4. StartOf(reply, request.range) = request.range.start /\ reply.range.start = request.range.start
        BY <1>2, <2>1, <2>3 DEF StartOf
    <2>5. IsIncomplete(reply, request.range) => reply.range.end < request.range.end
        BY <1>2, <2>1, <2>4 DEF IsIncomplete, Placed, IsFetch
    <2> QED BY <1>1, <2>1, <2>2, <2>3, <2>5 DEF size
<1> QED BY <1>3, <1>4, <1>5

-----------------------------------------------------------------------------
(* Every step keeps ReadInv and is a step of the promise, or none.         *)

PromisedStep == Promise!Next \/ UNCHANGED <<published, object.version, [r \in Readers |-> Active(r)], call, answer>>

LEMMA InitReadInv == Init => ReadInv
<1> SUFFICES ASSUME Init PROVE ReadInv
    OBVIOUS
<1>1. object.version = 0 /\ published = 1 /\ ~Registered
    BY DEF Init, NoObject, NoVersion, Registered
<1>2. \A r \in Readers : pc[r] = "idle"
    BY DEF Init
<1> QED BY <1>1, <1>2 DEF ReadInv, RepliesAreRecent, CacheIsWithinTheFile, PlansCoverTheCall, Active

LEMMA EntryHoldsOnly ==
    ASSUME CacheInv, VersionInv, ReadInv, Registered
    PROVE  /\ object.version \in Versions /\ object.size = Size[object.version]
           /\ HoldsOnly(object.segments, object.version)
BY DEF CacheInv, SegmentsStayApart, VersionInv, FirstReadOpens, NeverMixesVersions,
       ReadInv, CacheIsWithinTheFile, HoldsOnly

(* What ReadInv says of reader r after a step. *)
ReadsOn(r) ==
    /\ Active(r)' => \A request \in DOMAIN wire'[r] : Succeeded(wire'[r][request]) =>
            object'.version <= wire'[r][request].version /\ wire'[r][request].version <= published'
    /\ pc'[r] = "fetch" => Covers(call'[r], object'.size, object'.segments, DOMAIN wire'[r])

(* Of the cache, a read that is suspended only counts on what it holds. *)
LEMMA CoversMore ==
    ASSUME NEW c, NEW size, NEW segs, NEW more, Cached(segs) \subseteq Cached(more),
           NEW requests, Covers(c, size, segs, requests)
    PROVE  Covers(c, size, more, requests)
BY DEF Covers

LEMMA ReaderStepKeepsReadInv ==
    ASSUME CacheInv, ReadInv, NEW r \in Readers, OthersUnchanged(r), ReadsOn(r),
           UNCHANGED published, \A q \in Readers \ {r} : call'[q] = call[q],
           EntryIsKept, object'.version <= published, CacheIsWithinTheFile',
           Cached(object.segments) \subseteq Cached(object'.segments),
           Registered \/ UNCHANGED object \/ \A q \in Readers \ {r} : ~Active(q)
    PROVE  ReadInv'
<1>1. ASSUME NEW q \in Readers \ {r}, Active(q)'
      PROVE  UNCHANGED <<object.size, object.version>> /\ Active(q)
    BY <1>1 DEF OthersUnchanged, Active, EntryIsKept
<1>2. RepliesAreRecent'
    <2> SUFFICES ASSUME NEW q \in Readers \ {r}, Active(q)', NEW request \in DOMAIN wire'[q],
                        Succeeded(wire'[q][request])
                 PROVE  object'.version <= wire'[q][request].version /\ wire'[q][request].version <= published'
        BY DEF RepliesAreRecent, ReadsOn, Succeeded
    <2>1. wire'[q] = wire[q] /\ Active(q) /\ object'.version = object.version
        BY <1>1 DEF OthersUnchanged
    <2> QED BY <2>1 DEF ReadInv, RepliesAreRecent, Succeeded
<1>3. PlansCoverTheCall'
    <2> SUFFICES ASSUME NEW q \in Readers \ {r}, pc'[q] = "fetch"
                 PROVE  Covers(call'[q], object'.size, object'.segments, DOMAIN wire'[q])
        BY DEF PlansCoverTheCall, ReadsOn
    <2>1. /\ pc[q] = "fetch" /\ wire'[q] = wire[q] /\ call'[q] = call[q]
          /\ object'.size = object.size
        BY <1>1 DEF OthersUnchanged, Active
    <2>2. Covers(call[q], object.size, object.segments, DOMAIN wire[q])
        BY <2>1 DEF ReadInv, PlansCoverTheCall
    <2> QED BY <2>1, <2>2, CoversMore
<1> QED BY <1>2, <1>3 DEF ReadInv

(* What Return and Send leave reader r. *)
LEMMA ReturnReadsOn ==
    ASSUME TypeOK, NEW r \in Readers, NEW result, Return(r, result)
    PROVE  OthersUnchanged(r) /\ ReadsOn(r)
<1>1. OthersUnchanged(r) /\ pc'[r] = "idle"
    BY ReturnStep
<1> QED BY <1>1 DEF ReadsOn, Active

LEMMA PendingIsNoSuccess == ~Succeeded(Pending)
BY DEF Succeeded, Pending

LEMMA SendReadsOn ==
    ASSUME TypeOK, NEW r \in Readers, NEW await, NEW requests, Send(r, await, requests),
           await = "fetch" => Covers(call'[r], object'.size, object'.segments, requests)
    PROVE  ReadsOn(r)
<1>1. /\ pc'[r] = await /\ DOMAIN wire'[r] = requests
      /\ \A request \in requests : wire'[r][request] = Pending
    BY DEF TypeOK, Send
<1> QED BY <1>1, PendingIsNoSuccess DEF ReadsOn

LEMMA BeginIsPromised ==
    ASSUME CacheInv, VersionInv, ReadInv, NEW r \in Readers, Begin(r)
    PROVE  ReadInv' /\ PromisedStep
<1>1. PICK c \in Calls :
        /\ call' = [call EXCEPT ![r] = c]
        /\ IF Registered THEN Plan(r, c, object)
           ELSE Send(r, "tail", {SuffixRequest}) /\ UNCHANGED <<meta, answer>>
    BY DEF Begin
<1>2. UNCHANGED <<published, object>> /\ pc[r] = "idle"
    BY DEF Begin
<1>3. call'[r] = c /\ \A q \in Readers \ {r} : call'[q] = call[q]
    BY <1>1 DEF CacheInv, TypeOK
<1>4. Promise!WaitOrAnswer(r, c) /\ OthersUnchanged(r) /\ ReadsOn(r)
    <2>1. CASE Registered
        <3> DEFINE v == object.version
        <3>1. v \in Versions /\ object.size = Size[v] /\ HoldsOnly(object.segments, v)
            BY <2>1, EntryHoldsOnly
        <3>2. OthersUnchanged(r)
            BY <1>1, <2>1, <3>1, PlanStep DEF CacheInv, TypeOK, HoldsOnly
        <3>3. CASE \E result \in Promise!Fulfilled(c, v) \cup Promise!Refused(c, v) : Return(r, result)
            BY <1>2, <3>3, ReturnAnswers, ReturnReadsOn DEF CacheInv
        <3>4. CASE \E requests : /\ Send(r, "fetch", requests) /\ UNCHANGED answer
                                 /\ Covers(c, Size[v], object.segments, requests)
            <4>1. PICK requests : /\ Send(r, "fetch", requests) /\ UNCHANGED answer
                                  /\ Covers(c, Size[v], object.segments, requests)
                BY <3>4
            <4>2. ReadsOn(r)
                BY <1>2, <1>3, <3>1, <4>1, SendReadsOn DEF CacheInv
            <4> QED BY <3>2, <4>1, <4>2, SendWaits DEF CacheInv
        <3> QED BY <1>1, <2>1, <3>1, <3>3, <3>4, PlanOutcome
    <2>2. CASE ~Registered
        <3>1. Send(r, "tail", {SuffixRequest}) /\ UNCHANGED <<meta, answer>>
            BY <1>1, <2>2
        <3>2. ReadsOn(r)
            BY <3>1, SendReadsOn DEF CacheInv
        <3> QED BY <3>1, <3>2, SendStep, SendWaits DEF CacheInv, Await
    <2> QED BY <2>1, <2>2
<1>5. ReadInv'
    <2>1. EntryIsKept /\ object'.version <= published /\ CacheIsWithinTheFile'
        BY <1>2, SameEntryIsKept DEF ReadInv, RepliesAreRecent, CacheIsWithinTheFile, Registered
    <2> QED BY <1>2, <1>3, <1>4, <2>1, ReaderStepKeepsReadInv
<1>6. Promise!Ask(r)
    <2>1. ~[q \in Readers |-> Active(q)][r]
        BY <1>2 DEF Active
    <2> QED BY <1>1, <1>2, <1>4, <2>1 DEF Promise!Ask
<1> QED BY <1>5, <1>6 DEF PromisedStep, Promise!Next

LEMMA RepublishIsPromised ==
    ASSUME CacheInv, ReadInv, Republish
    PROVE  ReadInv' /\ PromisedStep
<1>1. published' = published + 1 /\ published < LastVersion
      /\ UNCHANGED <<object, pc, call, meta, wire, answer>>
    BY DEF Republish
<1>2. published \in Nat /\ object.version \in Nat
    BY VersionsExist DEF CacheInv, TypeOK, Versions, NoVersion
<1>3. RepliesAreRecent'
    <2>1. ASSUME NEW r \in Readers, Active(r)', NEW request \in DOMAIN wire'[r], Succeeded(wire'[r][request])
          PROVE  object'.version <= wire'[r][request].version /\ wire'[r][request].version <= published'
        <3>1. Active(r) /\ request \in DOMAIN wire[r] /\ Succeeded(wire[r][request])
            BY <1>1, <2>1 DEF Active
        <3>2. wire[r][request].version \in Nat
            <4>1. wire[r][request] \in Replies(request)
                BY <3>1 DEF CacheInv, TypeOK
            <4>2. PICK v \in Versions, whole \in BOOLEAN : wire[r][request] = Serve(request, v, whole)
                BY <3>1, <4>1, ServedOrFailed
            <4>3. wire[r][request].version = v
                BY <4>2 DEF Serve, Reply
            <4> QED BY <4>3, VersionsExist DEF Versions
        <3>3. /\ object.version <= wire[r][request].version
              /\ wire[r][request].version <= published
            BY <3>1 DEF ReadInv, RepliesAreRecent
        <3> QED BY <1>1, <1>2, <3>2, <3>3
    <2> QED BY <1>1, <1>2, <2>1 DEF ReadInv, RepliesAreRecent
<1>4. CacheIsWithinTheFile' /\ PlansCoverTheCall'
    BY <1>1 DEF ReadInv, CacheIsWithinTheFile, PlansCoverTheCall, Registered
<1>5. Promise!Republish
    BY <1>1 DEF Promise!Republish, Active
<1> QED BY <1>3, <1>4, <1>5 DEF ReadInv, PromisedStep, Promise!Next

LEMMA RespondIsPromised ==
    ASSUME CacheInv, ReadInv, NEW r \in Readers, Respond(r)
    PROVE  ReadInv' /\ PromisedStep
<1>0. PICK request \in DOMAIN wire[r] :
        \E reply \in Served(request, published) \cup {Failure} :
            wire' = [wire EXCEPT ![r][request] = reply]
    BY DEF Respond
<1>1. PICK reply \in Served(request, published) \cup {Failure} :
        wire' = [wire EXCEPT ![r][request] = reply]
    BY <1>0
<1>2. UNCHANGED <<published, object, pc, call, meta, answer>>
    BY DEF Respond
<1>3. /\ DOMAIN wire' = Readers
      /\ \A q \in Readers \ {r} : wire'[q] = wire[q]
      /\ DOMAIN wire'[r] = DOMAIN wire[r]
      /\ \A other \in DOMAIN wire[r] : wire'[r][other] = IF other = request THEN reply ELSE wire[r][other]
    BY <1>1 DEF CacheInv, TypeOK
<1>4. OthersUnchanged(r)
    BY <1>2, <1>3 DEF CacheInv, TypeOK, OthersUnchanged, Await, Meta
<1>5. object.version <= published /\ published \in Nat
    BY VersionsExist DEF ReadInv, RepliesAreRecent, CacheInv, TypeOK, Versions
<1>6. Succeeded(reply) => reply.version = published
    BY DEF Succeeded, Failure, Served, Serve, Reply
<1>7. ReadsOn(r)
    <2>1. ASSUME Active(r)', NEW other \in DOMAIN wire'[r], Succeeded(wire'[r][other])
          PROVE  object'.version <= wire'[r][other].version /\ wire'[r][other].version <= published'
        <3>1. CASE other = request
            BY <1>2, <1>3, <1>5, <1>6, <2>1, <3>1
        <3>2. CASE other # request
            <4>1. Active(r) /\ other \in DOMAIN wire[r] /\ wire'[r][other] = wire[r][other]
                BY <1>2, <1>3, <2>1, <3>2 DEF Active
            <4> QED BY <1>2, <2>1, <4>1 DEF ReadInv, RepliesAreRecent
        <3> QED BY <3>1, <3>2
    <2>2. pc'[r] = "fetch" => Covers(call'[r], object'.size, object'.segments, DOMAIN wire'[r])
        BY <1>2, <1>3 DEF ReadInv, PlansCoverTheCall
    <2> QED BY <2>1, <2>2 DEF ReadsOn
<1>8. ReadInv'
    <2>1. EntryIsKept /\ object'.version <= published /\ CacheIsWithinTheFile'
        BY <1>2, SameEntryIsKept DEF ReadInv, RepliesAreRecent, CacheIsWithinTheFile, Registered
    <2> QED BY <1>2, <1>4, <1>7, <2>1, ReaderStepKeepsReadInv
<1> QED BY <1>2, <1>8 DEF PromisedStep, Active

(* A call that ends with an error the promise allows for. *)
LEMMA ErrorIsPromised ==
    ASSUME CacheInv, ReadInv, NEW r \in Readers, Active(r), NEW kind, Return(r, Err(kind)),
           MayRefuse(kind, call[r], object.version), UNCHANGED <<published, object, call>>
    PROVE  ReadInv' /\ PromisedStep
<1>1. OthersUnchanged(r) /\ ReadsOn(r)
    BY ReturnReadsOn DEF CacheInv
<1>2. EntryIsKept /\ object'.version <= published /\ CacheIsWithinTheFile'
    BY SameEntryIsKept DEF ReadInv, RepliesAreRecent, CacheIsWithinTheFile, Registered
<1>3. ReadInv'
    BY <1>1, <1>2, ReaderStepKeepsReadInv
<1>4. Promise!WaitOrAnswer(r, call[r])
    <2>1. Err(kind) \in Promise!Refused(call[r], object'.version)
        BY ErrorsAreRefusals
    <2> QED BY <2>1, ReturnAnswers DEF CacheInv
<1>5. Promise!Answer(r)
    BY <1>4 DEF Promise!Answer, Promise!Open
<1> QED BY <1>3, <1>5 DEF PromisedStep, Promise!Next

(* The first reader opens version v. *)
LEMMA RegisterIsPromised ==
    ASSUME CacheInv, VersionInv, ReadInv, NEW r \in Readers, pc[r] \in {"tail", "head"},
           NEW v \in Versions, v <= published, NEW segs, HoldsOnly(segs, v),
           Register(r, Size[v], v, segs), UNCHANGED <<published, call>>
    PROVE  ReadInv' /\ PromisedStep
<1>1. ~Registered /\ object = NoObject /\ \A q \in Readers \ {r} : ~Active(q)
    BY FirstReaderIsAlone
<1>2. Size[v] \in Nat \ {0} /\ v \in {NoVersion} \cup Versions
    BY SizesArePositive
<1>3. /\ EntryIsKept /\ Registered' /\ object'.segments = segs
      /\ object'.size = Size[v] /\ object'.version = v
      /\ Plan(r, call[r], object')
    BY <1>1, <1>2, RegisterStep DEF HoldsOnly
<1>4. call[r] \in Calls /\ TypeOK
    BY DEF CacheInv, TypeOK
<1>5. OthersUnchanged(r)
    BY <1>2, <1>3, <1>4, PlanStep DEF HoldsOnly
<1>6. Promise!WaitOrAnswer(r, call[r]) /\ ReadsOn(r)
    <2>1. CASE \E result \in Promise!Fulfilled(call[r], v) \cup Promise!Refused(call[r], v) : Return(r, result)
        BY <1>3, <1>4, <2>1, ReturnAnswers, ReturnReadsOn
    <2>2. CASE \E requests : /\ Send(r, "fetch", requests) /\ UNCHANGED answer
                             /\ Covers(call[r], Size[v], object'.segments, requests)
        <3>1. PICK requests : /\ Send(r, "fetch", requests) /\ UNCHANGED answer
                              /\ Covers(call[r], Size[v], object'.segments, requests)
            BY <2>2
        <3>2. ReadsOn(r)
            BY <1>3, <1>4, <3>1, SendReadsOn
        <3> QED BY <1>4, <3>1, <3>2, SendWaits
    <2> QED BY <1>3, <1>4, <2>1, <2>2, PlanOutcome
<1>7. ReadInv'
    <2>1. object'.version <= published /\ CacheIsWithinTheFile'
        BY <1>3 DEF CacheIsWithinTheFile, HoldsOnly
    <2>2. Cached(object.segments) = {}
        BY <1>1 DEF NoObject, EmptyMap, Cached
    <2> QED BY <1>1, <1>3, <1>5, <1>6, <2>1, <2>2, ReaderStepKeepsReadInv
<1>8. Promise!Answer(r)
    <2>1. Promise!Open
        BY <1>1, <1>3, VersionsExist DEF Promise!Open, NoObject, NoVersion, Promise!NoVersion,
            Versions, CacheInv, TypeOK
    <2>2. Active(r)
        BY DEF Active
    <2> QED BY <1>6, <2>1, <2>2 DEF Promise!Answer
<1> QED BY <1>7, <1>8 DEF PromisedStep, Promise!Next

LEMMA DeliverTailIsPromised ==
    ASSUME VersionIsExposed, CacheInv, VersionInv, ReadInv, NEW r \in Readers, DeliverTail(r)
    PROVE  ReadInv' /\ PromisedStep
<1> DEFINE tail == wire[r][SuffixRequest]
           start == tail.range.start
           new == Placed(tail, start)
           segs == Insert(object.segments, start, new)
<1>1. pc[r] = "tail" /\ DOMAIN wire[r] = {SuffixRequest} /\ Active(r)
    BY DEF DeliverTail, CacheInv, AwaitsMatch, Active
<1>2. /\ IF ~Succeeded(tail) THEN Return(r, Err("failed")) /\ UNCHANGED object
         ELSE IF HasPosition(tail)
         THEN Register(r, Size[tail.version], VersionOf(tail), segs)
         ELSE Send(r, "head", {HeadRequest}) /\ UNCHANGED <<object, meta, answer>>
      /\ UNCHANGED <<published, call>>
    BY <1>1 DEF DeliverTail, Answered
<1>3. object = NoObject /\ \A q \in Readers \ {r} : ~Active(q)
    BY <1>1, FirstReaderIsAlone
<1>4. CASE ~Succeeded(tail)
    BY <1>1, <1>2, <1>4, ErrorIsPromised DEF MayRefuse
<1>5. CASE Succeeded(tail) /\ HasPosition(tail)
    <2>1. tail \in Replies(SuffixRequest)
        BY <1>1 DEF CacheInv, TypeOK
    <2>2. PICK v \in Versions, whole \in BOOLEAN : tail = Serve(SuffixRequest, v, whole)
        BY <1>5, <2>1, ServedOrFailed
    <2>3. /\ tail.version = v /\ VersionOf(tail) = v
          /\ tail.range.start \in Nat /\ tail.range.end \in Nat
        <3>1. tail.version = v /\ tail.range.start \in Nat /\ tail.range.end \in Nat
            BY <1>5, <2>2, ServedBytes
        <3> QED BY <3>1 DEF VersionOf
    <2>4. v <= published
        BY <1>1, <1>5, <2>3 DEF ReadInv, RepliesAreRecent
    <2>5. /\ start \in Nat /\ new.end \in Nat /\ start < new.end
          /\ \A o \in start .. (new.end - 1) : new.at[o] = Byte(v, o)
        BY <1>5, <2>2, TailIsPlaced
    <2>6. new.end <= Size[v]
        <3>1. tail.range.end <= Size[v]
            BY <1>5, <2>2, ServedWithinTheFile
        <3> QED BY <2>3, <3>1 DEF Placed
    <2>7. /\ WellFormed(object.segments) /\ Separated(object.segments)
          /\ Content(object.segments) = {} /\ Cached(object.segments) = {}
        BY <1>3, EmptyMapIsSeparated DEF NoObject, Cached, EmptyMap
    <2> HIDE DEF new
    <2>8. HoldsOnly(segs, v)
        <3>1. WellFormed(segs) /\ Separated(segs)
            BY <2>5, <2>7, InsertSeparates
        <3>2. \A entry \in Content(segs) : \E o \in start .. (new.end - 1) : entry = <<o, new.at[o]>>
            BY <2>5, <2>7, InsertAddsNothingElse
        <3>3. \A o \in Cached(segs) : o \in start .. (new.end - 1)
            <4>1. Cached(segs) = Cached(object.segments) \cup start .. (new.end - 1)
                BY <2>5, <2>7, InsertCaches, ZenonT(30)
            <4> QED BY <2>7, <4>1
        <3>4. Size[v] \in Nat
            BY SizesArePositive
        <3> HIDE DEF segs
        <3> QED BY <2>5, <2>6, <3>1, <3>2, <3>3, <3>4 DEF HoldsOnly
    <2>9. Register(r, Size[v], v, segs) /\ UNCHANGED <<published, call>>
        BY <1>2, <1>5, <2>3
    <2> QED BY <1>1, <2>4, <2>8, <2>9, RegisterIsPromised
<1>6. CASE Succeeded(tail) /\ ~HasPosition(tail)
    <2>1. Send(r, "head", {HeadRequest}) /\ UNCHANGED <<object, meta, answer, published, call>>
        BY <1>2, <1>6
    <2>2. OthersUnchanged(r) /\ pc'[r] = "head" /\ ReadsOn(r)
        BY <2>1, SendStep, SendReadsOn DEF CacheInv, Await
    <2>3. EntryIsKept /\ object'.version <= published /\ CacheIsWithinTheFile'
        BY <2>1, SameEntryIsKept DEF ReadInv, RepliesAreRecent, CacheIsWithinTheFile, Registered
    <2>4. ReadInv'
        BY <2>1, <2>2, <2>3, ReaderStepKeepsReadInv
    <2>5. Promise!WaitOrAnswer(r, call[r])
        BY <2>1, SendWaits DEF CacheInv
    <2>6. Promise!Answer(r)
        BY <1>1, <2>1, <2>5 DEF Promise!Answer, Promise!Open
    <2> QED BY <2>4, <2>6 DEF PromisedStep, Promise!Next
<1> QED BY <1>4, <1>5, <1>6

LEMMA DeliverHeadIsPromised ==
    ASSUME VersionIsExposed, CacheInv, VersionInv, ReadInv, NEW r \in Readers, DeliverHead(r)
    PROVE  ReadInv' /\ PromisedStep
<1> DEFINE head == wire[r][HeadRequest]
<1>1. pc[r] = "head" /\ DOMAIN wire[r] = {HeadRequest} /\ Active(r)
    BY DEF DeliverHead, CacheInv, AwaitsMatch, Active
<1>2. /\ IF ~Succeeded(head) \/ "content_length" \notin Exposed
         THEN Return(r, Err("failed")) /\ UNCHANGED object
         ELSE Register(r, Size[head.version], VersionOf(head), object.segments)
      /\ UNCHANGED <<published, call>>
    BY <1>1 DEF DeliverHead, Answered
<1>3. object = NoObject
    BY <1>1, FirstReaderIsAlone
<1>4. CASE ~Succeeded(head) \/ "content_length" \notin Exposed
    BY <1>1, <1>2, <1>4, ErrorIsPromised DEF MayRefuse
<1>5. CASE Succeeded(head) /\ "content_length" \in Exposed
    <2>1. head \in Replies(HeadRequest)
        BY <1>1 DEF CacheInv, TypeOK
    <2>2. PICK v \in Versions, whole \in BOOLEAN : head = Serve(HeadRequest, v, whole)
        BY <1>5, <2>1, ServedOrFailed
    <2>3. head.version = v /\ VersionOf(head) = v
        <3>1. head.version = v
            BY <1>5, <2>2, ServedBytes
        <3> QED BY <3>1 DEF VersionOf
    <2>4. v <= published
        BY <1>1, <1>5, <2>3 DEF ReadInv, RepliesAreRecent
    <2>5. HoldsOnly(object.segments, v)
        BY <1>3, EmptyMapIsSeparated DEF NoObject, Cached, EmptyMap, HoldsOnly
    <2>6. Register(r, Size[v], v, object.segments) /\ UNCHANGED <<published, call>>
        BY <1>2, <1>5, <2>3
    <2> QED BY <1>1, <2>4, <2>5, <2>6, RegisterIsPromised
<1> QED BY <1>4, <1>5

(* What the reply to a fetch may be refused for. *)
LEMMA FetchIsRefusedForAReason ==
    ASSUME VersionIsExposed, CacheInv, VersionInv, ReadInv, NEW r \in Readers, pc[r] = "fetch",
           NEW request \in DOMAIN wire[r], NEW reply, reply = wire[r][request], Succeeded(reply)
    PROVE  /\ IsStale(meta[r], reply) => MayRefuse("stale", call[r], object.version)
           /\ ~IsStale(meta[r], reply) /\ IsIncomplete(reply, request.range)
                 => MayRefuse("incomplete", call[r], object.version)
<1>1. /\ Registered /\ meta[r] = [size |-> object.size, version |-> object.version]
      /\ IsFetch(request) /\ reply \in Replies(request) /\ Active(r)
    BY DEF CacheInv, AwaitsMatch, TypeOK, Active
<1>2. object.version \in Versions /\ object.size = Size[object.version]
    BY <1>1, EntryHoldsOnly
<1>3. PICK v \in Versions, whole \in BOOLEAN : reply = Serve(request, v, whole)
    BY <1>1, ServedOrFailed
<1>4. reply.version = v /\ VersionOf(reply) = v
    <2>1. reply.version = v
        BY <1>3 DEF Serve, Reply
    <2> QED BY <2>1 DEF VersionOf
<1>5. object.version <= v /\ v <= published /\ object.version # NoVersion /\ v # NoVersion
    BY <1>1, <1>2, <1>4 DEF ReadInv, RepliesAreRecent, Versions, NoVersion
<1>6. IsStale(meta[r], reply) <=> v # object.version
    BY <1>1, <1>2, <1>4, <1>5 DEF IsStale
<1>7. IsStale(meta[r], reply) => object.version # published
    <2>1. object.version \in Int /\ v \in Int /\ published \in Int
        BY <1>2, VersionsExist DEF Versions, CacheInv, TypeOK
    <2> QED BY <1>5, <1>6, <2>1
<1>8. ASSUME ~IsStale(meta[r], reply), IsIncomplete(reply, request.range)
      PROVE  \E range \in NonEmpty(RangesOf(call[r], Size[object.version])) : range.end > Size[object.version]
    <2>1. Size[object.version] < request.range.end
        BY <1>1, <1>3, <1>6, <1>8, ServedWithinTheFile
    <2>2. PICK range \in NonEmpty(RangesOf(call[r], Size[object.version])) : request.range.end <= range.end
        BY <1>2 DEF ReadInv, PlansCoverTheCall, Covers
    <2>3. Size[object.version] \in Nat /\ call[r] \in Calls
        BY <1>2, SizesArePositive DEF CacheInv, TypeOK
    <2>4. range.end \in Nat
        BY <2>3, RangesAreTyped DEF NonEmpty
    <2> QED BY <1>1, <2>1, <2>2, <2>3, <2>4 DEF IsFetch
<1> QED BY <1>2, <1>7, <1>8 DEF MayRefuse

LEMMA DeliverRangeIsPromised ==
    ASSUME VersionIsExposed, CacheInv, VersionInv, ReadInv, CacheInv', VersionInv',
           NEW r \in Readers, DeliverRange(r)
    PROVE  ReadInv' /\ PromisedStep
<1> DEFINE opened == object.version
<1>1. /\ pc[r] = "fetch" /\ Registered /\ Active(r)
      /\ meta[r] = [size |-> object.size, version |-> opened]
      /\ \A request \in DOMAIN wire[r] : IsFetch(request)
    BY DEF DeliverRange, CacheInv, AwaitsMatch, Active
<1>2. /\ opened \in Versions /\ object.size = Size[opened] /\ Size[opened] \in Nat
      /\ HoldsOnly(object.segments, opened)
    BY <1>1, EntryHoldsOnly, SizesArePositive
<1>3. UNCHANGED <<published, call>> /\ call[r] \in Calls
    BY DEF DeliverRange, CacheInv, TypeOK
<1>4. PICK request \in Answered(r) :
        LET reply == wire[r][request]
            start == StartOf(reply, request.range)
            segs  == Insert(object.segments, start, Placed(reply, start))
        IN  IF ~Succeeded(reply) THEN Return(r, Err("failed")) /\ UNCHANGED object
            ELSE IF IsStale(meta[r], reply) THEN Return(r, Err("stale")) /\ UNCHANGED object
            ELSE IF IsIncomplete(reply, request.range)
                 THEN Return(r, Err("incomplete")) /\ UNCHANGED object
            ELSE /\ object' = CachedObject(object.size, object.version, segs)
                 /\ IF DOMAIN wire[r] = {request}
                    THEN Return(r, CutOut(segs, RangesOf(call[r], meta[r].size)))
                    ELSE /\ wire' = [wire EXCEPT ![r] = Restrict(@, DOMAIN @ \ {request})]
                         /\ UNCHANGED <<pc, meta, answer>>
    BY DEF DeliverRange
<1> DEFINE reply == wire[r][request]
           start == StartOf(reply, request.range)
           new == Placed(reply, start)
           segs == Insert(object.segments, start, new)
<1>5. request \in DOMAIN wire[r] /\ IsFetch(request) /\ reply \in Replies(request)
    BY <1>1 DEF Answered, CacheInv, TypeOK
<1>6. CASE ~Succeeded(reply)
    BY <1>1, <1>3, <1>4, <1>6, ErrorIsPromised DEF MayRefuse
<1>7. CASE Succeeded(reply) /\ IsStale(meta[r], reply)
    <2>1. MayRefuse("stale", call[r], object.version)
        BY <1>1, <1>5, <1>7, FetchIsRefusedForAReason
    <2> QED BY <1>1, <1>3, <1>4, <1>7, <2>1, ErrorIsPromised
<1>8. CASE Succeeded(reply) /\ ~IsStale(meta[r], reply) /\ IsIncomplete(reply, request.range)
    <2>1. MayRefuse("incomplete", call[r], object.version)
        BY <1>1, <1>5, <1>8, FetchIsRefusedForAReason
    <2> QED BY <1>1, <1>3, <1>4, <1>8, <2>1, ErrorIsPromised
<1>9. CASE Succeeded(reply) /\ ~IsStale(meta[r], reply) /\ ~IsIncomplete(reply, request.range)
    <2>1. PICK v \in Versions, whole \in BOOLEAN : reply = Serve(request, v, whole)
        BY <1>5, <1>9, ServedOrFailed
    <2>2. /\ reply.range.start \in Nat /\ reply.range.end \in Nat
          /\ reply.version = v /\ v = opened
        <3>1. reply.range.start \in Nat /\ reply.range.end \in Nat /\ reply.version = v
            BY <1>5, <1>9, <2>1, ServedBytes
        <3>2. opened # NoVersion /\ v # NoVersion
            BY <1>2 DEF Versions, NoVersion
        <3> QED BY <1>1, <1>9, <3>1, <3>2 DEF IsStale, VersionOf
    <2>3. start \in Nat /\ new.end \in Nat /\ start < new.end
        BY <1>5, <1>9, <2>1, FetchIsPlaced
    <2>4. start <= request.range.start /\ request.range.end <= new.end
        BY <1>5, <1>9, <2>3 DEF IsIncomplete, IsFetch
    <2>5. new.end <= Size[opened]
        <3>1. reply.range.end <= Size[opened]
            BY <1>5, <1>9, <2>1, <2>2, ServedWithinTheFile
        <3>2. /\ reply.status = 200 => reply.range.start = 0
              /\ reply.status = 206 => reply.range.start = request.range.start
            BY <1>5, <1>9, <2>1, ServedBytes
        <3>3. start = reply.range.start
            BY <1>9, <3>2 DEF StartOf, HasPosition, Succeeded
        <3> QED BY <2>2, <3>1, <3>3 DEF Placed
    <2>6. /\ object' = CachedObject(object.size, opened, segs)
          /\ IF DOMAIN wire[r] = {request}
             THEN Return(r, CutOut(segs, RangesOf(call[r], Size[opened])))
             ELSE /\ wire' = [wire EXCEPT ![r] = Restrict(@, DOMAIN @ \ {request})]
                  /\ UNCHANGED <<pc, meta, answer>>
        BY <1>1, <1>2, <1>4, <1>9
    <2>7. Cached(segs) = Cached(object.segments) \cup start .. (new.end - 1)
        BY <1>2, <2>3, InsertCaches DEF HoldsOnly
    <2>8. object'.size = object.size /\ object'.version = opened /\ object'.segments = segs
        BY <2>6 DEF CachedObject
    <2> HIDE DEF segs, new, start
    <2>9. Registered' /\ HoldsOnly(segs, opened)
        <3>1. Registered'
            BY <1>1, <2>8 DEF Registered
        <3>2. \A o \in Cached(segs) : o < Size[opened]
            BY <1>2, <2>3, <2>5, <2>7 DEF HoldsOnly
        <3> QED BY <2>8, <3>1, <3>2
                DEF HoldsOnly, CacheInv, SegmentsStayApart, VersionInv, NeverMixesVersions
    <2>10. /\ EntryIsKept /\ object'.version <= published /\ CacheIsWithinTheFile'
           /\ Cached(object.segments) \subseteq Cached(object'.segments)
        BY <1>2, <2>7, <2>8, <2>9
           DEF EntryIsKept, CacheInv, TypeOK, ReadInv, RepliesAreRecent, CacheIsWithinTheFile, HoldsOnly
    <2>11. /\ InRange(call[r], Size[opened])
           /\ \A range \in NonEmpty(RangesOf(call[r], Size[opened])) : \A o \in Offsets(range) :
                o \in Cached(segs) \/ \E other \in DOMAIN wire[r] \ {request} : o \in Offsets(other.range)
           /\ \A other \in DOMAIN wire[r] \ {request} :
                \E range \in NonEmpty(RangesOf(call[r], Size[opened])) : other.range.end <= range.end
        <3>1. Covers(call[r], Size[opened], object.segments, DOMAIN wire[r])
            BY <1>1, <1>2 DEF ReadInv, PlansCoverTheCall
        <3>2. Offsets(request.range) \subseteq Cached(segs)
            BY <1>5, <2>3, <2>4, <2>7 DEF Offsets, IsFetch
        <3> QED BY <2>7, <3>1, <3>2 DEF Covers
    <2>12. CASE DOMAIN wire[r] = {request}
        <3>1. CutOut(segs, RangesOf(call[r], Size[opened])) \in Promise!Fulfilled(call[r], opened)
            BY <1>2, <1>3, <2>9, <2>11, <2>12, CutOutFulfills
        <3>2. Promise!WaitOrAnswer(r, call[r])
            BY <2>6, <2>8, <2>12, <3>1, ReturnAnswers DEF CacheInv
        <3>3. Promise!Answer(r)
            BY <1>1, <1>3, <2>8, <3>2 DEF Promise!Answer, Promise!Open
        <3>4. ReadInv'
            <4>1. OthersUnchanged(r) /\ ReadsOn(r)
                BY <2>6, <2>12, ReturnReadsOn DEF CacheInv
            <4> QED BY <1>1, <1>3, <2>10, <4>1, ReaderStepKeepsReadInv
        <3> QED BY <3>3, <3>4 DEF PromisedStep, Promise!Next
    <2>13. CASE DOMAIN wire[r] # {request}
        <3>1. /\ DOMAIN wire' = Readers /\ \A q \in Readers \ {r} : wire'[q] = wire[q]
              /\ wire'[r] = Restrict(wire[r], DOMAIN wire[r] \ {request})
            BY <2>6, <2>13 DEF CacheInv, TypeOK
        <3>2. /\ DOMAIN wire'[r] = DOMAIN wire[r] \ {request}
              /\ \A other \in DOMAIN wire'[r] : wire'[r][other] = wire[r][other]
            BY <3>1 DEF Restrict
        <3>3. OthersUnchanged(r)
            BY <2>6, <2>13, <3>1 DEF CacheInv, TypeOK, OthersUnchanged, Await, Meta
        <3>4. ReadsOn(r)
            <4>1. Covers(call'[r], object'.size, object'.segments, DOMAIN wire'[r])
                BY <1>2, <1>3, <2>8, <2>11, <3>2 DEF Covers
            <4>2. \A other \in DOMAIN wire'[r] : Succeeded(wire'[r][other]) =>
                    object'.version <= wire'[r][other].version /\ wire'[r][other].version <= published'
                BY <1>1, <1>3, <2>8, <3>2 DEF ReadInv, RepliesAreRecent
            <4> QED BY <4>1, <4>2 DEF ReadsOn
        <3>5. ReadInv'
            BY <1>1, <1>3, <2>10, <3>3, <3>4, ReaderStepKeepsReadInv
        <3>6. UNCHANGED <<published, object.version, [q \in Readers |-> Active(q)], call, answer>>
            BY <1>3, <2>6, <2>8, <2>13 DEF Active
        <3> QED BY <3>5, <3>6 DEF PromisedStep
    <2> QED BY <2>12, <2>13
<1> QED BY <1>6, <1>7, <1>8, <1>9

LEMMA NextIsPromised ==
    ASSUME VersionIsExposed, CacheInv, VersionInv, ReadInv, CacheInv', VersionInv', [Next]_vars
    PROVE  ReadInv' /\ PromisedStep
<1>1. CASE Republish
    BY <1>1, RepublishIsPromised
<1>2. CASE \E r \in Readers : Begin(r)
    BY <1>2, BeginIsPromised
<1>3. CASE \E r \in Readers : Respond(r)
    BY <1>3, RespondIsPromised
<1>4. CASE \E r \in Readers : DeliverTail(r)
    BY <1>4, DeliverTailIsPromised
<1>5. CASE \E r \in Readers : DeliverHead(r)
    BY <1>5, DeliverHeadIsPromised
<1>6. CASE \E r \in Readers : DeliverRange(r)
    BY <1>6, DeliverRangeIsPromised
<1>7. CASE \E r \in Readers : Drop(r)
    <2>1. PICK r \in Readers : /\ Active(r) /\ Return(r, Err("dropped"))
                               /\ UNCHANGED <<published, object, call>>
        BY <1>7 DEF Drop
    <2> QED BY <2>1, ErrorIsPromised DEF MayRefuse
<1>8. CASE UNCHANGED vars
    BY <1>8 DEF vars, ReadInv, RepliesAreRecent, CacheIsWithinTheFile, PlansCoverTheCall,
                Registered, Active, PromisedStep
<1> QED BY <1>1, <1>2, <1>3, <1>4, <1>5, <1>6, <1>7, <1>8 DEF Next

LEMMA InitIsPromised == Init => Promise!Init
<1> SUFFICES ASSUME Init PROVE Promise!Init
    OBVIOUS
<1>1. published = 1 /\ object.version = Promise!NoVersion
    BY DEF Init, NoObject, NoVersion, Promise!NoVersion
<1>2. [r \in Readers |-> Active(r)] = [r \in Readers |-> FALSE]
    <2>1. ASSUME NEW r \in Readers PROVE Active(r) = FALSE
        <3>1. pc[r] = "idle"
            BY DEF Init
        <3> QED BY <3>1 DEF Active
    <2> QED BY <2>1
<1>3. answer = [r \in Readers |-> [error |-> "none", value |-> Promise!NoValue]]
    BY DEF Init, Ok, NoValue, Promise!NoValue
<1>4. call = [r \in Readers |-> CHOOSE c \in Calls : TRUE]
    BY DEF Init
<1> QED BY <1>1, <1>2, <1>3, <1>4 DEF Promise!Init

(* The store implements VersionedRead: whatever is republished, reordered, *)
(* lost or dropped, a call is answered with the bytes of the version that  *)
(* was opened first, or refused for one of the reasons the promise names.  *)
THEOREM StoreImplementsPromise ==
    ASSUME OpenFirst, VersionIsExposed
    PROVE  Spec => ImplementsPromise
<1>1. Init => ReadInv /\ Promise!Init
    BY InitReadInv, InitIsPromised
<1>2. /\ CacheInv /\ VersionInv /\ ReadInv /\ CacheInv' /\ VersionInv' /\ [Next]_vars
      => ReadInv' /\ [Promise!Next]_(Promise!vars)
    BY NextIsPromised DEF PromisedStep, Promise!vars
<1> QED BY <1>1, <1>2, CacheInvariant, VersionInvariant, PTL DEF Spec, ImplementsPromise, Promise!Spec

-----------------------------------------------------------------------------
(* SegmentScan: the loops of the source, for every cache.                  *)

ByteSpans == [start : Nat, end : Nat]

(* Ranges in order, with bytes between each two. *)
Apart(list) == \A i, j \in 1..Len(list) : i < j => list[i].end < list[j].start

(* Two gaps of a range that share an offset are one. *)
LEMMA GapsAreMaximal ==
    ASSUME NEW segs, WellFormed(segs), NEW range, range.start \in Nat, range.end \in Nat,
           NEW g \in Missing(segs, range), NEW h \in Missing(segs, range),
           NEW o \in Offsets(g), o \in Offsets(h)
    PROVE  g = h
<1>1. /\ g \in ByteSpans /\ h \in ByteSpans /\ o \in Nat
      /\ g.start <= o /\ o < g.end /\ h.start <= o /\ o < h.end
      /\ range.start <= g.start /\ range.start <= h.start /\ g.end <= range.end /\ h.end <= range.end
    BY DEF Missing, Offsets, WellFormed, ByteSpans
<1>2. ASSUME NEW p \in Missing(segs, range), NEW q \in Missing(segs, range), p \in ByteSpans, q \in ByteSpans,
             o \in Offsets(p), o \in Offsets(q)
      PROVE  ~(p.start < q.start) /\ ~(p.end > q.end)
    <2>1. /\ p.start \in Nat /\ p.end \in Nat /\ q.start \in Nat /\ q.end \in Nat
          /\ p.start <= o /\ o < p.end /\ q.start <= o /\ o < q.end /\ o \in Nat
        BY <1>1, <1>2 DEF ByteSpans, Offsets
    <2>2. ASSUME p.start < q.start PROVE FALSE
        <3>1. q.start # range.start
            BY <1>1, <1>2, <2>1, <2>2 DEF Missing
        <3>2. PICK s \in DOMAIN segs : q.start = segs[s].end
            BY <3>1 DEF Missing
        <3>3. q.start - 1 \in s .. (segs[s].end - 1)
            BY <2>1, <2>2, <3>2 DEF WellFormed
        <3>4. q.start - 1 \in Cached(segs)
            BY <3>3 DEF Cached
        <3>5. q.start - 1 \in Offsets(p)
            BY <2>1, <2>2 DEF Offsets
        <3> QED BY <3>4, <3>5 DEF Missing
    <2>3. ASSUME p.end > q.end PROVE FALSE
        <3>1. q.end # range.end
            BY <1>2, <2>1, <2>3 DEF Missing
        <3>2. q.end \in DOMAIN segs
            BY <3>1 DEF Missing
        <3>3. q.end \in q.end .. (segs[q.end].end - 1)
            BY <3>2 DEF WellFormed
        <3>4. q.end \in Cached(segs)
            BY <3>2, <3>3 DEF Cached
        <3>5. q.end \in Offsets(p)
            BY <2>1, <2>3 DEF Offsets
        <3> QED BY <3>4, <3>5 DEF Missing
    <2> QED BY <2>2, <2>3
<1>3. /\ ~(g.start < h.start) /\ ~(g.end > h.end)
      /\ ~(h.start < g.start) /\ ~(h.end > g.end)
    BY <1>1, <1>2
<1>4. g.start = h.start /\ g.end = h.end
    BY <1>1, <1>3 DEF ByteSpans
<1> QED BY <1>1, <1>4 DEF ByteSpans

(* One turn of the loop of missing. *)
WalkStep(segs, walk, s) ==
    [cursor |-> Max({walk.cursor, segs[s].end}),
     gaps   |-> IF s > walk.cursor THEN Append(walk.gaps, Span(walk.cursor, s)) ELSE walk.gaps]
Walks == [cursor : Nat, gaps : Seq(ByteSpans)]

(* The segments that are walked over. *)
FirstWalked(segs, range) ==
    IF UpTo(segs, range.start) = {} THEN range.start ELSE Max(UpTo(segs, range.start))
Walkable(segs, range) == {s \in DOMAIN segs : FirstWalked(segs, range) <= s /\ s < range.end}
Walked(segs, range) == Ascending(Walkable(segs, range))
StartOfWalk(range) == [cursor |-> range.start, gaps |-> << >>]
EndOfWalk(walk, range) ==
    IF walk.cursor < range.end THEN Append(walk.gaps, Span(walk.cursor, range.end)) ELSE walk.gaps

IsWalk(h, segs, range) ==
    LET list == Walked(segs, range)
    IN /\ h \in [0..Len(list) -> Walks]
       /\ h[0] = StartOfWalk(range)
       /\ \A k \in 1..Len(list) : h[k] = WalkStep(segs, h[k - 1], list[k])
       /\ ScanMissing(segs, range) = EndOfWalk(h[Len(list)], range)

LEMMA WalkedIsInOrder ==
    ASSUME NEW segs, WellFormed(segs), NEW range, range.start \in Nat, range.end \in Nat
    PROVE  /\ Walkable(segs, range) \in SUBSET Nat /\ Walked(segs, range) \in Seq(Walkable(segs, range))
           /\ \A i, j \in 1..Len(Walked(segs, range)) : i < j => Walked(segs, range)[i] < Walked(segs, range)[j]
           /\ \A s \in Walkable(segs, range) : \E i \in 1..Len(Walked(segs, range)) : Walked(segs, range)[i] = s
<1> DEFINE N == Walkable(segs, range)
           list == Walked(segs, range)
<1>1. N \in SUBSET Nat /\ N \in SUBSET Int /\ N \in SUBSET (0..range.end)
    BY DEF WellFormed, Walkable
<1>2. IsFiniteSet(0..range.end)
    BY FS_Interval
<1>3. list = Ascending(N)
    BY Zenon DEF Walked
<1> HIDE DEF N, list
<1>4. IsFiniteSet(N)
    BY <1>1, <1>2, FS_Subset
<1>5. /\ list \in Seq(N) /\ Len(list) = Cardinality(N)
      /\ \A i, j \in 1..Cardinality(N) : i < j => list[i] < list[j]
      /\ \A x \in N : \E i \in 1..Cardinality(N) : list[i] = x
    BY <1>1, <1>3, <1>4, AscendingOrder
<1> QED BY <1>1, <1>5 DEF N, list

LEMMA WalksBySteps ==
    ASSUME NEW segs, WellFormed(segs), NEW range, range.start \in Nat, range.end \in Nat
    PROVE  \E h : IsWalk(h, segs, range)
<1> DEFINE list == Walked(segs, range)
           n == Len(list)
           base == StartOfWalk(range)
           step == [p \in Walks \X (1..n) |-> WalkStep(segs, p[1], list[p[2]])]
           iter == CHOOSE iter : iter = [t \in SUBSET DOMAIN list |->
                       IF t = {} THEN base ELSE WalkStep(segs, iter[t \ {Max(t)}], list[Max(t)])]
           h == [k \in 0..n |-> iter[1..k]]
<1>1. /\ n \in Nat /\ DOMAIN list = 1..n
      /\ \A k \in 1..n : list[k] \in DOMAIN segs /\ list[k] \in Nat
    <2> DEFINE N == Walkable(segs, range)
    <2>1. N \in SUBSET Nat /\ list \in Seq(N) /\ N \subseteq DOMAIN segs
        BY WalkedIsInOrder DEF Walkable
    <2> HIDE DEF N, list
    <2>2. n \in Nat /\ DOMAIN list = 1..n /\ \A k \in 1..n : list[k] \in N
        BY <2>1
    <2> QED BY <2>1, <2>2
<1>2. base \in Walks
    BY DEF StartOfWalk, Walks
<1>3. \A walk \in Walks, s \in DOMAIN segs : WalkStep(segs, walk, s) \in Walks
    <2> TAKE walk \in Walks, s \in DOMAIN segs
    <2>1. s \in Nat /\ segs[s].end \in Nat /\ walk.cursor \in Nat /\ walk.gaps \in Seq(ByteSpans)
        BY DEF WellFormed, Walks
    <2>2. Max({walk.cursor, segs[s].end}) \in Nat
        <3>1. walk.cursor \in Int /\ segs[s].end \in Int
            BY <2>1
        <3>2. Max({walk.cursor, segs[s].end}) \in {walk.cursor, segs[s].end}
            BY <3>1, MinMaxOfTwo
        <3> QED BY <2>1, <3>2
    <2>3. Span(walk.cursor, s) \in ByteSpans
        BY <2>1 DEF Span, ByteSpans
    <2>4. Append(walk.gaps, Span(walk.cursor, s)) \in Seq(ByteSpans)
        BY <2>1, <2>3
    <2> QED BY <2>1, <2>2, <2>4 DEF WalkStep, Walks
<1>4. step \in [Walks \X (1..n) -> Walks]
    <2> HIDE DEF n, list
    <2> QED BY <1>1, <1>3
<1>5. PICK G : FoldsBy(G, n, Walks, base, step)
    <2> HIDE DEF step, n, iter, h, base
    <2> QED BY <1>1, <1>2, <1>4, FoldRuns, Zenon
<1> HIDE DEF n, base
<1>6. G = [t \in SUBSET DOMAIN list |-> IF t = {} THEN base ELSE WalkStep(segs, G[t \ {Max(t)}], list[Max(t)])]
    <2>1. ASSUME NEW t \in SUBSET (1..n), t # {} PROVE G[t] = WalkStep(segs, G[t \ {Max(t)}], list[Max(t)])
        <3>1. Max(t) \in 1..n /\ t \ {Max(t)} \in SUBSET (1..n)
            BY <1>1, <2>1, MaxOfIndices
        <3>2. G[t \ {Max(t)}] \in Walks /\ G[t] = step[<<G[t \ {Max(t)}], Max(t)>>]
            BY <1>5, <2>1, <3>1 DEF FoldsBy
        <3> QED BY <3>1, <3>2
    <2> HIDE DEF step, list
    <2> QED BY <1>1, <1>5, <2>1 DEF FoldsBy
<1>7. iter = [t \in SUBSET DOMAIN list |-> IF t = {} THEN base ELSE WalkStep(segs, iter[t \ {Max(t)}], list[Max(t)])]
    <2> HIDE DEF list
    <2> QED BY <1>6, Zenon
<1>8. ScanMissing(segs, range) = EndOfWalk(iter[DOMAIN list], range)
    BY DEF ScanMissing, FoldLeft, MapThenFoldSet, InOrder, list, Walked, Walkable, FirstWalked, WalkStep, EndOfWalk, base, StartOfWalk
<1> HIDE DEF iter, list
<1>9. h[0] = base /\ ScanMissing(segs, range) = EndOfWalk(h[n], range)
    <2>1. 1..0 = {}
        OBVIOUS
    <2>2. h[0] = iter[{}] /\ h[n] = iter[1..n]
        BY <1>1, <2>1
    <2> HIDE DEF h
    <2> QED BY <1>1, <1>7, <1>8, <2>2
<1>10. ASSUME NEW k \in 1..n PROVE h[k] = WalkStep(segs, h[k - 1], list[k])
    <2>1. 1..k \in SUBSET (1..n) /\ 1..k # {} /\ Max(1..k) = k /\ (1..k) \ {k} = 1..(k - 1)
        <3> HIDE DEF h
        <3> QED BY <1>1, SegmentIsNext
    <2>2. iter[1..k] = WalkStep(segs, iter[1..(k - 1)], list[k])
        BY <1>1, <1>7, <2>1
    <2> QED BY <1>1, <2>2
<1>11. \A k \in 0..n : h[k] \in Walks
    <2> DEFINE T == {k \in 0..n : h[k] \in Walks}
    <2> HIDE DEF h
    <2>1. 0 \in T
        BY <1>1, <1>2, <1>9
    <2>2. \A k \in 0..n - 1 : k \in T => k + 1 \in T
        <3> SUFFICES ASSUME NEW k \in 0..n - 1, k \in T PROVE k + 1 \in T
            OBVIOUS
        <3>1. h[k + 1] = WalkStep(segs, h[(k + 1) - 1], list[k + 1]) /\ (k + 1) - 1 = k /\ list[k + 1] \in DOMAIN segs
            BY <1>1, <1>10
        <3> QED BY <1>1, <1>3, <3>1
    <2> HIDE DEF T
    <2>3. \A k \in 0..n : k \in T
        BY <1>1, <2>1, <2>2, InductionUpTo
    <2> QED BY <2>3 DEF T
<1>12. h \in [0..n -> Walks]
    BY <1>11
<1> HIDE DEF h
<1>13. IsWalk(h, segs, range)
    BY <1>9, <1>10, <1>12 DEF IsWalk, list, n, base
<1> QED BY <1>13

LEMMA AppendSpan ==
    ASSUME NEW gaps \in Seq(ByteSpans), NEW g \in ByteSpans
    PROVE  LET all == Append(gaps, g)
           IN /\ all \in Seq(ByteSpans) /\ Len(all) = Len(gaps) + 1
              /\ \A i \in 1..Len(gaps) : all[i] = gaps[i]
              /\ all[Len(gaps) + 1] = g
              /\ Apart(gaps) /\ (\A i \in 1..Len(gaps) : gaps[i].end < g.start) => Apart(all)
<1> DEFINE all == Append(gaps, g)
           n == Len(gaps)
<1>1. /\ all \in Seq(ByteSpans) /\ Len(all) = n + 1 /\ n \in Nat
      /\ \A i \in 1..n : all[i] = gaps[i]
      /\ all[n + 1] = g
    BY AppendProperties
<1> HIDE DEF all, n
<1>2. ASSUME Apart(gaps), \A i \in 1..n : gaps[i].end < g.start
      PROVE  Apart(all)
    <2> SUFFICES ASSUME NEW i \in 1..n + 1, NEW j \in 1..n + 1, i < j PROVE all[i].end < all[j].start
        BY <1>1 DEF Apart
    <2>1. i \in 1..n /\ all[i] = gaps[i]
        BY <1>1
    <2>2. CASE j \in 1..n
        <3>1. all[j] = gaps[j]
            BY <1>1, <2>2
        <3> QED BY <1>2, <2>1, <2>2, <3>1 DEF Apart, n
    <2>3. CASE j = n + 1
        BY <1>1, <1>2, <2>1, <2>3
    <2> QED BY <1>1, <2>2, <2>3
<1> QED BY <1>1, <1>2 DEF all, n

(* A cursor is at the start of the range or where a segment ends. *)
IsCursor(cursor, segs, range) ==
    /\ cursor \in Nat /\ range.start <= cursor
    /\ cursor = range.start \/ \E s \in DOMAIN segs : cursor = segs[s].end

(* What the walk skips lies before the cursor. *)
LEMMA SkippedIsBefore ==
    ASSUME NEW segs, WellFormed(segs), Separated(segs), NEW range, range.start \in Nat,
           NEW s \in DOMAIN segs, s < FirstWalked(segs, range)
    PROVE  segs[s].end <= range.start
<1> DEFINE before == UpTo(segs, range.start)
           m == Max(before)
<1>1. before \in SUBSET Nat /\ \A x \in before : x <= range.start
    BY DEF UpTo, WellFormed
<1>2. CASE before = {}
    <2>1. s < range.start
        BY <1>2 DEF FirstWalked
    <2>2. s \in before
        BY <2>1 DEF UpTo, WellFormed
    <2> QED BY <1>2, <2>2
<1>3. CASE before # {}
    <2>1. m \in before
        BY <1>1, <1>3, MaxIsGreatest
    <2>2. s < m
        BY <1>3 DEF FirstWalked
    <2> HIDE DEF m
    <2>3. m \in DOMAIN segs /\ m \in Nat /\ m <= range.start /\ s \in Nat /\ segs[s].end \in Nat
        BY <1>1, <2>1 DEF UpTo, WellFormed
    <2>4. segs[s].end < m
        BY <2>2, <2>3 DEF Separated
    <2> QED BY <2>3, <2>4
<1> QED BY <1>2, <1>3

(* What follows the segments before e is a gap up to e. *)
LEMMA WalkFindsGap ==
    ASSUME NEW segs, WellFormed(segs), Separated(segs),
           NEW range, range.start \in Nat, range.end \in Nat,
           NEW cursor, IsCursor(cursor, segs, range),
           NEW e \in {range.end} \cup DOMAIN segs, cursor < e, e <= range.end,
           \A s \in DOMAIN segs : FirstWalked(segs, range) <= s /\ s < e => segs[s].end <= cursor
    PROVE  Span(cursor, e) \in Missing(segs, range) /\ Span(cursor, e) \in ByteSpans
<1>1. e \in Nat /\ cursor \in Nat /\ range.start <= cursor
    BY DEF IsCursor, WellFormed
<1>2. FirstWalked(segs, range) \in Nat
    <2>1. UpTo(segs, range.start) \in SUBSET Nat /\ \A x \in UpTo(segs, range.start) : x <= range.start
        BY DEF UpTo, WellFormed
    <2>2. UpTo(segs, range.start) # {} => Max(UpTo(segs, range.start)) \in Nat
        BY <2>1, MaxIsGreatest
    <2> QED BY <2>2 DEF FirstWalked
<1>3. Offsets(Span(cursor, e)) \cap Cached(segs) = {}
    <2> SUFFICES ASSUME NEW o \in Offsets(Span(cursor, e)), NEW s \in DOMAIN segs, o \in s .. (segs[s].end - 1)
                 PROVE  FALSE
        BY DEF Cached
    <2>1. s \in Nat /\ segs[s].end \in Nat /\ o \in Nat /\ cursor <= o /\ o < e /\ s <= o /\ o < segs[s].end
        BY <1>1 DEF WellFormed, Offsets, Span
    <2>2. CASE FirstWalked(segs, range) <= s
        BY <2>1, <2>2, <1>1
    <2>3. CASE s < FirstWalked(segs, range)
        <3>1. segs[s].end <= range.start
            BY <2>3, SkippedIsBefore
        <3> QED BY <1>1, <2>1, <3>1
    <2> QED BY <1>2, <2>1, <2>2, <2>3
<1>4. Span(cursor, e).start = cursor /\ Span(cursor, e).end = e /\ Span(cursor, e) = [start |-> cursor, end |-> e]
    BY DEF Span
<1>5. Span(cursor, e) \in [start : {range.start} \cup {segs[s].end : s \in DOMAIN segs},
                           end : {range.end} \cup DOMAIN segs]
    BY <1>4 DEF IsCursor
<1> QED BY <1>1, <1>3, <1>4, <1>5 DEF Missing, ByteSpans

WalkInv(segs, range, list, k, walk) ==
    /\ walk \in Walks /\ IsCursor(walk.cursor, segs, range)
    /\ \A i \in 1..k : segs[list[i]].end <= walk.cursor
    /\ Apart(walk.gaps)
    /\ \A i \in 1..Len(walk.gaps) : walk.gaps[i] \in Missing(segs, range) /\ walk.gaps[i].end < walk.cursor
    /\ \A o \in Offsets(range) : o < walk.cursor /\ o \notin Cached(segs) =>
          \E i \in 1..Len(walk.gaps) : o \in Offsets(walk.gaps[i])

LEMMA WalkStepKeepsInv ==
    ASSUME NEW segs, WellFormed(segs), Separated(segs),
           NEW range, range.start \in Nat, range.end \in Nat, range.start < range.end,
           NEW k \in 1..Len(Walked(segs, range)),
           NEW walk, WalkInv(segs, range, Walked(segs, range), k - 1, walk)
    PROVE  WalkInv(segs, range, Walked(segs, range), k, WalkStep(segs, walk, Walked(segs, range)[k]))
<1> DEFINE list == Walked(segs, range)
           N == Walkable(segs, range)
           s == list[k]
           e == segs[s].end
           new == WalkStep(segs, walk, s)
           gap == Span(walk.cursor, s)
<1>1. /\ N \in SUBSET Nat /\ list \in Seq(N)
      /\ \A i, j \in 1..Len(list) : i < j => list[i] < list[j]
      /\ \A x \in N : \E i \in 1..Len(list) : list[i] = x
    BY WalkedIsInOrder
<1>2. /\ walk.cursor \in Nat /\ walk.gaps \in Seq(ByteSpans) /\ range.start <= walk.cursor
      /\ IsCursor(walk.cursor, segs, range)
    BY DEF WalkInv, Walks, IsCursor
<1> HIDE DEF N, list
<1>3. Len(list) \in Nat /\ \A i \in 1..Len(list) : list[i] \in N
    BY <1>1
<1>4. s \in N /\ k \in Int /\ k - 1 \in Int
    BY <1>3 DEF list
<1>5. s \in DOMAIN segs /\ s \in Nat /\ e \in Nat /\ s < e /\ s < range.end
    BY <1>4 DEF WellFormed, N, Walkable
<1>6. new.cursor \in Nat /\ new.cursor >= walk.cursor /\ new.cursor >= e /\ new.cursor \in {walk.cursor, e}
    <2>1. walk.cursor \in Int /\ e \in Int
        BY <1>2, <1>5
    <2>2. new.cursor = Max({walk.cursor, e})
        BY DEF WalkStep
    <2> HIDE DEF e, new, s
    <2> QED BY <1>2, <1>5, <2>1, <2>2, MinMaxOfTwo
<1>7. new.gaps = IF s > walk.cursor THEN Append(walk.gaps, gap) ELSE walk.gaps
    BY DEF WalkStep
<1>8. new = [cursor |-> new.cursor, gaps |-> new.gaps]
    BY DEF WalkStep
<1> HIDE DEF new
<1>9. \A x \in DOMAIN segs : FirstWalked(segs, range) <= x /\ x < s => segs[x].end <= walk.cursor
    <2> TAKE x \in DOMAIN segs
    <2> HAVE FirstWalked(segs, range) <= x /\ x < s
    <2>1. x \in Nat /\ x < range.end
        BY <1>5 DEF WellFormed
    <2>2. x \in N
        BY <2>1 DEF N, Walkable
    <2>3. PICK i \in 1..Len(list) : list[i] = x
        BY <1>1, <2>2
    <2>4. i < k
        <3> SUFFICES ASSUME i >= k PROVE FALSE
            BY <1>4, <2>3
        <3>1. CASE i = k
            BY <2>1, <2>3, <3>1
        <3>2. CASE i > k
            <4>1. list[k] < list[i]
                BY <1>1, <1>4, <2>3, <3>2 DEF list
            <4> QED BY <1>5, <2>1, <2>3, <4>1
        <3> QED BY <1>4, <2>3, <3>1, <3>2
    <2>5. i \in 1..k - 1
        BY <1>4, <2>4
    <2> QED BY <2>3, <2>5 DEF WalkInv, list
<1>10. s > walk.cursor => gap \in Missing(segs, range) /\ gap \in ByteSpans
    <2> SUFFICES ASSUME walk.cursor < s PROVE gap \in Missing(segs, range) /\ gap \in ByteSpans
        BY <1>2, <1>5
    <2>1. s \in {range.end} \cup DOMAIN segs /\ s <= range.end
        BY <1>5
    <2> HIDE DEF s
    <2> QED BY <1>2, <1>9, <2>1, WalkFindsGap
<1>11. gap.start = walk.cursor /\ gap.end = s
    BY DEF Span
<1>12. IsCursor(new.cursor, segs, range)
    BY <1>2, <1>5, <1>6 DEF IsCursor
<1>13. \A i \in 1..k : segs[list[i]].end <= new.cursor
    <2> TAKE i \in 1..k
    <2>1. CASE i = k
        BY <1>6, <2>1
    <2>2. CASE i # k
        <3>1. i \in 1..k - 1
            BY <1>4, <2>2
        <3>2. segs[list[i]].end <= walk.cursor
            BY <3>1 DEF WalkInv, list
        <3>3. i \in 1..Len(list)
            BY <1>3, <1>4, <3>1 DEF list
        <3>4. segs[list[i]].end \in Nat
            BY <1>3, <3>3 DEF N, Walkable, WellFormed
        <3> QED BY <1>2, <1>6, <3>2, <3>4
    <2> QED BY <2>1, <2>2
<1>14. /\ new.gaps \in Seq(ByteSpans) /\ Apart(new.gaps)
       /\ \A i \in 1..Len(new.gaps) : new.gaps[i] \in Missing(segs, range) /\ new.gaps[i].end < new.cursor
       /\ \A o : (\E i \in 1..Len(walk.gaps) : o \in Offsets(walk.gaps[i])) =>
                    \E i \in 1..Len(new.gaps) : o \in Offsets(new.gaps[i])
       /\ s > walk.cursor => \A o \in Offsets(gap) : \E i \in 1..Len(new.gaps) : o \in Offsets(new.gaps[i])
    <2>1. \A i \in 1..Len(walk.gaps) : /\ walk.gaps[i] \in ByteSpans /\ walk.gaps[i] \in Missing(segs, range)
                                       /\ walk.gaps[i].end < walk.cursor
        BY <1>2 DEF WalkInv
    <2>2. \A i \in 1..Len(walk.gaps) : walk.gaps[i].end \in Nat
        BY <2>1 DEF ByteSpans
    <2>3. Apart(walk.gaps) /\ Len(walk.gaps) \in Nat
        BY <1>2 DEF WalkInv
    <2>4. CASE ~(s > walk.cursor)
        <3>1. new.gaps = walk.gaps
            BY <1>7, <2>4
        <3>2. \A i \in 1..Len(walk.gaps) : walk.gaps[i].end < new.cursor
            BY <1>2, <1>6, <2>1, <2>2
        <3> HIDE DEF s, gap
        <3> QED BY <1>2, <2>1, <2>3, <2>4, <3>1, <3>2
    <2>5. CASE s > walk.cursor
        <3>1. new.gaps = Append(walk.gaps, gap) /\ gap \in ByteSpans /\ gap \in Missing(segs, range)
            BY <1>7, <1>10, <2>5
        <3>2. \A i \in 1..Len(walk.gaps) : walk.gaps[i].end < gap.start
            BY <1>11, <2>1
        <3>3. gap.end < new.cursor
            BY <1>5, <1>6, <1>11, <2>5
        <3> HIDE DEF gap, s
        <3>4. /\ new.gaps \in Seq(ByteSpans) /\ Len(new.gaps) = Len(walk.gaps) + 1
              /\ \A i \in 1..Len(walk.gaps) : new.gaps[i] = walk.gaps[i]
              /\ new.gaps[Len(walk.gaps) + 1] = gap
              /\ Apart(new.gaps)
            <4> DEFINE old == walk.gaps
            <4>1. old \in Seq(ByteSpans) /\ Apart(old) /\ \A i \in 1..Len(old) : old[i].end < gap.start
                BY <1>2, <2>3, <3>2
            <4>2. new.gaps = Append(old, gap)
                BY <3>1
            <4> HIDE DEF old
            <4>3. /\ Append(old, gap) \in Seq(ByteSpans) /\ Len(Append(old, gap)) = Len(old) + 1
                  /\ \A i \in 1..Len(old) : Append(old, gap)[i] = old[i]
                  /\ Append(old, gap)[Len(old) + 1] = gap
                  /\ Apart(Append(old, gap))
                BY <3>1, <4>1, AppendSpan
            <4> QED BY <4>2, <4>3 DEF old
        <3>5. ASSUME NEW i \in 1..Len(new.gaps)
              PROVE  new.gaps[i] \in Missing(segs, range) /\ new.gaps[i].end < new.cursor
            <4>1. CASE i = Len(walk.gaps) + 1
                BY <3>1, <3>3, <3>4, <4>1
            <4>2. CASE i # Len(walk.gaps) + 1
                <5>1. i \in 1..Len(walk.gaps)
                    BY <2>3, <3>4, <4>2
                <5>2. new.gaps[i] = walk.gaps[i]
                    BY <3>4, <5>1
                <5> QED BY <1>2, <1>6, <2>1, <2>2, <5>1, <5>2
            <4> QED BY <4>1, <4>2
        <3>6. Len(walk.gaps) + 1 \in 1..Len(new.gaps) /\ \A i \in 1..Len(walk.gaps) : i \in 1..Len(new.gaps)
            BY <2>3, <3>4
        <3>7. ASSUME NEW o, \E i \in 1..Len(walk.gaps) : o \in Offsets(walk.gaps[i])
              PROVE  \E i \in 1..Len(new.gaps) : o \in Offsets(new.gaps[i])
            <4>1. PICK i \in 1..Len(walk.gaps) : o \in Offsets(walk.gaps[i])
                BY <3>7
            <4>2. i \in 1..Len(new.gaps) /\ new.gaps[i] = walk.gaps[i]
                BY <3>4, <3>6
            <4>3. o \in Offsets(new.gaps[i])
                BY <4>1, <4>2
            <4> QED BY <4>2, <4>3
        <3>8. ASSUME NEW o \in Offsets(gap) PROVE \E i \in 1..Len(new.gaps) : o \in Offsets(new.gaps[i])
            <4>1. o \in Offsets(new.gaps[Len(walk.gaps) + 1])
                BY <3>4
            <4> QED BY <3>6, <4>1
        <3> QED BY <3>4, <3>5, <3>7, <3>8
    <2> QED BY <2>4, <2>5
<1>15. ASSUME NEW o \in Offsets(range), o < new.cursor, o \notin Cached(segs)
       PROVE  \E i \in 1..Len(new.gaps) : o \in Offsets(new.gaps[i])
    <2>1. o \in Nat
        BY DEF Offsets
    <2>2. CASE o < walk.cursor
        <3>1. \E i \in 1..Len(walk.gaps) : o \in Offsets(walk.gaps[i])
            BY <1>15, <2>2 DEF WalkInv
        <3> QED BY <1>14, <3>1
    <2>3. CASE walk.cursor <= o
        <3>1. o < e
            BY <1>2, <1>5, <1>6, <1>15, <2>1, <2>3
        <3>2. ~(s <= o)
            <4> SUFFICES ASSUME s <= o PROVE FALSE
                OBVIOUS
            <4>1. o \in s .. (segs[s].end - 1)
                BY <1>5, <2>1, <3>1
            <4>2. o \in Cached(segs)
                BY <1>5, <4>1 DEF Cached
            <4> QED BY <1>15, <4>2
        <3>3. s > walk.cursor /\ o \in Offsets(gap)
            BY <1>2, <1>5, <1>11, <2>1, <2>3, <3>2 DEF Offsets
        <3> QED BY <1>14, <3>3
    <2> QED BY <1>2, <2>1, <2>2, <2>3
<1>16. new \in Walks
    BY <1>6, <1>8, <1>14 DEF Walks
<1> QED BY <1>12, <1>13, <1>14, <1>15, <1>16 DEF WalkInv, list, new

LEMMA GapsAreSpans ==
    ASSUME NEW segs, WellFormed(segs), NEW range, range.start \in Nat, range.end \in Nat,
           NEW g \in Missing(segs, range)
    PROVE  /\ g \in ByteSpans /\ g.start \in Nat /\ g.end \in Nat /\ g.start < g.end
           /\ range.start <= g.start /\ g.end <= range.end
           /\ \A o \in Offsets(g) : o \in Offsets(range) /\ o \notin Cached(segs)
<1>1. /\ g \in [start : {range.start} \cup {segs[s].end : s \in DOMAIN segs},
                end   : {range.end} \cup DOMAIN segs]
      /\ range.start <= g.start /\ g.start < g.end /\ g.end <= range.end
      /\ Offsets(g) \cap Cached(segs) = {}
    BY DEF Missing
<1>2. g.start \in Nat /\ g.end \in Nat /\ g \in ByteSpans
    BY <1>1 DEF WellFormed, ByteSpans
<1>3. \A o \in Offsets(g) : o \in Offsets(range)
    BY <1>1, <1>2 DEF Offsets
<1> QED BY <1>1, <1>2, <1>3

LEMMA StartOfWalkInv ==
    ASSUME NEW segs, NEW range, range.start \in Nat, NEW list
    PROVE  WalkInv(segs, range, list, 0, StartOfWalk(range))
<1> DEFINE walk == StartOfWalk(range)
<1>1. walk.cursor = range.start /\ walk.gaps = <<>> /\ Len(walk.gaps) = 0 /\ walk \in Walks
    BY DEF StartOfWalk, Walks
<1> HIDE DEF walk
<1>2. IsCursor(walk.cursor, segs, range)
    BY <1>1 DEF IsCursor
<1>3. Apart(walk.gaps)
    BY <1>1 DEF Apart
<1>4. \A o \in Offsets(range) : ~(o < walk.cursor)
    BY <1>1 DEF Offsets
<1>5. WalkInv(segs, range, list, 0, walk)
    BY <1>1, <1>2, <1>3, <1>4 DEF WalkInv
<1> QED BY <1>5 DEF walk

(* The walk leaves the gaps of the range, in order, and nothing else. *)
LEMMA ScanMissingIsExact ==
    ASSUME NEW segs, WellFormed(segs), Separated(segs),
           NEW range, range.start \in Nat, range.end \in Nat, range.start < range.end
    PROVE  /\ ScanMissing(segs, range) \in Seq(ByteSpans) /\ Apart(ScanMissing(segs, range))
           /\ \A i \in 1..Len(ScanMissing(segs, range)) : ScanMissing(segs, range)[i] \in Missing(segs, range)
           /\ \A g \in Missing(segs, range) :
                \E i \in 1..Len(ScanMissing(segs, range)) : ScanMissing(segs, range)[i] = g
<1> DEFINE list == Walked(segs, range)
           N == Walkable(segs, range)
           n == Len(list)
           Holds(k, w) == WalkInv(segs, range, list, k, w)
<1>1. /\ N \in SUBSET Nat /\ list \in Seq(N)
      /\ \A x \in N : \E i \in 1..Len(list) : list[i] = x
    BY WalkedIsInOrder
<1>2. n \in Nat
    <2> HIDE DEF list, N
    <2> QED BY <1>1
<1>3. PICK h : IsWalk(h, segs, range)
    BY WalksBySteps
<1>4. /\ h[0] = StartOfWalk(range)
      /\ \A k \in 1..n : h[k] = WalkStep(segs, h[k - 1], list[k])
      /\ ScanMissing(segs, range) = EndOfWalk(h[n], range)
    BY <1>3 DEF IsWalk
<1>5. \A k \in 0..n : Holds(k, h[k])
    <2> DEFINE T == {k \in 0..n : Holds(k, h[k])}
    <2>1. Holds(0, h[0])
        BY <1>4, StartOfWalkInv
    <2>2. ASSUME NEW k \in 1..n, Holds(k - 1, h[k - 1]) PROVE Holds(k, h[k])
        <3> DEFINE w == h[k - 1]
        <3>1. WalkInv(segs, range, list, k - 1, w)
            BY <2>2
        <3> HIDE DEF w
        <3>2. WalkInv(segs, range, list, k, WalkStep(segs, w, list[k]))
            BY <3>1, WalkStepKeepsInv
        <3>3. h[k] = WalkStep(segs, w, list[k])
            BY <1>4 DEF w
        <3> QED BY <3>2, <3>3
    <2> HIDE DEF Holds, n, list
    <2>3. 0 \in T
        BY <1>2, <2>1
    <2>4. \A k \in 0..n - 1 : k \in T => k + 1 \in T
        <3> SUFFICES ASSUME NEW k \in 0..n - 1, Holds(k, h[k]) PROVE Holds(k + 1, h[k + 1]) /\ k + 1 \in 0..n
            OBVIOUS
        <3>1. k + 1 \in 1..n /\ (k + 1) - 1 = k /\ k + 1 \in 0..n
            BY <1>2
        <3> QED BY <2>2, <3>1
    <2> HIDE DEF T
    <2>5. \A k \in 0..n : k \in T
        BY <1>2, <2>3, <2>4, InductionUpTo
    <2> QED BY <2>5 DEF T
<1> DEFINE walk == h[n]
           gaps == walk.gaps
           scan == ScanMissing(segs, range)
           last == Span(walk.cursor, range.end)
<1>6. WalkInv(segs, range, list, n, walk)
    BY <1>2, <1>5
<1> HIDE DEF walk
<1>7. /\ gaps \in Seq(ByteSpans) /\ walk.cursor \in Nat /\ IsCursor(walk.cursor, segs, range) /\ Apart(gaps)
      /\ \A i \in 1..n : segs[list[i]].end <= walk.cursor
      /\ \A i \in 1..Len(gaps) : gaps[i] \in Missing(segs, range) /\ gaps[i].end < walk.cursor
      /\ \A o \in Offsets(range) : o < walk.cursor /\ o \notin Cached(segs) =>
            \E i \in 1..Len(gaps) : o \in Offsets(gaps[i])
    BY <1>6 DEF WalkInv, Walks
<1>8. scan = EndOfWalk(walk, range)
    BY <1>4 DEF walk
<1> HIDE DEF scan, list, n, N
<1>9. /\ scan \in Seq(ByteSpans) /\ Apart(scan)
      /\ \A i \in 1..Len(scan) : scan[i] \in Missing(segs, range)
      /\ \A o \in Offsets(range) : o \notin Cached(segs) => \E i \in 1..Len(scan) : o \in Offsets(scan[i])
    <2>1. CASE ~(walk.cursor < range.end)
        <3>1. scan = gaps
            BY <1>8, <2>1 DEF EndOfWalk
        <3>2. \A o \in Offsets(range) : o < walk.cursor
            BY <1>7, <2>1 DEF Offsets
        <3> HIDE DEF gaps
        <3> QED BY <1>7, <3>1, <3>2
    <2>2. CASE walk.cursor < range.end
        <3>1. \A s \in DOMAIN segs : FirstWalked(segs, range) <= s /\ s < range.end => segs[s].end <= walk.cursor
            <4> TAKE s \in DOMAIN segs
            <4> HAVE FirstWalked(segs, range) <= s /\ s < range.end
            <4>1. s \in N
                BY DEF N, Walkable
            <4>2. PICK i \in 1..n : list[i] = s
                BY <1>1, <4>1 DEF n
            <4> QED BY <1>7, <4>2
        <3>2. last \in Missing(segs, range) /\ last \in ByteSpans
            <4> DEFINE e == range.end
            <4>1. e \in {range.end} \cup DOMAIN segs /\ e <= range.end /\ walk.cursor < e
                BY <2>2
            <4> QED BY <1>7, <3>1, <4>1, WalkFindsGap
        <3>3. last.start = walk.cursor /\ last.end = range.end
            BY DEF Span
        <3>4. scan = Append(gaps, last)
            BY <1>8, <2>2 DEF EndOfWalk
        <3> HIDE DEF last, gaps
        <3>5. \A i \in 1..Len(gaps) : gaps[i].end < last.start
            BY <1>7, <3>3
        <3>6. /\ scan \in Seq(ByteSpans) /\ Len(scan) = Len(gaps) + 1
              /\ \A i \in 1..Len(gaps) : scan[i] = gaps[i]
              /\ scan[Len(gaps) + 1] = last
              /\ Apart(scan)
            BY <1>7, <3>2, <3>4, <3>5, AppendSpan
        <3>7. Len(gaps) \in Nat
            BY <1>7
        <3>8. \A i \in 1..Len(scan) : scan[i] \in Missing(segs, range)
            <4> TAKE i \in 1..Len(scan)
            <4>1. CASE i = Len(gaps) + 1
                BY <3>2, <3>6, <4>1
            <4>2. CASE i # Len(gaps) + 1
                <5>1. i \in 1..Len(gaps)
                    BY <3>6, <3>7, <4>2
                <5> QED BY <1>7, <3>6, <5>1
            <4> QED BY <4>1, <4>2
        <3>9. ASSUME NEW o \in Offsets(range), o \notin Cached(segs)
              PROVE  \E i \in 1..Len(scan) : o \in Offsets(scan[i])
            <4>1. CASE o < walk.cursor
                <5>1. PICK i \in 1..Len(gaps) : o \in Offsets(gaps[i])
                    BY <1>7, <3>9, <4>1
                <5>2. i \in 1..Len(scan) /\ scan[i] = gaps[i]
                    BY <3>6, <3>7
                <5>3. o \in Offsets(scan[i])
                    BY <5>1, <5>2
                <5> QED BY <5>2, <5>3
            <4>2. CASE walk.cursor <= o
                <5>1. o \in Offsets(last)
                    BY <1>7, <3>3, <4>2 DEF Offsets
                <5>2. Len(gaps) + 1 \in 1..Len(scan)
                    BY <3>6, <3>7
                <5>3. o \in Offsets(scan[Len(gaps) + 1])
                    BY <3>6, <5>1
                <5> QED BY <5>2, <5>3
            <4>3. o \in Nat
                BY DEF Offsets
            <4> QED BY <1>7, <4>1, <4>2, <4>3
        <3> QED BY <3>6, <3>8, <3>9
    <2> QED BY <2>1, <2>2
<1>10. ASSUME NEW g \in Missing(segs, range) PROVE \E i \in 1..Len(scan) : scan[i] = g
    <2>1. /\ g.start \in Nat /\ g.end \in Nat /\ g.start < g.end
          /\ \A o \in Offsets(g) : o \in Offsets(range) /\ o \notin Cached(segs)
        BY GapsAreSpans
    <2>2. g.start \in Offsets(g)
        BY <2>1 DEF Offsets
    <2>3. PICK i \in 1..Len(scan) : g.start \in Offsets(scan[i])
        BY <1>9, <2>1, <2>2
    <2>4. scan[i] = g
        <3> DEFINE x == scan[i]
        <3>1. x \in Missing(segs, range) /\ g.start \in Offsets(x)
            BY <1>9, <2>3
        <3> HIDE DEF x
        <3>2. x = g
            BY <2>2, <3>1, GapsAreMaximal
        <3> QED BY <3>2 DEF x
    <2> QED BY <2>4
<1> QED BY <1>9, <1>10 DEF scan

(* Two runs that share an offset are one. *)
LEMMA RunsAreMaximal ==
    ASSUME NEW S \in SUBSET Nat, NEW g \in Runs(S), NEW h \in Runs(S),
           NEW o \in Offsets(g), o \in Offsets(h)
    PROVE  g = h
<1>1. \A r \in Runs(S) : /\ r = Span(r.start, r.end) /\ r.start \in Nat /\ r.end \in Nat /\ r.start < r.end
                         /\ r.start - 1 \notin S /\ r.end \notin S
                         /\ \A x \in Offsets(r) : x \in S
    <2> TAKE r \in Runs(S)
    <2>1. /\ r \in [start : S, end : {x + 1 : x \in S}] /\ r.start < r.end
          /\ Offsets(r) \subseteq S /\ r.start - 1 \notin S /\ r.end \notin S
        BY DEF Runs
    <2>2. r.end \in Nat
        BY <2>1
    <2> QED BY <2>1, <2>2 DEF Span
<1>2. /\ g.start \in Nat /\ g.end \in Nat /\ h.start \in Nat /\ h.end \in Nat /\ o \in Nat
      /\ g.start <= o /\ o < g.end /\ h.start <= o /\ o < h.end
    BY <1>1 DEF Offsets
<1>3. ~(g.start < h.start)
    <2> SUFFICES ASSUME g.start < h.start PROVE FALSE
        OBVIOUS
    <2>1. h.start - 1 \in Offsets(g)
        BY <1>2 DEF Offsets
    <2> QED BY <1>1, <2>1
<1>4. ~(h.start < g.start)
    <2> SUFFICES ASSUME h.start < g.start PROVE FALSE
        OBVIOUS
    <2>1. g.start - 1 \in Offsets(h)
        BY <1>2 DEF Offsets
    <2> QED BY <1>1, <2>1
<1>5. ~(g.end < h.end)
    <2> SUFFICES ASSUME g.end < h.end PROVE FALSE
        OBVIOUS
    <2>1. g.end \in Offsets(h)
        BY <1>2 DEF Offsets
    <2> QED BY <1>1, <2>1
<1>6. ~(h.end < g.end)
    <2> SUFFICES ASSUME h.end < g.end PROVE FALSE
        OBVIOUS
    <2>1. h.end \in Offsets(g)
        BY <1>2 DEF Offsets
    <2> QED BY <1>1, <2>1
<1>7. g.start = h.start /\ g.end = h.end
    BY <1>2, <1>3, <1>4, <1>5, <1>6
<1> QED BY <1>1, <1>7

(* Ranges that are apart and cover a set of offsets are its runs. *)
LEMMA CoversAreRuns ==
    ASSUME NEW D \in SUBSET Nat, NEW list \in Seq(ByteSpans), Apart(list),
           \A i \in 1..Len(list) : list[i].start < list[i].end /\ Offsets(list[i]) \subseteq D,
           \A o \in D : \E i \in 1..Len(list) : o \in Offsets(list[i])
    PROVE  ToSet(list) = Runs(D)
<1> DEFINE n == Len(list)
<1>1. /\ n \in Nat /\ DOMAIN list = 1..n
      /\ \A i \in 1..n : list[i] \in ByteSpans
    OBVIOUS
<1>2. \A i \in 1..n : /\ list[i].start \in Nat /\ list[i].end \in Nat /\ list[i].start < list[i].end
                      /\ list[i] = Span(list[i].start, list[i].end)
    BY <1>1 DEF ByteSpans, Span
<1> HIDE DEF n
<1>3. ASSUME NEW j \in 1..n PROVE list[j] \in Runs(D)
    <2> DEFINE r == list[j]
    <2>1. /\ r.start \in Nat /\ r.end \in Nat /\ r.start < r.end /\ r = [start |-> r.start, end |-> r.end]
          /\ Offsets(r) \subseteq D
        BY <1>2 DEF n, Span
    <2>2. ASSUME NEW i \in 1..n, NEW o \in Offsets(list[i]) PROVE o # r.start - 1 /\ o # r.end
        <3>1. /\ o \in Nat /\ list[i].start \in Nat /\ list[i].end \in Nat
              /\ list[i].start <= o /\ o < list[i].end
            BY <1>2 DEF Offsets
        <3>2. CASE i = j
            BY <2>1, <3>1, <3>2
        <3>3. CASE i < j
            <4>1. list[i].end < r.start
                BY <3>3 DEF Apart, n
            <4> HIDE DEF r
            <4> QED BY <2>1, <3>1, <4>1
        <3>4. CASE j < i
            <4>1. r.end < list[i].start
                BY <3>4 DEF Apart, n
            <4> HIDE DEF r
            <4> QED BY <2>1, <3>1, <4>1
        <3> QED BY <3>2, <3>3, <3>4, <1>1
    <2> HIDE DEF r
    <2>3. r.start - 1 \notin D /\ r.end \notin D
        BY <2>2 DEF n
    <2>4. r.start \in D /\ r.end - 1 \in D /\ (r.end - 1) + 1 = r.end
        <3>1. r.start \in Offsets(r) /\ r.end - 1 \in Offsets(r)
            BY <2>1 DEF Offsets
        <3> QED BY <2>1, <3>1
    <2>5. r.end \in {x + 1 : x \in D}
        BY <2>4
    <2>6. r \in [start : D, end : {x + 1 : x \in D}]
        BY <2>1, <2>4, <2>5
    <2>7. r \in Runs(D)
        BY <2>1, <2>3, <2>6 DEF Runs
    <2> QED BY <2>7 DEF r
<1>4. ASSUME NEW r \in Runs(D) PROVE \E i \in 1..n : list[i] = r
    <2>1. r.start \in D /\ r.start \in Offsets(r)
        <3>1. r.start \in D /\ r.start < r.end /\ r.end \in {x + 1 : x \in D}
            BY DEF Runs
        <3>2. PICK x \in D : r.end = x + 1
            BY <3>1
        <3>3. r.start \in Nat /\ x \in Nat
            BY <3>1
        <3> QED BY <3>1, <3>2, <3>3 DEF Offsets
    <2>2. PICK i \in 1..n : r.start \in Offsets(list[i])
        BY <2>1 DEF n
    <2>3. list[i] \in Runs(D)
        BY <1>3
    <2>4. list[i] = r
        BY <2>1, <2>2, <2>3, RunsAreMaximal
    <2> QED BY <2>4
<1> QED BY <1>1, <1>3, <1>4 DEF ToSet

(* One turn of the merge loop of ranges_to_fetch.                          *)
Joins(segs, x, y) ==
    \/ y <= x
    \/ /\ y - x <= CoalesceGap
       /\ IsUncached(segs, Span(x, y))
MergeStep(segs, merged, gap) ==
    IF merged # << >> /\ Joins(segs, Last(merged).end, gap.start)
    THEN [merged EXCEPT ![Len(merged)].end = Max({@, gap.end})]
    ELSE Append(merged, gap)

GapsOf(segs, ranges) == UNION {Missing(segs, range) : range \in ranges}
ToBeFetched(segs, ranges) == Needed(segs, ranges) \cup Bridged(segs, ranges)

LEMMA MergeStepCases ==
    ASSUME NEW segs, NEW M \in Seq(ByteSpans), NEW g \in ByteSpans
    PROVE  LET new == MergeStep(segs, M, g)
               n == Len(M)
           IN  /\ n \in Nat /\ new \in Seq(ByteSpans)
               /\ \/ /\ n \in 1..n /\ Joins(segs, M[n].end, g.start) /\ Len(new) = n
                     /\ \A j \in 1..n : j # n => new[j] = M[j]
                     /\ new[n].start = M[n].start
                     /\ new[n].end \in {M[n].end, g.end} /\ new[n].end >= M[n].end /\ new[n].end >= g.end
                  \/ /\ n \in 1..n => ~Joins(segs, M[n].end, g.start)
                     /\ Len(new) = n + 1 /\ new[n + 1] = g
                     /\ \A j \in 1..n : new[j] = M[j]
<1> DEFINE new == MergeStep(segs, M, g)
           n == Len(M)
           last == M[n]
           joined == [last EXCEPT !.end = Max({last.end, g.end})]
<1>1. n \in Nat /\ DOMAIN M = 1..n /\ (n \in 1..n <=> M # <<>>)
    BY EmptySeq
<1>2. CASE M # <<>> /\ Joins(segs, Last(M).end, g.start)
    <2>1. n \in 1..n /\ Last(M) = M[n]
        BY <1>1, <1>2 DEF Last
    <2>2. last \in ByteSpans
        BY <2>1
    <2>3. new = [M EXCEPT ![n] = joined]
        BY <1>2 DEF MergeStep
    <2>4. last.end \in Nat /\ g.end \in Nat
        BY <2>2 DEF ByteSpans
    <2>5. joined.start = last.start /\ joined.end = Max({last.end, g.end}) /\ (Max({last.end, g.end}) \in Nat => joined \in ByteSpans)
        BY <2>2 DEF ByteSpans
    <2>6. Max({last.end, g.end}) \in {last.end, g.end} /\ Max({last.end, g.end}) >= last.end /\ Max({last.end, g.end}) >= g.end
        <3> DEFINE x == last.end
                   y == g.end
        <3>1. x \in Int /\ y \in Int
            BY <2>4
        <3> HIDE DEF x, y
        <3>2. Max({x, y}) \in {x, y} /\ Max({x, y}) >= x /\ Max({x, y}) >= y
            BY <3>1, MinMaxOfTwo
        <3> QED BY <3>2 DEF x, y
    <2>7. joined \in ByteSpans
        BY <2>4, <2>5, <2>6
    <2> HIDE DEF joined, new, n
    <2>8. /\ new \in Seq(ByteSpans) /\ Len(new) = n /\ new[n] = joined
          /\ \A j \in 1..n : j # n => new[j] = M[j]
        <3>1. n \in 1..Len(M)
            BY <2>1 DEF n
        <3>2. new \in Seq(ByteSpans) /\ Len(new) = Len(M) /\ \A j \in 1..Len(M) : new[j] = IF j = n THEN joined ELSE M[j]
            BY <2>3, <2>7, <3>1, ExceptSeq
        <3> QED BY <2>1, <3>2 DEF n
    <2> QED BY <1>1, <1>2, <2>1, <2>5, <2>6, <2>8 DEF n, new
<1>3. CASE ~(M # <<>> /\ Joins(segs, Last(M).end, g.start))
    <2>1. new = Append(M, g)
        BY <1>3 DEF MergeStep
    <2>2. n \in 1..n => ~Joins(segs, M[n].end, g.start)
        BY <1>1, <1>3 DEF Last
    <2>3. new \in Seq(ByteSpans) /\ Len(new) = n + 1 /\ new[n + 1] = g /\ \A j \in 1..n : new[j] = M[j]
        BY <2>1, AppendProperties
    <2> QED BY <1>1, <2>2, <2>3
<1> QED BY <1>2, <1>3

Merged(segs, list) == FoldLeft(LAMBDA merged, gap : MergeStep(segs, merged, gap), << >>, list)

IsMerge(h, segs, list) ==
    /\ h \in [0..Len(list) -> Seq(ByteSpans)]
    /\ h[0] = << >>
    /\ \A k \in 1..Len(list) : h[k] = MergeStep(segs, h[k - 1], list[k])
    /\ Merged(segs, list) = h[Len(list)]

LEMMA MergesBySteps ==
    ASSUME NEW segs, NEW list \in Seq(ByteSpans)
    PROVE  \E h : IsMerge(h, segs, list)
<1> DEFINE n == Len(list)
           V == Seq(ByteSpans)
           step == [p \in V \X (1..n) |-> MergeStep(segs, p[1], list[p[2]])]
           iter == CHOOSE iter : iter = [t \in SUBSET DOMAIN list |->
                       IF t = {} THEN << >> ELSE MergeStep(segs, iter[t \ {Max(t)}], list[Max(t)])]
           h == [k \in 0..n |-> iter[1..k]]
<1>1. n \in Nat /\ DOMAIN list = 1..n /\ << >> \in V /\ \A k \in 1..n : list[k] \in ByteSpans
    OBVIOUS
<1>2. \A M \in V, g \in ByteSpans : MergeStep(segs, M, g) \in V
    BY MergeStepCases
<1>3. step \in [V \X (1..n) -> V]
    <2> HIDE DEF n, V
    <2> QED BY <1>1, <1>2
<1>4. PICK G : FoldsBy(G, n, V, << >>, step)
    <2> HIDE DEF step, n, iter, h, V
    <2> QED BY <1>1, <1>3, FoldRuns, Zenon
<1> HIDE DEF n, V
<1>5. G = [t \in SUBSET DOMAIN list |-> IF t = {} THEN << >> ELSE MergeStep(segs, G[t \ {Max(t)}], list[Max(t)])]
    <2>1. ASSUME NEW t \in SUBSET (1..n), t # {} PROVE G[t] = MergeStep(segs, G[t \ {Max(t)}], list[Max(t)])
        <3>1. Max(t) \in 1..n /\ t \ {Max(t)} \in SUBSET (1..n)
            BY <1>1, <2>1, MaxOfIndices
        <3>2. G[t \ {Max(t)}] \in V /\ G[t] = step[<<G[t \ {Max(t)}], Max(t)>>]
            BY <1>4, <2>1, <3>1 DEF FoldsBy
        <3> QED BY <3>1, <3>2
    <2> HIDE DEF step
    <2> QED BY <1>1, <1>4, <2>1 DEF FoldsBy
<1>6. iter = [t \in SUBSET DOMAIN list |-> IF t = {} THEN << >> ELSE MergeStep(segs, iter[t \ {Max(t)}], list[Max(t)])]
    BY <1>5, Zenon
<1>7. Merged(segs, list) = iter[DOMAIN list]
    BY DEF Merged, FoldLeft, MapThenFoldSet
<1> HIDE DEF iter
<1>8. h[0] = << >> /\ Merged(segs, list) = h[n]
    <2>1. 1..0 = {}
        OBVIOUS
    <2>2. h[0] = iter[{}] /\ h[n] = iter[1..n]
        BY <1>1, <2>1
    <2> HIDE DEF h
    <2> QED BY <1>1, <1>6, <1>7, <2>2
<1>9. ASSUME NEW k \in 1..n PROVE h[k] = MergeStep(segs, h[k - 1], list[k])
    <2>1. 1..k \in SUBSET (1..n) /\ 1..k # {} /\ Max(1..k) = k /\ (1..k) \ {k} = 1..(k - 1)
        <3> HIDE DEF h
        <3> QED BY <1>1, SegmentIsNext
    <2>2. iter[1..k] = MergeStep(segs, iter[1..(k - 1)], list[k])
        BY <1>1, <1>6, <2>1
    <2> QED BY <1>1, <2>2
<1>10. \A k \in 0..n : h[k] \in V
    <2> DEFINE T == {k \in 0..n : h[k] \in V}
    <2> HIDE DEF h
    <2>1. 0 \in T
        BY <1>1, <1>8
    <2>2. \A k \in 0..n - 1 : k \in T => k + 1 \in T
        <3> SUFFICES ASSUME NEW k \in 0..n - 1, k \in T PROVE k + 1 \in T
            OBVIOUS
        <3>1. k + 1 \in 1..n /\ (k + 1) - 1 = k
            BY <1>1
        <3>2. h[k + 1] = MergeStep(segs, h[k], list[k + 1]) /\ list[k + 1] \in ByteSpans
            BY <1>1, <1>9, <3>1
        <3> QED BY <1>1, <1>2, <3>1, <3>2
    <2> HIDE DEF T
    <2>3. \A k \in 0..n : k \in T
        BY <1>1, <2>1, <2>2, InductionUpTo
    <2> QED BY <2>3 DEF T
<1>11. h \in [0..n -> V]
    BY <1>10
<1> HIDE DEF h
<1>12. IsMerge(h, segs, list)
    BY <1>8, <1>9, <1>11 DEF IsMerge, n, V
<1> QED BY <1>12

LEMMA GapsOfAreSpans ==
    ASSUME NEW segs, WellFormed(segs), NEW ranges, ranges \subseteq ByteSpans, NEW g \in GapsOf(segs, ranges)
    PROVE  /\ g \in ByteSpans /\ g.start \in Nat /\ g.end \in Nat /\ g.start < g.end
           /\ \A o \in Offsets(g) : o \in ToBeFetched(segs, ranges) /\ o \notin Cached(segs)
<1>1. PICK range \in ranges : g \in Missing(segs, range)
    BY DEF GapsOf
<1>2. range.start \in Nat /\ range.end \in Nat
    BY DEF ByteSpans
<1>3. /\ g \in ByteSpans /\ g.start \in Nat /\ g.end \in Nat /\ g.start < g.end
      /\ \A o \in Offsets(g) : o \notin Cached(segs)
    BY <1>1, <1>2, GapsAreSpans
<1>4. \A o \in Offsets(g) : o \in Needed(segs, ranges)
    BY <1>1 DEF Needed
<1> QED BY <1>3, <1>4 DEF ToBeFetched

(* What joins two gaps is fetched with them. *)
LEMMA JoinsAreBridged ==
    ASSUME NEW segs, NEW ranges, NEW left \in GapsOf(segs, ranges), NEW right \in GapsOf(segs, ranges),
           left.end \in Nat, right.start \in Nat, left.end < right.start,
           Joins(segs, left.end, right.start),
           NEW o \in left.end .. (right.start - 1)
    PROVE  o \in ToBeFetched(segs, ranges)
<1> DEFINE gaps == UNION {Missing(segs, range) : range \in ranges}
           between == {Span(l.end, r.start) : l \in gaps, r \in gaps}
           hops == {h \in between : /\ h.start < h.end
                                    /\ h.end - h.start <= CoalesceGap
                                    /\ IsUncached(segs, h)}
           hop == Span(left.end, right.start)
<1>1. hop \in between
    BY DEF GapsOf
<1>2. hop.start = left.end /\ hop.end = right.start
    BY DEF Span
<1>3. hop.start < hop.end /\ hop.end - hop.start <= CoalesceGap /\ IsUncached(segs, hop)
    BY <1>2 DEF Joins
<1> HIDE DEF hop, between
<1>4. hop \in hops
    BY <1>1, <1>3
<1>5. o \in Offsets(hop)
    BY <1>2 DEF Offsets
<1>6. o \in UNION {Offsets(h) : h \in hops}
    BY <1>4, <1>5
<1>7. Bridged(segs, ranges) = UNION {Offsets(h) : h \in hops}
    BY DEF Bridged, hops, between
<1> QED BY <1>6, <1>7 DEF ToBeFetched

(* The gaps, in the order of their starts. *)
GapsInOrder(segs, ranges, list) ==
    /\ list \in Seq(ByteSpans)
    /\ \A i \in 1..Len(list) : list[i] \in GapsOf(segs, ranges)
    /\ \A g \in GapsOf(segs, ranges) : \E i \in 1..Len(list) : list[i] = g
    /\ \A i, j \in 1..Len(list) : i < j => list[i].start <= list[j].start

MergeInv(segs, ranges, list, k, M) ==
    /\ M \in Seq(ByteSpans) /\ Apart(M)
    /\ \A j \in 1..Len(M) :
          /\ M[j].start < M[j].end
          /\ \E i \in 1..k : M[j].start = list[i].start
          /\ \E i \in 1..k : M[j].end = list[i].end
          /\ \A o \in Offsets(M[j]) : o \in ToBeFetched(segs, ranges)
    /\ \A j \in 1..Len(M) - 1 : ~Joins(segs, M[j].end, M[j + 1].start)
    /\ \A i \in 1..k : \E j \in 1..Len(M) : M[j].start <= list[i].start /\ list[i].end <= M[j].end

LEMMA MergeStepKeepsInv ==
    ASSUME NEW segs, WellFormed(segs), NEW ranges, ranges \subseteq ByteSpans,
           NEW list, GapsInOrder(segs, ranges, list), NEW k \in 1..Len(list),
           NEW M, MergeInv(segs, ranges, list, k - 1, M)
    PROVE  MergeInv(segs, ranges, list, k, MergeStep(segs, M, list[k]))
<1> DEFINE g == list[k]
           new == MergeStep(segs, M, g)
           n == Len(M)
           D == ToBeFetched(segs, ranges)
<1>1. Len(list) \in Nat /\ k \in Nat /\ k \in 1..k /\ \A i \in 1..k - 1 : i \in 1..k /\ i \in 1..Len(list) /\ i < k
    BY DEF GapsInOrder
<1>2. \A i \in 1..Len(list) : /\ list[i] \in ByteSpans /\ list[i] \in GapsOf(segs, ranges)
                              /\ list[i].start \in Nat /\ list[i].end \in Nat /\ list[i].start < list[i].end
                              /\ \A o \in Offsets(list[i]) : o \in D
    BY GapsOfAreSpans DEF GapsInOrder
<1>3. /\ g \in ByteSpans /\ g \in GapsOf(segs, ranges) /\ g.start \in Nat /\ g.end \in Nat /\ g.start < g.end
      /\ \A o \in Offsets(g) : o \in D
    BY <1>2
<1>4. /\ M \in Seq(ByteSpans) /\ Apart(M)
      /\ \A j \in 1..n : /\ M[j].start < M[j].end
                         /\ \E i \in 1..k - 1 : M[j].start = list[i].start
                         /\ \E i \in 1..k - 1 : M[j].end = list[i].end
                         /\ \A o \in Offsets(M[j]) : o \in D
      /\ \A j \in 1..n - 1 : ~Joins(segs, M[j].end, M[j + 1].start)
      /\ \A i \in 1..k - 1 : \E j \in 1..n : M[j].start <= list[i].start /\ list[i].end <= M[j].end
    BY DEF MergeInv
<1>5. /\ n \in Nat /\ new \in Seq(ByteSpans)
      /\ \/ /\ n \in 1..n /\ Joins(segs, M[n].end, g.start) /\ Len(new) = n
            /\ \A j \in 1..n : j # n => new[j] = M[j]
            /\ new[n].start = M[n].start
            /\ new[n].end \in {M[n].end, g.end} /\ new[n].end >= M[n].end /\ new[n].end >= g.end
         \/ /\ n \in 1..n => ~Joins(segs, M[n].end, g.start)
            /\ Len(new) = n + 1 /\ new[n + 1] = g
            /\ \A j \in 1..n : new[j] = M[j]
    <2>1. M \in Seq(ByteSpans) /\ g \in ByteSpans
        BY <1>3, <1>4
    <2> HIDE DEF g
    <2> QED BY ONLY <2>1, MergeStepCases
<1>6. \A j \in 1..n : M[j].start \in Nat /\ M[j].end \in Nat /\ M[j].start <= g.start
    <2> TAKE j \in 1..n
    <2>1. M[j] \in ByteSpans
        BY <1>4
    <2>2. PICK i \in 1..k - 1 : M[j].start = list[i].start
        BY <1>4
    <2>3. list[i].start <= g.start
        BY <1>1, <2>2 DEF GapsInOrder
    <2> QED BY <2>1, <2>2, <2>3 DEF ByteSpans
<1>4a. \A j \in 1..n : M[j].start < M[j].end
    BY <1>4
<1>7. g.start = list[k].start /\ g.end = list[k].end
    OBVIOUS
<1>8. \A i, j \in 1..n : i < j => M[i].end < M[j].start
    BY <1>4 DEF Apart
<1> HIDE DEF g, new, n, D
<1>9. CASE /\ n \in 1..n /\ Joins(segs, M[n].end, g.start) /\ Len(new) = n
           /\ \A j \in 1..n : j # n => new[j] = M[j]
           /\ new[n].start = M[n].start
           /\ new[n].end \in {M[n].end, g.end} /\ new[n].end >= M[n].end /\ new[n].end >= g.end
    <2>1. \A j \in 1..n : new[j].start = M[j].start /\ new[j].end >= M[j].end /\ new[j].end \in Nat
        <3> TAKE j \in 1..n
        <3>1. CASE j = n
            BY <1>3, <1>6, <1>9, <3>1
        <3>2. CASE j # n
            BY <1>6, <1>9, <3>2
        <3> QED BY <3>1, <3>2
    <2>2. \A i, j \in 1..n : i < j => new[i].end < new[j].start
        <3> TAKE i, j \in 1..n
        <3> HAVE i < j
        <3>1. i # n
            BY <1>5
        <3>2. new[i] = M[i] /\ new[j].start = M[j].start
            BY <1>9, <2>1, <3>1
        <3> QED BY <1>8, <3>2
    <2>3. \A j \in 1..n : \A o \in Offsets(new[j]) : o \in D
        <3> TAKE j \in 1..n
        <3>1. CASE j # n
            BY <1>4, <1>9, <3>1 DEF n
        <3>2. CASE j = n
            <4> SUFFICES ASSUME NEW o \in Offsets(new[n]) PROVE o \in D
                BY <3>2
            <4>1. /\ o \in Nat /\ M[n].start <= o /\ o < new[n].end
                  /\ M[n].start \in Nat /\ M[n].end \in Nat
                BY <1>6, <1>9, <2>1 DEF Offsets
            <4>2. CASE o < M[n].end
                <5>1. o \in Offsets(M[n])
                    BY <4>1, <4>2 DEF Offsets
                <5> QED BY <1>4, <1>9, <5>1 DEF n
            <4>3. CASE M[n].end <= o /\ g.start <= o
                <5>1. new[n].end = g.end
                    BY <1>9, <4>1, <4>3
                <5>2. o \in Offsets(g)
                    BY <1>3, <4>1, <4>3, <5>1 DEF Offsets
                <5> QED BY <1>3, <5>2
            <4>4. CASE M[n].end <= o /\ o < g.start
                <5>1. PICK i \in 1..k - 1 : M[n].end = list[i].end
                    BY <1>4, <1>9 DEF n
                <5> DEFINE left == list[i]
                <5>2. left \in GapsOf(segs, ranges) /\ left.end \in Nat /\ left.end = M[n].end
                    BY <1>1, <1>2, <5>1
                <5> HIDE DEF left
                <5>3. left.end < g.start /\ o \in left.end .. (g.start - 1) /\ Joins(segs, left.end, g.start)
                    BY <1>3, <1>9, <4>1, <4>4, <5>2
                <5> QED BY <1>3, <5>2, <5>3, JoinsAreBridged DEF D
            <4> QED BY <1>3, <4>1, <4>2, <4>3, <4>4
        <3> QED BY <3>1, <3>2
    <2>4. \A j \in 1..n : new[j].start < new[j].end
        BY <1>4a, <1>6, <2>1
    <2>5. \A j \in 1..n : \E i \in 1..k : new[j].start = list[i].start
        <3> TAKE j \in 1..n
        <3>1. PICK i \in 1..k - 1 : M[j].start = list[i].start
            BY <1>4 DEF n
        <3>2. i \in 1..k
            BY <1>1
        <3> QED BY <2>1, <3>1, <3>2
    <2>6. \A j \in 1..n : \E i \in 1..k : new[j].end = list[i].end
        <3> TAKE j \in 1..n
        <3>1. PICK i \in 1..k - 1 : M[j].end = list[i].end
            BY <1>4 DEF n
        <3>2. i \in 1..k /\ k \in 1..k
            BY <1>1
        <3>3. new[j].end = M[j].end \/ new[j].end = g.end
            BY <1>9
        <3> QED BY <1>7, <3>1, <3>2, <3>3
    <2>7. \A j \in 1..n - 1 : ~Joins(segs, new[j].end, new[j + 1].start)
        <3> TAKE j \in 1..n - 1
        <3>1. j \in 1..n /\ j # n /\ j + 1 \in 1..n
            BY <1>5
        <3>2. new[j] = M[j] /\ new[j + 1].start = M[j + 1].start
            BY <1>9, <2>1, <3>1
        <3> QED BY <1>4, <3>2 DEF n
    <2>8. \A i \in 1..k : \E j \in 1..n : new[j].start <= list[i].start /\ list[i].end <= new[j].end
        <3> TAKE i \in 1..k
        <3>1. CASE i = k
            <4>1. M[n].start <= g.start /\ new[n].start = M[n].start /\ g.end <= new[n].end
                BY <1>3, <1>6, <1>9, <2>1
            <4> QED BY <1>7, <1>9, <3>1, <4>1
        <3>2. CASE i # k
            <4>1. i \in 1..k - 1
                BY <1>1, <3>2
            <4>2. PICK j \in 1..n : M[j].start <= list[i].start /\ list[i].end <= M[j].end
                BY <1>4, <4>1 DEF n
            <4>3. list[i].end \in Nat /\ M[j].end \in Nat
                BY <1>1, <1>2, <1>6, <4>1
            <4>4. new[j].start <= list[i].start /\ list[i].end <= new[j].end
                BY <2>1, <4>2, <4>3
            <4> QED BY <4>4
        <3> QED BY <3>1, <3>2
    <2>9. MergeInv(segs, ranges, list, k, new)
        <3>1. Len(new) = n /\ Apart(new)
            BY <1>9, <2>2 DEF Apart
        <3> QED BY <1>5, <2>3, <2>4, <2>5, <2>6, <2>7, <2>8, <3>1 DEF MergeInv, D
    <2> QED BY <2>9 DEF new, g
<1>10. CASE /\ n \in 1..n => ~Joins(segs, M[n].end, g.start)
            /\ Len(new) = n + 1 /\ new[n + 1] = g
            /\ \A j \in 1..n : new[j] = M[j]
    <2>1. \A j \in 1..n + 1 : j \in 1..n \/ j = n + 1
        BY <1>5
    <2>2. \A j \in 1..n : M[j].end < g.start
        <3> TAKE j \in 1..n
        <3>1. n \in 1..n
            BY <1>5
        <3>2. M[n].end < g.start
            BY <1>3, <1>6, <1>10, <3>1 DEF Joins
        <3>3. CASE j = n
            BY <3>2, <3>3
        <3>4. CASE j # n
            <4>1. M[j].end < M[n].start /\ M[n].start < M[n].end
                <5>1. j < n
                    BY <1>5, <3>4
                <5> QED BY <1>4a, <1>8, <3>1, <5>1
            <4> QED BY <1>3, <1>6, <3>1, <3>2, <4>1
        <3> QED BY <3>3, <3>4
    <2>3. \A i, j \in 1..n + 1 : i < j => new[i].end < new[j].start
        <3> TAKE i, j \in 1..n + 1
        <3> HAVE i < j
        <3>1. i \in 1..n
            BY <1>5
        <3>2. CASE j = n + 1
            BY <1>10, <2>2, <3>1, <3>2
        <3>3. CASE j \in 1..n
            BY <1>8, <1>10, <3>1, <3>3
        <3> QED BY <2>1, <3>2, <3>3
    <2>4. ASSUME NEW j \in 1..n + 1
          PROVE  /\ new[j].start < new[j].end
                 /\ \E i \in 1..k : new[j].start = list[i].start
                 /\ \E i \in 1..k : new[j].end = list[i].end
                 /\ \A o \in Offsets(new[j]) : o \in D
        <3>1. CASE j = n + 1
            BY <1>1, <1>3, <1>7, <1>10, <3>1
        <3>2. CASE j \in 1..n
            <4>1. new[j] = M[j]
                BY <1>10, <3>2
            <4>2. /\ M[j].start < M[j].end
                  /\ \E i \in 1..k - 1 : M[j].start = list[i].start
                  /\ \E i \in 1..k - 1 : M[j].end = list[i].end
                  /\ \A o \in Offsets(M[j]) : o \in D
                BY <1>4, <3>2 DEF n
            <4>3. \A i \in 1..k - 1 : i \in 1..k
                BY <1>1
            <4> QED BY <4>1, <4>2, <4>3
        <3> QED BY <2>1, <3>1, <3>2
    <2>5. \A j \in 1..n : ~Joins(segs, new[j].end, new[j + 1].start)
        <3> TAKE j \in 1..n
        <3>1. CASE j = n
            BY <1>10, <3>1
        <3>2. CASE j # n
            <4>1. j \in 1..n - 1 /\ j + 1 \in 1..n
                BY <1>5, <3>2
            <4>2. ~Joins(segs, M[j].end, M[j + 1].start)
                BY <1>4, <4>1 DEF n
            <4> QED BY <1>10, <4>1, <4>2
        <3> QED BY <3>1, <3>2
    <2>6. \A i \in 1..k : \E j \in 1..n + 1 : new[j].start <= list[i].start /\ list[i].end <= new[j].end
        <3> TAKE i \in 1..k
        <3>1. CASE i = k
            <4>1. n + 1 \in 1..n + 1
                BY <1>5
            <4>2. new[n + 1].start <= list[i].start /\ list[i].end <= new[n + 1].end
                BY <1>3, <1>7, <1>10, <3>1
            <4> QED BY <4>1, <4>2
        <3>2. CASE i # k
            <4>1. i \in 1..k - 1
                BY <1>1, <3>2
            <4>2. PICK j \in 1..n : M[j].start <= list[i].start /\ list[i].end <= M[j].end
                BY <1>4, <4>1 DEF n
            <4>3. j \in 1..n + 1
                BY <1>5
            <4>4. new[j] = M[j]
                BY <1>10
            <4>5. new[j].start <= list[i].start /\ list[i].end <= new[j].end
                BY <4>2, <4>4
            <4> QED BY <4>3, <4>5
        <3> QED BY <3>1, <3>2
    <2>7. MergeInv(segs, ranges, list, k, new)
        <3>1. Len(new) = n + 1 /\ Len(new) - 1 = n /\ Apart(new)
            BY <1>5, <1>10, <2>3 DEF Apart
        <3> QED BY <1>5, <2>4, <2>5, <2>6, <3>1 DEF MergeInv, D
    <2> QED BY <2>7 DEF new, g
<1> QED BY <1>5, <1>9, <1>10

(* The merge loop makes one request of each run. *)
LEMMA MergeIsExact ==
    ASSUME NEW segs, WellFormed(segs), Separated(segs), NEW ranges, ranges \subseteq ByteSpans,
           NEW list, GapsInOrder(segs, ranges, list)
    PROVE  ToSet(Merged(segs, list)) = RangesToFetch(segs, ranges)
<1> DEFINE n == Len(list)
           D == ToBeFetched(segs, ranges)
           M == Merged(segs, list)
           m == Len(M)
<1>1. list \in Seq(ByteSpans) /\ n \in Nat
    BY DEF GapsInOrder
<1>2. PICK h : IsMerge(h, segs, list)
    BY <1>1, MergesBySteps
<1>3. h[0] = << >> /\ M = h[n] /\ \A k \in 1..n : h[k] = MergeStep(segs, h[k - 1], list[k])
    BY <1>2 DEF IsMerge
<1>4. MergeInv(segs, ranges, list, n, M)
    <2> DEFINE T == {k \in 0..n : MergeInv(segs, ranges, list, k, h[k])}
    <2>1. 0 \in T
        <3>1. MergeInv(segs, ranges, list, 0, << >>)
            BY DEF MergeInv, Apart
        <3> QED BY <1>1, <1>3, <3>1
    <2>2. \A k \in 0..n - 1 : k \in T => k + 1 \in T
        <3> SUFFICES ASSUME NEW k \in 0..n - 1, MergeInv(segs, ranges, list, k, h[k]) PROVE k + 1 \in T
            OBVIOUS
        <3>1. k + 1 \in 1..n /\ (k + 1) - 1 = k /\ k + 1 \in 0..n
            BY <1>1
        <3> DEFINE l == k + 1
                   w == h[k]
        <3>2. l \in 1..n /\ MergeInv(segs, ranges, list, l - 1, w)
            BY <3>1
        <3>3. h[l] = MergeStep(segs, w, list[l])
            BY <1>3, <3>1
        <3> HIDE DEF l, w, T
        <3>4. MergeInv(segs, ranges, list, l, MergeStep(segs, w, list[l]))
            BY <3>2, MergeStepKeepsInv
        <3> QED BY <3>1, <3>3, <3>4 DEF T, l
    <2> HIDE DEF T, n
    <2>3. \A k \in 0..n : k \in T
        BY <1>1, <2>1, <2>2, InductionUpTo
    <2> QED BY <1>1, <1>3, <2>3 DEF T
<1> HIDE DEF M, D
<1>5. /\ M \in Seq(ByteSpans) /\ Apart(M) /\ m \in Nat
      /\ \A j \in 1..m : M[j].start < M[j].end
      /\ \A j \in 1..m : \A o \in Offsets(M[j]) : o \in D
      /\ \A j \in 1..m - 1 : ~Joins(segs, M[j].end, M[j + 1].start)
      /\ \A i \in 1..n : \E j \in 1..m : M[j].start <= list[i].start /\ list[i].end <= M[j].end
    BY <1>4 DEF MergeInv, D
<1>6. \A j \in 1..m : M[j].start \in Nat /\ M[j].end \in Nat
    <2> TAKE j \in 1..m
    <2>1. M[j] \in ByteSpans
        BY <1>5
    <2> QED BY <2>1 DEF ByteSpans
<1>7. \A i, j \in 1..m : i < j => M[i].end < M[j].start
    BY <1>5 DEF Apart
<1> HIDE DEF m, n
<1>8. ASSUME NEW g \in GapsOf(segs, ranges)
      PROVE  /\ \E j \in 1..m : M[j].start <= g.start /\ g.end <= M[j].end
             /\ g.start \in Nat /\ g.end \in Nat /\ g.start < g.end
             /\ \A o \in Offsets(g) : o \notin Cached(segs)
    <2>1. PICK i \in 1..n : list[i] = g
        BY DEF GapsInOrder, n
    <2>2. PICK j \in 1..m : M[j].start <= list[i].start /\ list[i].end <= M[j].end
        BY <1>5
    <2>3. /\ g.start \in Nat /\ g.end \in Nat /\ g.start < g.end
          /\ \A o \in Offsets(g) : o \notin Cached(segs)
        BY GapsOfAreSpans
    <2> QED BY <2>1, <2>2, <2>3
<1>9. ASSUME NEW o \in D PROVE o \in Nat /\ \E j \in 1..m : o \in Offsets(M[j])
    <2>1. o \in Nat
        <3>1. o \in Needed(segs, ranges) \cup Bridged(segs, ranges)
            BY DEF D, ToBeFetched
        <3> QED BY <3>1, PlanStaysWithin DEF ByteSpans
    <2>2. CASE o \in Needed(segs, ranges)
        <3>1. PICK g \in GapsOf(segs, ranges) : o \in Offsets(g)
            BY <2>2 DEF Needed, GapsOf
        <3>2. PICK j \in 1..m : M[j].start <= g.start /\ g.end <= M[j].end
            BY <1>8
        <3>3. o \in Offsets(M[j])
            <4>1. M[j].start \in Nat /\ M[j].end \in Nat /\ g.start \in Nat /\ g.end \in Nat
                BY <1>6, <1>8
            <4> QED BY <2>1, <3>1, <3>2, <4>1 DEF Offsets
        <3> QED BY <2>1, <3>3
    <2>3. CASE o \in Bridged(segs, ranges)
        <3>1. PICK left \in GapsOf(segs, ranges), right \in GapsOf(segs, ranges) :
                  /\ o \in Offsets(Span(left.end, right.start))
                  /\ Span(left.end, right.start).start < Span(left.end, right.start).end
                  /\ Span(left.end, right.start).end - Span(left.end, right.start).start <= CoalesceGap
                  /\ IsUncached(segs, Span(left.end, right.start))
            BY <2>3 DEF Bridged, GapsOf
        <3>2. /\ left.start \in Nat /\ left.end \in Nat /\ left.start < left.end
              /\ right.start \in Nat /\ right.end \in Nat /\ right.start < right.end
            BY <1>8
        <3> DEFINE hop == Span(left.end, right.start)
        <3>3. /\ hop.start = left.end /\ hop.end = right.start
              /\ left.end < right.start /\ right.start - left.end <= CoalesceGap /\ IsUncached(segs, hop)
              /\ left.end <= o /\ o < right.start
            BY <2>1, <3>1, <3>2 DEF Span, Offsets
        <3>4. PICK i \in 1..m : M[i].start <= left.start /\ left.end <= M[i].end
            BY <1>8
        <3>5. PICK j \in 1..m : M[j].start <= right.start /\ right.end <= M[j].end
            BY <1>8
        <3>6. i \in Nat /\ j \in Nat
            OBVIOUS
        <3>7. CASE i = j
            <4>1. o \in Offsets(M[i])
                BY <1>6, <2>1, <3>2, <3>3, <3>4, <3>5, <3>7 DEF Offsets
            <4> QED BY <2>1, <4>1
        <3>8. CASE j < i
            <4>1. M[j].end < M[i].start
                BY <1>7, <3>8
            <4> QED BY <1>6, <3>2, <3>3, <3>4, <3>5, <4>1
        <3>9. CASE i < j
            <4>1. i \in 1..m - 1 /\ i + 1 \in 1..m /\ (i + 1 = j \/ i + 1 < j)
                BY <1>5, <3>9 DEF m
            <4> DEFINE x == M[i].end
                       y == M[i + 1].start
                       between == Span(x, y)
            <4>2. x \in Nat /\ y \in Nat /\ M[j].start \in Nat /\ M[i + 1].end \in Nat
                BY <1>6, <4>1
            <4>3. x < y
                BY <1>7, <4>1
            <4>4. y <= M[j].start
                <5>1. CASE i + 1 = j
                    BY <4>2, <5>1
                <5>2. CASE i + 1 < j
                    <6>1. M[i + 1].end < M[j].start
                        BY <1>7, <4>1, <5>2
                    <6>2. M[i + 1].start < M[i + 1].end
                        BY <1>5, <4>1 DEF m
                    <6> QED BY <4>2, <6>1, <6>2
                <5> QED BY <4>1, <5>1, <5>2
            <4>5. ~Joins(segs, x, y)
                BY <1>5, <4>1 DEF m
            <4> HIDE DEF x, y, hop
            <4>6. left.end <= x /\ y <= right.start
                BY <3>4, <3>5, <4>2, <4>4, <3>2 DEF x
            <4>7. y - x <= CoalesceGap
                BY <3>2, <3>3, <4>2, <4>6, CoalesceGapIsNat
            <4>8. between.start = x /\ between.end = y
                BY DEF Span
            <4> HIDE DEF between
            <4>9. Offsets(hop) \cap Cached(segs) = {}
                <5>1. hop.start \in Nat /\ hop.end \in Nat /\ hop.start < hop.end
                    BY <3>2, <3>3
                <5> QED BY <3>3, <5>1, UncachedRangesAreEmpty
            <4>10. Offsets(between) \subseteq Offsets(hop)
                BY <3>2, <3>3, <4>2, <4>6, <4>8 DEF Offsets
            <4>11. IsUncached(segs, between)
                <5>1. between.start \in Nat /\ between.end \in Nat /\ between.start < between.end
                    BY <4>2, <4>3, <4>8
                <5>2. Offsets(between) \cap Cached(segs) = {}
                    BY <4>9, <4>10
                <5> QED BY <5>1, <5>2, UncachedRangesAreEmpty
            <4> QED BY <4>5, <4>7, <4>11 DEF Joins, between
        <3> QED BY <3>6, <3>7, <3>8, <3>9
    <2> QED BY <2>2, <2>3 DEF D, ToBeFetched
<1>10. D \in SUBSET Nat
    BY <1>9
<1>11. ToSet(M) = Runs(D)
    <2>1. \A j \in 1..Len(M) : M[j].start < M[j].end /\ Offsets(M[j]) \subseteq D
        BY <1>5 DEF m
    <2>2. \A o \in D : \E j \in 1..Len(M) : o \in Offsets(M[j])
        BY <1>9 DEF m
    <2> QED BY <1>5, <1>10, <2>1, <2>2, CoversAreRuns
<1> QED BY <1>11 DEF M, D, ToBeFetched, RangesToFetch

(* The loops of ranges_to_fetch for any list of ranges. *)
GapLists(segs, list) == [i \in 1..Len(list) |-> ScanMissing(segs, list[i])]
SortedGaps(segs, list) ==
    LET gaps == FlattenSeq(GapLists(segs, list))
    IN  Sorted(gaps, [i \in DOMAIN gaps |-> gaps[i].start])

LEMMA ScanToFetchMerges ==
    ASSUME NEW segs, NEW list
    PROVE  ScanToFetch(segs, list) = Merged(segs, SortedGaps(segs, list))
<1> DEFINE gaps == SortedGaps(segs, list)
<1>1. SortedGaps(segs, list)
        = LET all == FlattenSeq([i \in 1..Len(list) |-> ScanMissing(segs, list[i])])
          IN  Sorted(all, [i \in DOMAIN all |-> all[i].start])
    BY Zenon DEF SortedGaps, GapLists
<1>2. ScanToFetch(segs, list) = FoldLeft(LAMBDA merged, gap : MergeStep(segs, merged, gap), << >>, SortedGaps(segs, list))
    BY DEF ScanToFetch, FoldLeft, MapThenFoldSet, SortedGaps, GapLists, MergeStep, Joins
<1> QED BY <1>2, Zenon DEF Merged

LEMMA SortedGapsAreInOrder ==
    ASSUME NEW segs, WellFormed(segs), Separated(segs),
           NEW list \in Seq(ByteSpans), \A i \in 1..Len(list) : list[i].start < list[i].end
    PROVE  GapsInOrder(segs, ToSet(list), SortedGaps(segs, list))
<1> DEFINE n == Len(list)
           lists == GapLists(segs, list)
           all == FlattenSeq(lists)
           keys == [i \in DOMAIN all |-> all[i].start]
           sorted == Sorted(all, keys)
           G == GapsOf(segs, ToSet(list))
<1>1. /\ n \in Nat /\ DOMAIN list = 1..n
      /\ \A i \in 1..n : /\ list[i] \in ByteSpans /\ list[i].start \in Nat /\ list[i].end \in Nat
                         /\ list[i].start < list[i].end
    <2>1. \A i \in 1..n : list[i] \in ByteSpans
        OBVIOUS
    <2> QED BY <2>1 DEF ByteSpans
<1>2. ToSet(list) = {list[i] : i \in 1..n} /\ ToSet(list) \subseteq ByteSpans
    BY <1>1 DEF ToSet
<1>3. \A g : g \in G <=> \E i \in 1..n : g \in Missing(segs, list[i])
    BY <1>2 DEF GapsOf
<1>4. DOMAIN lists = 1..n /\ \A i \in 1..n : lists[i] = ScanMissing(segs, list[i])
    BY DEF GapLists
<1> HIDE DEF n, lists, G
<1>5. ASSUME NEW i \in 1..n
      PROVE  /\ lists[i] \in Seq(ByteSpans)
             /\ \A g : Occurs(g, lists[i]) <=> g \in Missing(segs, list[i])
    <2> DEFINE r == list[i]
    <2>1. r.start \in Nat /\ r.end \in Nat /\ r.start < r.end
        BY <1>1
    <2> HIDE DEF r
    <2>2. /\ ScanMissing(segs, r) \in Seq(ByteSpans)
          /\ \A k \in 1..Len(ScanMissing(segs, r)) : ScanMissing(segs, r)[k] \in Missing(segs, r)
          /\ \A g \in Missing(segs, r) : \E k \in 1..Len(ScanMissing(segs, r)) : ScanMissing(segs, r)[k] = g
        BY <2>1, ScanMissingIsExact
    <2>3. \A g : Occurs(g, ScanMissing(segs, r)) <=> g \in Missing(segs, r)
        BY <2>2 DEF Occurs
    <2> QED BY <1>4, <2>2, <2>3 DEF r
<1>6. lists \in Seq(Seq(ByteSpans)) /\ Len(lists) = n
    BY <1>1, <1>4, <1>5, SeqDef DEF lists, GapLists, n
<1>7. all \in Seq(ByteSpans) /\ \A g : Occurs(g, all) <=> \E k \in 1..n : Occurs(g, lists[k])
    BY <1>6, FlattenOccurs
<1> HIDE DEF all
<1>8. \A g : Occurs(g, all) <=> g \in G
    BY <1>3, <1>5, <1>7, Zenon
<1>9. \A i \in DOMAIN all : all[i] \in ByteSpans /\ all[i].start \in Nat /\ keys[i] = all[i].start
    <2>1. \A i \in DOMAIN all : all[i] \in ByteSpans
        BY <1>7
    <2> QED BY <2>1 DEF ByteSpans
<1>10. keys \in [DOMAIN all -> Int]
    BY <1>9
<1> HIDE DEF keys
<1>11. PICK p : Sorts(p, all, keys)
    BY <1>7, <1>10, SortedOrder
<1> DEFINE c == Len(all)
<1>12. c \in Nat /\ DOMAIN all = 1..c
    BY <1>7
<1> HIDE DEF c
<1>13. /\ p \in [1..c -> 1..c] /\ sorted = [k \in 1..c |-> all[p[k]]]
       /\ \A i \in 1..c : \E k \in 1..c : p[k] = i
       /\ \A k, l \in 1..c : k < l => keys[p[k]] <= keys[p[l]]
    BY <1>11, <1>12 DEF Sorts
<1> HIDE DEF sorted
<1>14. sorted \in Seq(ByteSpans) /\ Len(sorted) = c /\ \A k \in 1..c : sorted[k] = all[p[k]]
    <2>1. \A k \in 1..c : sorted[k] = all[p[k]] /\ all[p[k]] \in ByteSpans
        BY <1>9, <1>12, <1>13
    <2>2. sorted \in [1..c -> ByteSpans]
        BY <1>13, <2>1
    <2>3. sorted \in Seq(ByteSpans)
        BY <1>12, <2>2, SeqDef
    <2> QED BY <1>12, <2>1, <2>2, <2>3
<1>15. \A k \in 1..c : sorted[k] \in G
    <2> TAKE k \in 1..c
    <2>1. p[k] \in 1..c
        BY <1>13
    <2>2. Occurs(sorted[k], all)
        BY <1>14, <2>1 DEF Occurs, c
    <2> QED BY <1>8, <2>2
<1>16. \A g \in G : \E k \in 1..c : sorted[k] = g
    <2> TAKE g \in G
    <2>1. PICK i \in 1..c : all[i] = g
        BY <1>8 DEF Occurs, c
    <2>2. PICK k \in 1..c : p[k] = i
        BY <1>13
    <2> QED BY <1>14, <2>1, <2>2
<1>17. \A k, l \in 1..c : k < l => sorted[k].start <= sorted[l].start
    <2> TAKE k, l \in 1..c
    <2> HAVE k < l
    <2>1. p[k] \in 1..c /\ p[l] \in 1..c /\ keys[p[k]] <= keys[p[l]]
        BY <1>13
    <2> QED BY <1>9, <1>12, <1>14, <2>1
<1>18. GapsInOrder(segs, ToSet(list), sorted)
    BY <1>14, <1>15, <1>16, <1>17 DEF GapsInOrder, G
<1> QED BY <1>18 DEF sorted, SortedGaps, all, lists, keys

LEMMA ScanToFetchIsExact ==
    ASSUME NEW segs, WellFormed(segs), Separated(segs),
           NEW list \in Seq(ByteSpans), \A i \in 1..Len(list) : list[i].start < list[i].end
    PROVE  ToSet(ScanToFetch(segs, list)) = RangesToFetch(segs, ToSet(list))
<1>1. GapsInOrder(segs, ToSet(list), SortedGaps(segs, list))
    BY SortedGapsAreInOrder
<1>2. ToSet(list) \subseteq ByteSpans
    BY DEF ToSet
<1>3. ToSet(Merged(segs, SortedGaps(segs, list))) = RangesToFetch(segs, ToSet(list))
    BY <1>1, <1>2, MergeIsExact
<1> QED BY <1>3, ScanToFetchMerges

-----------------------------------------------------------------------------
(* SegmentScan, any sequence of inserts, for any values of its constants.  *)

LEMMA RangesAreNat ==
    ASSUME NEW range \in Ranges
    PROVE  range.start \in Nat /\ range.end \in Nat /\ range.start < range.end
BY DEF Ranges

LEMMA RecordsInvariant == ScanSpec => []Records(segments, written)
<1>1. ASSUME ScanInit PROVE Records(segments, written)
    <2>1. DOMAIN segments = {} /\ DOMAIN written = {}
        BY <1>1 DEF ScanInit, EmptyMap
    <2> QED BY <2>1 DEF Records, WellFormed, Separated, Content
<1>2. ASSUME Records(segments, written), [ScanNext]_scanVars PROVE Records(segments, written)'
    <2>1. CASE UNCHANGED scanVars
        BY <1>2, <2>1 DEF scanVars, Records, WellFormed, Separated, Content
    <2>2. ASSUME NEW range \in Ranges, NEW stamp \in Stamps, Write(range, stamp)
          PROVE  Records(segments, written)'
        <3> DEFINE new == [end |-> range.end, at |-> [o \in Offsets(range) |-> stamp]]
        <3>1. range.start \in Nat /\ new.end \in Nat /\ range.start < new.end
            BY RangesAreNat
        <3>2. segments' = Insert(segments, range.start, new)
            BY <2>2 DEF Write
        <3>3. written' = [o \in DOMAIN written \cup range.start .. (new.end - 1) |->
                            IF o \in range.start .. (new.end - 1) THEN new.at[o] ELSE written[o]]
            BY <2>2 DEF Write, Offsets
        <3> HIDE DEF new
        <3>4. Records(segments', written')
            BY <1>2, <3>1, <3>2, <3>3, InsertRecords
        <3> QED BY <3>4 DEF Records, WellFormed, Separated, Content
    <2> QED BY <1>2, <2>1, <2>2 DEF ScanNext, scanVars
<1> QED BY <1>1, <1>2, PTL DEF ScanSpec, scanVars

(* Any inserts, overlapping or not, leave in the cache the last byte       *)
(* written at each offset, in segments that do not touch, and every lookup *)
(* finds it.                                                               *)
THEOREM CacheIsTheLastWrite == ScanSpec => []CacheIsLastWritten
<1>1. ASSUME Records(segments, written) PROVE CacheIsLastWritten
    <2>1. ASSUME NEW range \in Ranges
          PROVE  /\ HasSlice(segments, range) <=> Offsets(range) \subseteq DOMAIN written
                 /\ HasSlice(segments, range) =>
                       Slice(segments, range) = Restrict(written, Offsets(range))
                 /\ IsUncached(segments, range) <=> Offsets(range) \cap DOMAIN written = {}
        <3>1. Restrict(written, Offsets(range)) = [o \in Offsets(range) |-> written[o]]
            BY DEF Restrict
        <3>2. /\ HasSlice(segments, range) <=> Offsets(range) \subseteq DOMAIN written
              /\ HasSlice(segments, range) => Slice(segments, range) = [o \in Offsets(range) |-> written[o]]
              /\ IsUncached(segments, range) <=> Offsets(range) \cap DOMAIN written = {}
            BY <1>1, RangesAreNat, LookupsFindTheRecord
        <3> QED BY <3>1, <3>2
    <2>2. LookupsDecide
        BY <2>1 DEF LookupsDecide
    <2> QED BY <1>1, <2>2 DEF CacheIsLastWritten, Records
<1> QED BY <1>1, RecordsInvariant, PTL

(* Whatever the cache holds, the plan for two ranges fetches what is asked *)
(* for and not held, nothing that is held, and no more than short gaps     *)
(* besides.                                                                *)
THEOREM PlansWasteOnlyShortGaps == ScanSpec => []PlansAreTight
<1>1. ASSUME Records(segments, written) PROVE PlansAreTight
    <2> USE DEF PlansAreTight
    <2>1. WellFormed(segments) /\ Separated(segments) /\ Cached(segments) = DOMAIN written
        BY <1>1, RecordedOffsets DEF Records
    <2> TAKE a, b \in Ranges
    <2> DEFINE ranges == {a, b}
               plan == RangesToFetch(segments, ranges)
    <2>2. /\ a.start \in Nat /\ a.end \in Nat /\ b.start \in Nat /\ b.end \in Nat
          /\ ranges \subseteq [start : Nat, end : Nat]
        BY DEF Ranges
    <2>3. \A range \in ranges : range.end <= a.end + b.end
        BY <2>2
    <2>4. a.end + b.end \in Nat
        BY <2>2
    <2> HIDE DEF plan
    <2>5. \A range \in ranges : \A o \in Offsets(range) :
             o \in Cached(segments) \/ \E run \in plan : o \in Offsets(run)
      <3> HIDE DEF ranges
      <3> QED BY <2>1, <2>2, <2>3, <2>4, PlanCoversTheRanges DEF plan
    <2>6. /\ \A p \in plan : Offsets(p) \cap Cached(segments) = {}
          /\ \A p, q \in plan : p.end <= q.start =>
                \/ q.start - p.end > CoalesceGap
                \/ \E o \in p.end .. (q.start - 1) : o \in Cached(segments)
          /\ \A p \in plan :
                /\ \E range \in ranges : p.start \in Offsets(range)
                /\ \E range \in ranges : p.end - 1 \in Offsets(range)
      <3> HIDE DEF ranges
      <3> QED BY <2>1, <2>2, PlansWasteNothing DEF plan
    <2> DEFINE fetched == UNION {Offsets(p) : p \in plan}
               asked == Offsets(a) \cup Offsets(b)
    <2>7. asked \ DOMAIN written \subseteq fetched
        BY <2>1, <2>5
    <2>8. fetched \cap DOMAIN written = {}
        BY <2>1, <2>6
    <2>9. \A p \in plan : {p.start, p.end - 1} \subseteq asked
        BY <2>6
    <2>10. \A p, q \in plan : p.end <= q.start =>
              \/ q.start - p.end > CoalesceGap
              \/ \E o \in p.end .. (q.start - 1) : o \in DOMAIN written
        BY <2>1, <2>6
    <2>11. /\ RangesToFetch(segments, {a, b}) = plan
           /\ fetched = UNION {Offsets(p) : p \in RangesToFetch(segments, {a, b})}
           /\ asked = Offsets(a) \cup Offsets(b)
        BY DEF plan
    <2> HIDE DEF fetched, asked
    <2> QED BY <2>7, <2>8, <2>9, <2>10, <2>11
<1> QED BY <1>1, RecordsInvariant, PTL

(* The walk of missing and the merge of ranges_to_fetch compute the sets   *)
(* they are stated by, for every cache that inserts can build.             *)
THEOREM LoopsComputeTheirSets == ScanSpec => []ScansAreExact
<1>1. Records(segments, written) => ScansAreExact
    <2> SUFFICES ASSUME WellFormed(segments) /\ Separated(segments) PROVE ScansAreExact
        BY DEF Records
    <2>1. \A a \in Ranges : a \in ByteSpans /\ a.start \in Nat /\ a.end \in Nat /\ a.start < a.end
        BY RangesAreNat DEF Ranges, ByteSpans
    <2>2. ASSUME NEW a \in Ranges
          PROVE  /\ ToSet(ScanMissing(segments, a)) = Missing(segments, a)
                 /\ \A i \in 1 .. Len(ScanMissing(segments, a)) - 1 :
                       ScanMissing(segments, a)[i].end < ScanMissing(segments, a)[i + 1].start
        <3> DEFINE scan == ScanMissing(segments, a)
        <3>1. /\ scan \in Seq(ByteSpans) /\ Apart(scan)
              /\ \A i \in 1..Len(scan) : scan[i] \in Missing(segments, a)
              /\ \A g \in Missing(segments, a) : \E i \in 1..Len(scan) : scan[i] = g
            BY <2>1, ScanMissingIsExact
        <3> HIDE DEF scan
        <3>2. Len(scan) \in Nat /\ DOMAIN scan = 1..Len(scan)
            BY <3>1
        <3>3. ToSet(scan) = Missing(segments, a)
            BY <3>1, <3>2 DEF ToSet
        <3>4. \A i \in 1..Len(scan) - 1 : scan[i].end < scan[i + 1].start
            <4> TAKE i \in 1..Len(scan) - 1
            <4>1. i \in 1..Len(scan) /\ i + 1 \in 1..Len(scan) /\ i < i + 1
                BY <3>2
            <4> QED BY <3>1, <4>1 DEF Apart
        <3> QED BY <3>3, <3>4 DEF scan
    <2>3. ASSUME NEW a \in Ranges, NEW b \in Ranges
          PROVE  ToSet(ScanToFetch(segments, <<a, b>>)) = RangesToFetch(segments, {a, b})
        <3> DEFINE list == <<a, b>>
        <3>1. /\ list \in Seq(ByteSpans) /\ \A i \in 1..Len(list) : list[i].start < list[i].end
              /\ ToSet(list) = {a, b}
            BY <2>1 DEF ToSet
        <3> HIDE DEF list
        <3>2. ToSet(ScanToFetch(segments, list)) = RangesToFetch(segments, ToSet(list))
            BY <3>1, ScanToFetchIsExact
        <3> QED BY <3>1, <3>2 DEF list
    <2> QED BY <2>2, <2>3 DEF ScansAreExact
<1> QED BY <1>1, RecordsInvariant, PTL
=============================================================================
