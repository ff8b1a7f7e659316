--------------------------- MODULE SequenceFacts ----------------------------
(***************************************************************************)
(* Appending to a sequence and removing from it, where nothing is known of *)
(* its elements; folds over sequences, with the induction they need; and   *)
(* what the operators of Lists and the flattening of lists return.         *)
(***************************************************************************)
EXTENDS Integers, Sequences, SequencesExt, Lists, TLAPS, SequenceTheorems, FiniteSetTheorems,
        WellFoundedInduction

(* A sequence, of whatever its elements are. *)
IsSequence(s) == s \in Seq({s[i] : i \in DOMAIN s})

-----------------------------------------------------------------------------
LEMMA EmptyIsSequence == IsSequence(<<>>)
BY DEF IsSequence

(* A sequence over any set is one over its own elements. *)
LEMMA OfItsElements ==
    ASSUME NEW S, NEW s \in Seq(S)
    PROVE  IsSequence(s)
<1> DEFINE E == {s[i] : i \in DOMAIN s}
<1>1. Len(s) \in Nat /\ s \in [1..Len(s) -> S]
    BY SeqDef
<1>2. s \in [1..Len(s) -> E]
    BY <1>1
<1>3. s \in Seq(E)
    BY <1>1, <1>2, SeqDef
<1> QED BY <1>3 DEF IsSequence

LEMMA SingletonIsSequence ==
    ASSUME NEW e
    PROVE  IsSequence(<<e>>) /\ DOMAIN <<e>> = {1} /\ <<e>>[1] = e
<1>1. <<e>> \in Seq({e}) /\ DOMAIN <<e>> = {1} /\ <<e>>[1] = e
    BY SMT
<1>2. IsSequence(<<e>>)
    BY <1>1, OfItsElements
<1> QED BY <1>1, <1>2

(* A function with the domain of a sequence is one. *)
LEMMA SameDomainIsSequence ==
    ASSUME NEW s, IsSequence(s), NEW t, t = [i \in DOMAIN s |-> t[i]]
    PROVE  IsSequence(t)
<1> DEFINE E == {t[i] : i \in DOMAIN s}
<1>1. Len(s) \in Nat /\ DOMAIN s = 1..Len(s)
    BY DEF IsSequence
<1>2. t \in [1..Len(s) -> E]
    BY <1>1
<1>3. t \in Seq(E)
    BY <1>1, <1>2, SeqDef
<1> QED BY <1>3, OfItsElements

LEMMA AppendIsSequence ==
    ASSUME NEW s, IsSequence(s), NEW e
    PROVE  /\ IsSequence(Append(s, e))
           /\ \A i \in DOMAIN Append(s, e) : Append(s, e)[i] = e \/ \E k \in DOMAIN s : Append(s, e)[i] = s[k]
<1> DEFINE S == {s[i] : i \in DOMAIN s}
           t == Append(s, e)
<1>1. s \in Seq(S) /\ s \in Seq(S \cup {e}) /\ DOMAIN s = 1..Len(s) /\ Len(s) \in Nat
    BY DEF IsSequence
<1>2. /\ t \in Seq(S \cup {e}) /\ DOMAIN t = 1..Len(s) + 1
      /\ \A i \in DOMAIN t : t[i] = IF i = Len(s) + 1 THEN e ELSE s[i]
    BY <1>1, AppendProperties
<1>3. \A i \in DOMAIN t : t[i] = e \/ \E k \in DOMAIN s : t[i] = s[k]
    BY <1>1, <1>2
<1>4. IsSequence(t)
    BY <1>2, OfItsElements
<1> QED BY <1>3, <1>4

LEMMA AppendAtTheEnd ==
    ASSUME NEW s, IsSequence(s), NEW e
    PROVE  /\ IsSequence(Append(s, e)) /\ Len(s) \in Nat /\ DOMAIN s = 1..Len(s)
           /\ DOMAIN Append(s, e) = 1..Len(s) + 1 /\ Append(s, e)[Len(s) + 1] = e
           /\ \A k \in DOMAIN s : Append(s, e)[k] = s[k]
<1> DEFINE S == {s[i] : i \in DOMAIN s}
<1>1. s \in Seq(S \cup {e}) /\ Len(s) \in Nat /\ DOMAIN s = 1..Len(s)
    BY DEF IsSequence
<1> QED BY <1>1, AppendIsSequence, AppendProperties

LEMMA RemoveAtIsSequence ==
    ASSUME NEW s, IsSequence(s), NEW n \in DOMAIN s
    PROVE  /\ IsSequence(RemoveAt(s, n))
           /\ \A i \in DOMAIN RemoveAt(s, n) : \E k \in DOMAIN s : RemoveAt(s, n)[i] = s[k]
<1> DEFINE S == {s[i] : i \in DOMAIN s}
           before == SubSeq(s, 1, n - 1)
           after == SubSeq(s, n + 1, Len(s))
           t == before \o after
<1>1. s \in Seq(S) /\ DOMAIN s = 1..Len(s) /\ Len(s) \in Nat /\ n \in 1..Len(s)
    BY DEF IsSequence
<1>2. before \in Seq(S) /\ after \in Seq(S)
    BY <1>1, SubSeqProperties
<1>3. t \in Seq(S)
    BY <1>2, ConcatProperties
<1>4. \A i \in DOMAIN t : t[i] \in S
    BY <1>3, ElementOfSeq, SMTT(30)
<1>5. IsSequence(t)
    BY <1>3, OfItsElements
<1> QED BY <1>4, <1>5 DEF RemoveAt

LEMMA AppendKeepsThePrefix ==
    ASSUME NEW s, IsSequence(s), NEW e
    PROVE  IsPrefix(s, s) /\ IsPrefix(s, Append(s, e)) /\ Len(Append(s, e)) = Len(s) + 1
<1> DEFINE S == {s[i] : i \in DOMAIN s} \cup {e}
           t == Append(s, e)
<1>1. s \in Seq(S) /\ Len(s) \in Nat /\ DOMAIN s = 1..Len(s)
    BY DEF IsSequence
<1>2. t \in Seq(S) /\ Len(t) = Len(s) + 1 /\ \A i \in 1..Len(s) : t[i] = s[i]
    BY <1>1, AppendProperties
<1>3. \A i \in 1..Len(s) : t[i] \in S /\ s[i] \in S
    BY <1>1, <1>2, ElementOfSeq
<1>4. /\ SubSeq(t, 1, Len(s)) \in Seq(S) /\ Len(SubSeq(t, 1, Len(s))) = Len(s)
      /\ \A i \in 1..Len(s) : SubSeq(t, 1, Len(s))[i] = t[i]
    BY <1>1, <1>3, SubSeqProperties
<1>5. SubSeq(s, 1, Len(s)) = s
    BY <1>1, SubSeqFull
<1>6. SubSeq(t, 1, Len(s)) = s
    BY <1>1, <1>2, <1>4, SeqEqual
<1> QED BY <1>1, <1>2, <1>5, <1>6 DEF IsPrefix

(* Removing from a typed sequence. *)
LEMMA RemoveAtOf ==
    ASSUME NEW S, NEW s \in Seq(S), NEW n \in DOMAIN s
    PROVE  /\ RemoveAt(s, n) \in Seq(S)
           /\ \A i \in DOMAIN RemoveAt(s, n) : \E k \in DOMAIN s : RemoveAt(s, n)[i] = s[k]
<1>1. IsSequence(s)
    BY OfItsElements
<1>2. IsSequence(RemoveAt(s, n)) /\ \A i \in DOMAIN RemoveAt(s, n) : \E k \in DOMAIN s : RemoveAt(s, n)[i] = s[k]
    BY <1>1, RemoveAtIsSequence
<1> DEFINE t == RemoveAt(s, n)
<1>3. DOMAIN t = 1..Len(t) /\ Len(t) \in Nat /\ t = [i \in DOMAIN t |-> t[i]]
    BY <1>2 DEF IsSequence
<1>4. \A k \in DOMAIN s : s[k] \in S
    OBVIOUS
<1>5. \A i \in DOMAIN t : t[i] \in S
    BY <1>2, <1>4
<1>6. t \in [1..Len(t) -> S]
    BY <1>3, <1>5
<1>7. t \in Seq(S)
    BY <1>3, <1>6, SeqDef
<1> QED BY <1>2, <1>7

(* A sequence cut after one of its elements and continued. *)
LEMMA Continued ==
    ASSUME NEW S, NEW s \in Seq(S), NEW p \in DOMAIN s, NEW e \in S
    PROVE  /\ Append(SubSeq(s, 1, p), e) \in Seq(S)
           /\ Len(Append(SubSeq(s, 1, p), e)) = p + 1
           /\ p + 1 \in DOMAIN Append(SubSeq(s, 1, p), e)
           /\ Append(SubSeq(s, 1, p), e)[p + 1] = e
           /\ SubSeq(Append(SubSeq(s, 1, p), e), 1, p) = SubSeq(s, 1, p)
<1> DEFINE c == SubSeq(s, 1, p)
           t == Append(c, e)
<1>1. DOMAIN s = 1..Len(s) /\ Len(s) \in Nat /\ p \in 1..Len(s)
    OBVIOUS
<1>2. c \in Seq(S) /\ Len(c) = p
    BY <1>1, SubSeqProperties
<1>3. t \in Seq(S) /\ Len(t) = p + 1 /\ t[p + 1] = e /\ \A k \in 1..p : t[k] = c[k]
    BY <1>2, AppendProperties
<1>4. SubSeq(t, 1, p) = c
  <2>1. SubSeq(t, 1, p) \in Seq(S) /\ Len(SubSeq(t, 1, p)) = p /\ \A k \in 1..p : SubSeq(t, 1, p)[k] = t[k]
      BY <1>1, <1>3, SubSeqProperties
  <2> HIDE DEF t, c
  <2> QED BY <1>2, <1>3, <2>1, SeqEqual
<1>5. p + 1 \in DOMAIN t
    BY <1>1, <1>3
<1> QED BY <1>3, <1>4, <1>5

(* A sequence with one element exchanged. *)
LEMMA Exchanged ==
    ASSUME NEW S, NEW s \in Seq(S), NEW p \in DOMAIN s, NEW e \in S
    PROVE  /\ [s EXCEPT ![p] = e] \in Seq(S) /\ DOMAIN [s EXCEPT ![p] = e] = DOMAIN s
           /\ Len([s EXCEPT ![p] = e]) = Len(s) /\ [s EXCEPT ![p] = e][p] = e
           /\ \A k \in DOMAIN s \ {p} : [s EXCEPT ![p] = e][k] = s[k]
<1> DEFINE t == [s EXCEPT ![p] = e]
<1>1. DOMAIN s = 1..Len(s) /\ Len(s) \in Nat
    OBVIOUS
<1>2. t \in [1..Len(s) -> S]
    BY <1>1, SeqDef
<1>3. t \in Seq(S) /\ DOMAIN t = 1..Len(s)
    BY <1>1, <1>2, SeqDef
<1>4. Len(t) = Len(s)
    BY <1>1, <1>3
<1> QED BY <1>1, <1>3, <1>4

-----------------------------------------------------------------------------
(* Numbers: minima, and induction over a set of numbers.                   *)

LEMMA NatSetHasLeast ==
    ASSUME NEW S \in SUBSET Nat, S # {}
    PROVE  \E m \in S : \A x \in S : m <= x
<1> DEFINE Less == {pair \in Nat \X Nat : pair[1] < pair[2]}
<1>1. IsWellFoundedOn(Less, Nat)
    BY NatLessThanWellFounded DEF OpToRel
<1> HIDE DEF Less
<1>2. \E m \in S : \A x \in S : <<x, m>> \notin Less
    BY <1>1, WFMin
<1>3. \A x, y \in Nat : <<x, y>> \notin Less => y <= x
    BY SMT DEF Less
<1> QED BY <1>2, <1>3

LEMMA MinIsLeast ==
    ASSUME NEW S \in SUBSET Nat, S # {}
    PROVE  Min(S) \in S /\ \A x \in S : Min(S) <= x
BY NatSetHasLeast DEF Min

(* Induction up to n, over the set of the numbers that have the property. *)
LEMMA InductionUpTo ==
    ASSUME NEW n \in Nat, NEW T, 0 \in T,
           \A k \in 0..n - 1 : k \in T => k + 1 \in T
    PROVE  \A k \in 0..n : k \in T
<1> DEFINE Bad == {k \in 0..n : k \notin T}
<1> SUFFICES Bad = {}
    OBVIOUS
<1> SUFFICES ASSUME Bad # {} PROVE FALSE
    OBVIOUS
<1>0. Bad \in SUBSET Nat
    OBVIOUS
<1>1. PICK m \in Bad : \A x \in Bad : m <= x
    <2> HIDE DEF Bad
    <2> QED BY <1>0, NatSetHasLeast
<1>2. m # 0 /\ m \in 1..n /\ m - 1 \in 0..n - 1
    OBVIOUS
<1>3. m - 1 \notin Bad
    BY <1>1, <1>2
<1>4. m - 1 \in T
    BY <1>2, <1>3
<1>5. (m - 1) + 1 \in T
    BY <1>2, <1>4
<1> QED BY <1>2, <1>5

LEMMA MaxOfIndices ==
    ASSUME NEW n \in Nat, NEW t \in SUBSET (1..n), t # {}
    PROVE  Max(t) \in t /\ \A x \in t : x <= Max(t)
<1> DEFINE T == {d \in Nat : \E x \in t : d = n - x}
<1>1. T \in SUBSET Nat /\ T # {}
    <2>1. PICK x \in t : TRUE
        OBVIOUS
    <2>2. n - x \in T
        BY <2>1
    <2> QED BY <2>2
<1>2. PICK d \in T : \A e \in T : d <= e
    BY <1>1, NatSetHasLeast
<1>3. PICK x \in t : d = n - x
    BY <1>2
<1>4. \A y \in t : n - y \in T
    BY SMT
<1>5. \A y \in t : y <= x
    BY <1>2, <1>3, <1>4, SMT
<1> QED BY <1>5 DEF Max

LEMMA MaxIs ==
    ASSUME NEW n \in Nat, NEW t \in SUBSET (1..n), NEW m \in t, \A x \in t : x <= m
    PROVE  Max(t) = m
<1>1. Max(t) \in t /\ \A x \in t : x <= Max(t)
    BY MaxOfIndices
<1>2. Max(t) \in 1..n /\ m \in 1..n /\ Max(t) <= m /\ m <= Max(t)
    BY <1>1
<1> QED BY <1>2

-----------------------------------------------------------------------------
(* Folds: a fold over 1..n is computed by a function on the sets of        *)
(* indices, which takes the last index off.  There is one, whatever the    *)
(* step is, as long as it stays in a set V; so the one that is chosen for  *)
(* a fold is one, and its values on 1..0, 1..1, ... are the steps.         *)
FoldsBy(G, n, V, base, step) ==
    /\ G \in [SUBSET (1..n) -> V]
    /\ \A t \in SUBSET (1..n) : G[t] = IF t = {} THEN base ELSE step[<<G[t \ {Max(t)}], Max(t)>>]

LEMMA FoldRuns ==
    ASSUME NEW n \in Nat, NEW V, NEW base \in V, NEW step \in [V \X (1..n) -> V]
    PROVE  \E G : FoldsBy(G, n, V, base, step)
<1> DEFINE T == {k \in 0..n : \E G : FoldsBy(G, k, V, base, step)}
<1>1. 0 \in T
    <2> DEFINE G == [t \in SUBSET (1..0) |-> base]
    <2>1. FoldsBy(G, 0, V, base, step)
        BY DEF FoldsBy
    <2> QED BY <2>1
<1>2. ASSUME NEW k \in 0..n - 1, k \in T PROVE k + 1 \in T
    <2>1. PICK G : FoldsBy(G, k, V, base, step)
        BY <1>2
    <2> DEFINE H == [t \in SUBSET (1..k + 1) |->
                        IF k + 1 \in t THEN step[<<G[t \ {k + 1}], k + 1>>] ELSE G[t]]
    <2>2. \A t \in SUBSET (1..k + 1) : t \ {k + 1} \in SUBSET (1..k)
        OBVIOUS
    <2>3. \A t \in SUBSET (1..k + 1) : k + 1 \notin t => t \in SUBSET (1..k)
        OBVIOUS
    <2>4. \A t \in SUBSET (1..k) : G[t] \in V /\ H[t] = G[t]
        <3>1. \A t \in SUBSET (1..k) : t \in SUBSET (1..k + 1) /\ k + 1 \notin t
            OBVIOUS
        <3> QED BY <3>1, <2>1 DEF FoldsBy
    <2>5. H \in [SUBSET (1..k + 1) -> V]
        <3> SUFFICES ASSUME NEW t \in SUBSET (1..k + 1) PROVE H[t] \in V
            OBVIOUS
        <3>1. CASE k + 1 \in t
            <4>1. G[t \ {k + 1}] \in V /\ k + 1 \in 1..n
                <5> HIDE DEF H
                <5> QED BY <2>2, <2>4
            <4> QED BY <3>1, <4>1
        <3>2. CASE k + 1 \notin t
            BY <3>2, <2>3, <2>4
        <3> QED BY <3>1, <3>2
    <2>6. ASSUME NEW t \in SUBSET (1..k + 1)
          PROVE  H[t] = IF t = {} THEN base ELSE step[<<H[t \ {Max(t)}], Max(t)>>]
        <3>1. CASE k + 1 \in t
            <4>1. \A x \in t : x <= k + 1
                OBVIOUS
            <4>2. Max(t) = k + 1
                BY ONLY <4>1, <3>1, MaxIs, k + 1 \in Nat, t \in SUBSET (1..k + 1)
            <4>3. H[t \ {k + 1}] = G[t \ {k + 1}] /\ t # {}
                BY <2>2, <2>4, <3>1
            <4> QED BY <3>1, <4>2, <4>3
        <3>2. CASE k + 1 \notin t
            <4>1. t \in SUBSET (1..k)
                BY <3>2, <2>3
            <4>2. H[t] = G[t]
                BY <4>1, <2>4
            <4>3. CASE t = {}
                BY <4>1, <4>2, <4>3, <2>1 DEF FoldsBy
            <4>4. CASE t # {}
                <5>1. Max(t) \in t /\ t \ {Max(t)} \in SUBSET (1..k)
                    <6>1. k \in Nat
                        OBVIOUS
                    <6>2. Max(t) \in t
                        BY ONLY <6>1, <4>1, <4>4, MaxOfIndices
                    <6> QED BY <4>1, <6>2
                <5> QED BY <4>1, <4>2, <4>4, <5>1, <2>1, <2>4 DEF FoldsBy
            <4> QED BY <4>3, <4>4
        <3> QED BY <3>1, <3>2
    <2>7. FoldsBy(H, k + 1, V, base, step)
        <3> HIDE DEF H
        <3> QED BY <2>5, <2>6 DEF FoldsBy
    <2> QED BY <2>7
<1>3. n \in T
    <2> HIDE DEF T
    <2> QED BY <1>1, <1>2, InductionUpTo
<1> QED BY <1>3

(* What any such function is on the initial segments. *)
LEMMA SegmentIsNext ==
    ASSUME NEW n \in Nat, NEW k \in 1..n
    PROVE  1..k \in SUBSET (1..n) /\ 1..k # {} /\ Max(1..k) = k /\ (1..k) \ {k} = 1..(k - 1)
<1>1. 1..k \in SUBSET (1..n) /\ 1..k # {} /\ (1..k) \ {k} = 1..(k - 1)
    OBVIOUS
<1>2. k \in 1..k /\ \A x \in 1..k : x <= k
    OBVIOUS
<1>3. Max(1..k) = k
    <2> DEFINE t == 1..k
    <2>1. t \in SUBSET (1..n) /\ k \in t /\ \A x \in t : x <= k
        BY <1>1, <1>2
    <2> HIDE DEF t
    <2>2. Max(t) = k
        BY <2>1, MaxIs
    <2> QED BY <2>2 DEF t
<1> QED BY <1>1, <1>3
-----------------------------------------------------------------------------
(* A sum, step by step; and every list of steps ends in the sum.           *)
LEMMA TotalBySteps ==
    ASSUME NEW s \in Seq(Int)
    PROVE  \E h \in [0..Len(s) -> Int] :
              /\ h[0] = 0 /\ Total(s) = h[Len(s)]
              /\ \A k \in 1..Len(s) : h[k] = h[k - 1] + s[k]
<1> DEFINE n == Len(s)
           step == [p \in Int \X (1..n) |-> p[1] + s[p[2]]]
           iter == CHOOSE iter : iter = [t \in SUBSET DOMAIN s |->
                                           IF t = {} THEN 0 ELSE iter[t \ {Max(t)}] + s[Max(t)]]
           h == [k \in 0..n |-> iter[1..k]]
<1>1. n \in Nat /\ DOMAIN s = 1..n /\ step \in [Int \X (1..n) -> Int]
    OBVIOUS
<1>2. PICK G : FoldsBy(G, n, Int, 0, step)
    <2> HIDE DEF step, n, iter, h
    <2>1. 0 \in Int
        OBVIOUS
    <2> QED BY <1>1, <2>1, FoldRuns, Zenon
<1>3. G = [t \in SUBSET DOMAIN s |-> IF t = {} THEN 0 ELSE G[t \ {Max(t)}] + s[Max(t)]]
    <2>1. ASSUME NEW t \in SUBSET (1..n), t # {} PROVE G[t] = G[t \ {Max(t)}] + s[Max(t)]
        <3>1. Max(t) \in 1..n /\ t \ {Max(t)} \in SUBSET (1..n)
            BY <1>1, <2>1, MaxOfIndices
        <3> QED BY <1>1, <1>2, <2>1, <3>1 DEF FoldsBy
    <2> QED BY <1>1, <1>2, <2>1 DEF FoldsBy
<1>4. iter = [t \in SUBSET DOMAIN s |-> IF t = {} THEN 0 ELSE iter[t \ {Max(t)}] + s[Max(t)]]
    BY <1>3, Zenon
<1>5. Total(s) = iter[DOMAIN s]
    BY DEF Total, FoldLeft, MapThenFoldSet
<1> HIDE DEF iter
<1>6. h[0] = 0 /\ h[n] = Total(s)
    <2>1. 1..0 = {}
        OBVIOUS
    <2> QED BY <1>1, <1>4, <1>5, <2>1
<1>7. ASSUME NEW k \in 1..n PROVE h[k] = h[k - 1] + s[k]
    <2>1. 1..k \in SUBSET (1..n) /\ 1..k # {} /\ Max(1..k) = k /\ (1..k) \ {k} = 1..(k - 1)
        <3> HIDE DEF n, h
        <3> QED BY <1>1, SegmentIsNext
    <2>2. iter[1..k] = iter[1..(k - 1)] + s[k]
        BY <1>1, <1>4, <2>1
    <2> QED BY <2>2
<1>8. \A k \in 0..n : h[k] \in Int
    <2> DEFINE T == {k \in 0..n : h[k] \in Int}
    <2>1. 0 \in T
        BY <1>1, <1>6
    <2>2. \A k \in 0..n - 1 : k \in T => k + 1 \in T
        <3> SUFFICES ASSUME NEW k \in 0..n - 1, k \in T PROVE k + 1 \in T
            OBVIOUS
        <3> HIDE DEF h
        <3>1. h[k + 1] = h[(k + 1) - 1] + s[k + 1] /\ (k + 1) - 1 = k /\ s[k + 1] \in Int
            BY <1>1, <1>7
        <3> QED BY <1>1, <3>1
    <2> HIDE DEF T
    <2>3. \A k \in 0..n : k \in T
        BY <1>1, <2>1, <2>2, InductionUpTo
    <2> QED BY <2>3 DEF T
<1> HIDE DEF h
<1>9. h \in [0..n -> Int]
    BY <1>8 DEF h
<1> QED BY <1>6, <1>7, <1>9

LEMMA TotalIs ==
    ASSUME NEW s \in Seq(Int), NEW g, g[0] = 0,
           \A k \in 1..Len(s) : g[k] = g[k - 1] + s[k]
    PROVE  Total(s) = g[Len(s)]
<1>1. PICK h \in [0..Len(s) -> Int] : /\ h[0] = 0 /\ Total(s) = h[Len(s)]
                                      /\ \A k \in 1..Len(s) : h[k] = h[k - 1] + s[k]
    BY TotalBySteps
<1> DEFINE n == Len(s)
           T == {k \in 0..n : g[k] = h[k]}
<1>2. n \in Nat /\ 0 \in T
    BY <1>1
<1>3. \A k \in 0..n - 1 : k \in T => k + 1 \in T
    <2> SUFFICES ASSUME NEW k \in 0..n - 1, k \in T PROVE k + 1 \in T
        OBVIOUS
    <2>1. k + 1 \in 1..n /\ (k + 1) - 1 = k
        OBVIOUS
    <2> QED BY <1>1, <2>1
<1>4. \A k \in 0..n : k \in T
    <2> HIDE DEF T, n
    <2> QED BY <1>2, <1>3, InductionUpTo
<1> QED BY <1>1, <1>2, <1>4

-----------------------------------------------------------------------------
(* Lists of lists, one after the other. *)
LEMMA FlattenBySteps ==
    ASSUME NEW S, NEW ss \in Seq(Seq(S))
    PROVE  \E h \in [0..Len(ss) -> Seq(S)] :
              /\ h[0] = <<>> /\ FlattenSeq(ss) = h[Len(ss)]
              /\ \A k \in 1..Len(ss) : h[k] = h[k - 1] \o ss[k]
<1> DEFINE n == Len(ss)
           V == Seq(S)
           step == [p \in V \X (1..n) |-> p[1] \o ss[p[2]]]
           flatten == CHOOSE flatten : flatten = [i \in 1..Len(ss) |-> IF i = 1 THEN ss[i] ELSE flatten[i - 1] \o ss[i]]
<1>1. n \in Nat /\ DOMAIN ss = 1..n /\ (\A k \in 1..n : ss[k] \in V) /\ <<>> \in V
    OBVIOUS
<1>2. step \in [V \X (1..n) -> V]
    <2> SUFFICES ASSUME NEW p \in V \X (1..n) PROVE p[1] \o ss[p[2]] \in V
        OBVIOUS
    <2>1. p[1] \in V /\ ss[p[2]] \in V
        BY <1>1
    <2> QED BY <2>1, ConcatProperties
<1>3. PICK G : FoldsBy(G, n, V, <<>>, step)
    <2> HIDE DEF step, n, V, flatten
    <2> QED BY <1>1, <1>2, FoldRuns, Zenon
<1> DEFINE h == [k \in 0..n |-> G[1..k]]
<1>4. h \in [0..n -> V] /\ h[0] = <<>>
    <2>1. 1..0 = {} /\ \A k \in 0..n : 1..k \in SUBSET (1..n)
        BY <1>1
    <2>2. G[{}] = <<>>
        BY <1>3 DEF FoldsBy
    <2> HIDE DEF V, step
    <2>3. \A k \in 0..n : G[1..k] \in V
        BY <1>3, <2>1 DEF FoldsBy
    <2>4. 0 \in 0..n
        BY <1>1
    <2> QED BY <2>1, <2>2, <2>3, <2>4
<1>5. ASSUME NEW k \in 1..n PROVE h[k] = h[k - 1] \o ss[k]
    <2>1. 1..k \in SUBSET (1..n) /\ 1..k # {} /\ Max(1..k) = k /\ (1..k) \ {k} = 1..(k - 1)
        <3> HIDE DEF n, h
        <3> QED BY <1>1, SegmentIsNext
    <2>2. k - 1 \in 0..n /\ k \in 0..n
        BY <1>1
    <2>3. h[k] = step[<<h[k - 1], k>>]
        <3> HIDE DEF V, step, n
        <3> QED BY <1>1, <1>3, <2>1, <2>2 DEF FoldsBy
    <2>4. h[k - 1] \in V
        <3> HIDE DEF h, V
        <3> QED BY <1>4, <2>2
    <2>5. step[<<h[k - 1], k>>] = h[k - 1] \o ss[k]
        <3> HIDE DEF h, V
        <3> QED BY <2>4
    <2> QED BY <2>3, <2>5
<1>6. FlattenSeq(ss) = h[n]
    <2>1. CASE n = 0
        <3>1. ss = <<>>
            BY <2>1
        <3> HIDE DEF h
        <3> QED BY <2>1, <3>1, <1>4 DEF FlattenSeq
    <2>2. CASE n # 0
        <3> DEFINE H == [i \in 1..Len(ss) |-> h[i]]
        <3>1. ASSUME NEW i \in 1..n PROVE H[i] = IF i = 1 THEN ss[i] ELSE H[i - 1] \o ss[i]
            <4> HIDE DEF h
            <4>1. h[i] = h[i - 1] \o ss[i] /\ ss[i] \in V
                BY <1>1, <1>5
            <4>2. CASE i = 1
                <5>0. i - 1 = 0
                    BY <4>2
                <5>1. h[i] = <<>> \o ss[i]
                    BY <4>1, <5>0, <1>4, Zenon
                <5> QED BY <4>1, <4>2, <5>1, ConcatEmptySeq
            <4>3. CASE i # 1
                <5>1. i - 1 \in 1..n
                    BY <4>3, <1>1
                <5> QED BY <4>1, <4>3, <5>1
            <4> QED BY <4>2, <4>3
        <3> HIDE DEF h
        <3>2. H = [i \in 1..Len(ss) |-> IF i = 1 THEN ss[i] ELSE H[i - 1] \o ss[i]]
            <4>1. \A i \in 1..Len(ss) : H[i] = IF i = 1 THEN ss[i] ELSE H[i - 1] \o ss[i]
                BY <3>1
            <4>2. H = [i \in 1..Len(ss) |-> H[i]]
                OBVIOUS
            <4> HIDE DEF H
            <4> QED BY <4>1, <4>2, Zenon
        <3> HIDE DEF H
        <3>3. flatten = [i \in 1..Len(ss) |-> IF i = 1 THEN ss[i] ELSE flatten[i - 1] \o ss[i]]
            BY <3>2, Zenon
        <3>4. FlattenSeq(ss) = flatten[Len(ss)]
            BY <2>2 DEF FlattenSeq
        <3> HIDE DEF flatten
        <3> DEFINE T == {k \in 0..n : k = 0 \/ flatten[k] = h[k]}
        <3>5. 0 \in T
            BY <1>1
        <3>6. \A k \in 0..n - 1 : k \in T => k + 1 \in T
            <4> SUFFICES ASSUME NEW k \in 0..n - 1, k \in T PROVE k + 1 \in T
                OBVIOUS
            <4>0. k \in Nat /\ k \in 0..n /\ (k = 0 \/ flatten[k] = h[k])
                BY <1>1
            <4>1. k + 1 \in 1..n /\ (k + 1) - 1 = k /\ k + 1 \in 0..n
                BY <1>1
            <4>2. h[k + 1] = h[k] \o ss[k + 1] /\ ss[k + 1] \in V
                BY <1>1, <1>5, <4>1
            <4>3. CASE k = 0
                <5>1. h[k + 1] = ss[k + 1]
                    BY <1>4, <4>2, <4>3, ConcatEmptySeq
                <5>2. flatten[k + 1] = ss[k + 1]
                    BY <3>3, <4>1, <4>3
                <5> QED BY <4>1, <5>1, <5>2
            <4>4. CASE k # 0
                <5>0. k + 1 # 1
                    BY <4>0, <4>4
                <5>1. flatten[k + 1] = flatten[(k + 1) - 1] \o ss[k + 1]
                    BY <3>3, <4>1, <5>0, Zenon
                <5>2. flatten[k + 1] = h[k + 1]
                    BY <4>0, <4>1, <4>2, <4>4, <5>1, Zenon
                <5> QED BY <4>1, <5>2
            <4> QED BY <4>3, <4>4
        <3>7. \A k \in 0..n : k \in T
            <4> HIDE DEF T, n
            <4> QED BY <1>1, <3>5, <3>6, InductionUpTo
        <3>8. flatten[n] = h[n]
            BY <2>2, <3>7, <1>1
        <3> QED BY <3>4, <3>8
    <2> QED BY <2>1, <2>2
<1> HIDE DEF h
<1> QED BY <1>4, <1>5, <1>6

LEMMA FlattenIs ==
    ASSUME NEW S, NEW ss \in Seq(Seq(S)), NEW g, g[0] = <<>>,
           \A k \in 1..Len(ss) : g[k] = g[k - 1] \o ss[k]
    PROVE  FlattenSeq(ss) = g[Len(ss)] /\ FlattenSeq(ss) \in Seq(S)
<1> DEFINE n == Len(ss)
<1>1. PICK h \in [0..n -> Seq(S)] : /\ h[0] = <<>> /\ FlattenSeq(ss) = h[n]
                                    /\ \A k \in 1..n : h[k] = h[k - 1] \o ss[k]
    BY FlattenBySteps
<1> DEFINE T == {k \in 0..n : g[k] = h[k]}
<1>2. n \in Nat /\ 0 \in T
    BY <1>1
<1>3. \A k \in 0..n - 1 : k \in T => k + 1 \in T
    <2> SUFFICES ASSUME NEW k \in 0..n - 1, k \in T PROVE k + 1 \in T
        OBVIOUS
    <2>1. k + 1 \in 1..n /\ (k + 1) - 1 = k /\ k \in 0..n /\ k + 1 \in 0..n /\ g[k] = h[k]
        BY <1>2
    <2>2. g[k + 1] = h[k + 1]
        BY <1>1, <2>1, Zenon
    <2> QED BY <2>1, <2>2
<1>4. \A k \in 0..n : k \in T
    <2> HIDE DEF T, n
    <2> QED BY <1>2, <1>3, InductionUpTo
<1> QED BY <1>1, <1>2, <1>4

(* Concatenation is associative. *)
Joined(x, y) == x \o y

LEMMA Associative ==
    ASSUME NEW S, NEW x \in Seq(S), NEW y \in Seq(S), NEW z \in Seq(S)
    PROVE  Joined(Joined(x, y), z) = Joined(x, Joined(y, z))
<1> DEFINE l == (x \o y) \o z
           r == x \o (y \o z)
<1>1. x \o y \in Seq(S) /\ y \o z \in Seq(S) /\ Len(x \o y) = Len(x) + Len(y) /\ Len(y \o z) = Len(y) + Len(z)
    BY ConcatProperties
<1>2. l \in Seq(S) /\ r \in Seq(S) /\ Len(l) = Len(x) + Len(y) + Len(z) /\ Len(r) = Len(l)
    BY <1>1, ConcatProperties
<1>3. \A i \in 1..Len(l) : l[i] = r[i]
    BY <1>1, <1>2, ConcatProperties
<1> HIDE DEF l, r
<1>4. l = r
    BY <1>2, <1>3, SeqEqual
<1> QED BY <1>4 DEF l, r, Joined

LEMMA FlattenConcat ==
    ASSUME NEW S, NEW a \in Seq(Seq(S)), NEW b \in Seq(Seq(S))
    PROVE  FlattenSeq(a \o b) = FlattenSeq(a) \o FlattenSeq(b)
<1> DEFINE n == Len(a)
           m == Len(b)
           c == a \o b
<1>1. PICK h \in [0..n -> Seq(S)] : /\ h[0] = <<>> /\ FlattenSeq(a) = h[n]
                                    /\ \A k \in 1..n : h[k] = h[k - 1] \o a[k]
    BY FlattenBySteps
<1>2. PICK j \in [0..m -> Seq(S)] : /\ j[0] = <<>> /\ FlattenSeq(b) = j[m]
                                    /\ \A k \in 1..m : j[k] = j[k - 1] \o b[k]
    BY FlattenBySteps
<1>3. /\ n \in Nat /\ m \in Nat /\ c \in Seq(Seq(S)) /\ Len(c) = n + m
      /\ \A i \in 1..n + m : c[i] = IF i <= n THEN a[i] ELSE b[i - n]
    BY ConcatProperties
<1>4. \A k \in 1..m : b[k] \in Seq(S)
    OBVIOUS
<1> HIDE DEF c, n, m
<1>5. PICK f \in [0..n + m -> Seq(S)] : /\ f[0] = <<>> /\ FlattenSeq(c) = f[n + m]
                                        /\ \A k \in 1..n + m : f[k] = f[k - 1] \o c[k]
    <2>1. \E f \in [0..Len(c) -> Seq(S)] : /\ f[0] = <<>> /\ FlattenSeq(c) = f[Len(c)]
                                           /\ \A k \in 1..Len(c) : f[k] = f[k - 1] \o c[k]
        BY <1>3, FlattenBySteps
    <2>2. Len(c) = n + m
        BY <1>3
    <2> QED BY <2>1, <2>2, Zenon
<1>6. f[n] = h[n]
    <2> DEFINE T == {k \in 0..n : f[k] = h[k]}
    <2>1. 0 \in T
        BY <1>1, <1>3, <1>5
    <2>2. \A k \in 0..n - 1 : k \in T => k + 1 \in T
        <3> SUFFICES ASSUME NEW k \in 0..n - 1, k \in T PROVE k + 1 \in T
            OBVIOUS
        <3>1. k + 1 \in 1..n /\ k + 1 \in 1..n + m /\ (k + 1) - 1 = k /\ k + 1 \in 0..n /\ f[k] = h[k]
            BY <1>3
        <3>2. c[k + 1] = a[k + 1]
            <4>1. k + 1 <= n
                BY <1>3
            <4> QED BY <1>3, <3>1, <4>1
        <3>3. f[k + 1] = h[k + 1]
            BY <1>1, <1>5, <3>1, <3>2, Zenon
        <3> QED BY <3>1, <3>3
    <2>3. \A k \in 0..n : k \in T
        <3> HIDE DEF T
        <3> QED BY <1>3, <2>1, <2>2, InductionUpTo
    <2>4. n \in 0..n
        BY <1>3
    <2> QED BY <2>3, <2>4
<1>7. h[n] \in Seq(S)
    BY <1>1, <1>3
<1>8. f[n + m] = h[n] \o j[m]
    <2> DEFINE T == {k \in 0..m : f[n + k] = h[n] \o j[k]}
    <2>1. 0 \in T
        <3>1. n + 0 = n /\ 0 \in 0..m
            BY <1>3
        <3>2. h[n] \o <<>> = h[n]
            BY <1>7, ConcatEmptySeq
        <3>3. f[n + 0] = h[n] \o j[0]
            BY <1>2, <1>6, <3>1, <3>2, Zenon
        <3> QED BY <3>1, <3>3
    <2>2. \A k \in 0..m - 1 : k \in T => k + 1 \in T
        <3> SUFFICES ASSUME NEW k \in 0..m - 1, k \in T PROVE k + 1 \in T
            OBVIOUS
        <3>0. f[n + k] = h[n] \o j[k]
            OBVIOUS
        <3>1. /\ k \in 0..m /\ k + 1 \in 1..m /\ n + (k + 1) \in 1..n + m /\ (k + 1) - 1 = k /\ k + 1 \in 0..m
              /\ (n + (k + 1)) - 1 = n + k
            <4> HIDE DEF T
            <4> QED BY <1>3
        <3>2. c[n + (k + 1)] = b[k + 1]
            <4>1. ~(n + (k + 1) <= n) /\ (n + (k + 1)) - n = k + 1
                BY <1>3
            <4> QED BY <1>3, <3>1, <4>1
        <3>3. f[n + (k + 1)] = (h[n] \o j[k]) \o b[k + 1]
            BY <1>5, <3>0, <3>1, <3>2, Zenon
        <3>4. j[k + 1] = j[k] \o b[k + 1]
            BY <1>2, <3>1, Zenon
        <3>5. j[k] \in Seq(S) /\ b[k + 1] \in Seq(S)
            BY <1>2, <1>4, <3>1
        <3>6. (h[n] \o j[k]) \o b[k + 1] = h[n] \o (j[k] \o b[k + 1])
            <4> DEFINE x == h[n]
                       y == j[k]
                       z == b[k + 1]
            <4>1. x \in Seq(S) /\ y \in Seq(S) /\ z \in Seq(S)
                BY <1>7, <3>5
            <4> HIDE DEF T, x, y, z
            <4>2. Joined(Joined(x, y), z) = Joined(x, Joined(y, z))
                BY ONLY <4>1, Associative
            <4> QED BY <4>2 DEF x, y, z, Joined
        <3>7. f[n + (k + 1)] = h[n] \o j[k + 1]
            BY <3>3, <3>4, <3>6, Zenon
        <3> QED BY <3>1, <3>7
    <2>3. \A k \in 0..m : k \in T
        <3> HIDE DEF T
        <3> QED BY <1>3, <2>1, <2>2, InductionUpTo
    <2>4. m \in 0..m
        BY <1>3
    <2> QED BY <2>3, <2>4
<1> QED BY <1>1, <1>2, <1>5, <1>8 DEF c

(* Flattening twice is flattening each, and then all. *)
LEMMA FlattenNested ==
    ASSUME NEW S, NEW sss \in Seq(Seq(Seq(S)))
    PROVE  FlattenSeq(FlattenSeq(sss)) = FlattenSeq([i \in DOMAIN sss |-> FlattenSeq(sss[i])])
<1> DEFINE n == Len(sss)
           each == [i \in DOMAIN sss |-> FlattenSeq(sss[i])]
<1>1. PICK h \in [0..n -> Seq(Seq(S))] : /\ h[0] = <<>> /\ FlattenSeq(sss) = h[n]
                                         /\ \A k \in 1..n : h[k] = h[k - 1] \o sss[k]
    BY FlattenBySteps
<1>2. n \in Nat /\ DOMAIN sss = 1..n /\ \A k \in 1..n : sss[k] \in Seq(Seq(S))
    OBVIOUS
<1>3. \A k \in 1..n : each[k] \in Seq(S)
    <2> SUFFICES ASSUME NEW k \in 1..n PROVE each[k] \in Seq(S)
        OBVIOUS
    <2>1. FlattenSeq(sss[k]) \in Seq(S)
        <3> DEFINE ss == sss[k]
        <3>1. ss \in Seq(Seq(S))
            BY <1>2
        <3> HIDE DEF ss
        <3>2. PICK j \in [0..Len(ss) -> Seq(S)] : FlattenSeq(ss) = j[Len(ss)]
            BY <3>1, FlattenBySteps
        <3>3. Len(ss) \in 0..Len(ss)
            BY <3>1
        <3> QED BY <3>2, <3>3 DEF ss
    <2> QED BY <1>2, <2>1
<1>4. each \in Seq(Seq(S)) /\ Len(each) = n
    BY <1>2, <1>3, SeqDef
<1> HIDE DEF n
<1> DEFINE g == [k \in 0..n |-> FlattenSeq(h[k])]
<1>5. g[0] = <<>>
    BY <1>1, <1>2 DEF FlattenSeq
<1>6. ASSUME NEW k \in 1..n PROVE g[k] = g[k - 1] \o each[k]
    <2>0. k - 1 \in 0..n /\ k \in 0..n
        BY <1>2
    <2>1. h[k - 1] \in Seq(Seq(S)) /\ sss[k] \in Seq(Seq(S)) /\ h[k] = h[k - 1] \o sss[k]
        BY <1>1, <1>2, <2>0, Zenon
    <2>2. FlattenSeq(h[k]) = FlattenSeq(h[k - 1]) \o FlattenSeq(sss[k])
        BY <2>1, FlattenConcat
    <2> QED BY <1>2, <2>0, <2>1, <2>2
<1> HIDE DEF each
<1>7. g[n] = FlattenSeq(FlattenSeq(sss))
    BY <1>1, <1>2
<1> HIDE DEF g
<1>8. FlattenSeq(each) = g[Len(each)]
    BY <1>4, <1>5, <1>6, FlattenIs
<1> QED BY <1>4, <1>7, <1>8 DEF each

(* What is in a flattened list is in one of its lists.                     *)
Occurs(x, list) == \E i \in 1..Len(list) : list[i] = x

LEMMA ConcatOccurs ==
    ASSUME NEW S, NEW a \in Seq(S), NEW b \in Seq(S), NEW x
    PROVE  Occurs(x, a \o b) <=> Occurs(x, a) \/ Occurs(x, b)
<1> DEFINE c == a \o b
<1>1. /\ c \in Seq(S) /\ Len(c) = Len(a) + Len(b) /\ Len(a) \in Nat /\ Len(b) \in Nat
      /\ \A i \in 1..Len(a) + Len(b) : c[i] = IF i <= Len(a) THEN a[i] ELSE b[i - Len(a)]
    BY ConcatProperties
<1> HIDE DEF c
<1>2. ASSUME NEW i \in 1..Len(c) PROVE Occurs(c[i], a) \/ Occurs(c[i], b)
    <2>1. CASE i <= Len(a)
        <3>1. i \in 1..Len(a) /\ c[i] = a[i]
            BY <1>1, <2>1
        <3> QED BY <3>1 DEF Occurs
    <2>2. CASE ~(i <= Len(a))
        <3>1. i - Len(a) \in 1..Len(b) /\ c[i] = b[i - Len(a)]
            BY <1>1, <2>2
        <3> QED BY <3>1 DEF Occurs
    <2> QED BY <2>1, <2>2
<1>3. ASSUME NEW i \in 1..Len(a) PROVE Occurs(a[i], c)
    <2>1. i \in 1..Len(c) /\ c[i] = a[i]
        BY <1>1
    <2> QED BY <2>1 DEF Occurs
<1>4. ASSUME NEW i \in 1..Len(b) PROVE Occurs(b[i], c)
    <2>1. Len(a) + i \in 1..Len(c) /\ ~(Len(a) + i <= Len(a)) /\ (Len(a) + i) - Len(a) = i
        BY <1>1
    <2>2. c[Len(a) + i] = b[i]
        BY <1>1, <2>1
    <2> QED BY <2>1, <2>2 DEF Occurs
<1>5. Occurs(x, c) <=> Occurs(x, a) \/ Occurs(x, b)
    <2>1. Occurs(x, c) => Occurs(x, a) \/ Occurs(x, b)
        BY <1>2, Zenon DEF Occurs
    <2>2. Occurs(x, a) => Occurs(x, c)
        BY <1>3, Zenon DEF Occurs
    <2>3. Occurs(x, b) => Occurs(x, c)
        BY <1>4, Zenon DEF Occurs
    <2> QED BY <2>1, <2>2, <2>3
<1> QED BY <1>5 DEF c

LEMMA FlattenOccurs ==
    ASSUME NEW S, NEW ss \in Seq(Seq(S)), NEW x
    PROVE  /\ FlattenSeq(ss) \in Seq(S)
           /\ Occurs(x, FlattenSeq(ss)) <=> \E k \in 1..Len(ss) : Occurs(x, ss[k])
<1> DEFINE n == Len(ss)
<1>1. PICK h \in [0..n -> Seq(S)] : /\ h[0] = <<>> /\ FlattenSeq(ss) = h[n]
                                    /\ \A k \in 1..n : h[k] = h[k - 1] \o ss[k]
    BY FlattenBySteps
<1>2. n \in Nat /\ \A k \in 1..n : ss[k] \in Seq(S)
    OBVIOUS
<1> HIDE DEF n
<1> DEFINE T == {k \in 0..n : Occurs(x, h[k]) <=> \E i \in 1..k : Occurs(x, ss[i])}
<1>3. 0 \in T
    <2>1. ~Occurs(x, h[0]) /\ 1..0 = {} /\ 0 \in 0..n
        BY <1>1, <1>2 DEF Occurs
    <2> QED BY <2>1
<1>4. \A k \in 0..n - 1 : k \in T => k + 1 \in T
    <2> SUFFICES ASSUME NEW k \in 0..n - 1, k \in T PROVE k + 1 \in T
        OBVIOUS
    <2>1. k + 1 \in 1..n /\ (k + 1) - 1 = k /\ k \in 0..n /\ k + 1 \in 0..n /\ 1..k + 1 = 1..k \cup {k + 1}
        <3> HIDE DEF T
        <3> QED BY <1>2
    <2>2. h[k + 1] = h[k] \o ss[k + 1] /\ h[k] \in Seq(S) /\ ss[k + 1] \in Seq(S)
        BY <1>1, <1>2, <2>1, Zenon
    <2>3. Occurs(x, h[k + 1]) <=> Occurs(x, h[k]) \/ Occurs(x, ss[k + 1])
        <3> DEFINE a == h[k]
                   b == ss[k + 1]
        <3>1. a \in Seq(S) /\ b \in Seq(S) /\ h[k + 1] = a \o b
            BY <2>2
        <3> HIDE DEF a, b, T
        <3>2. Occurs(x, a \o b) <=> Occurs(x, a) \/ Occurs(x, b)
            BY <3>1, ConcatOccurs
        <3>3. Occurs(x, h[k + 1]) <=> Occurs(x, a \o b)
            BY <3>1, Zenon
        <3> QED BY <3>2, <3>3 DEF a, b
    <2>4. Occurs(x, h[k]) <=> \E i \in 1..k : Occurs(x, ss[i])
        OBVIOUS
    <2>5. Occurs(x, h[k + 1]) <=> \E i \in 1..k + 1 : Occurs(x, ss[i])
        BY <2>1, <2>3, <2>4, Zenon
    <2> QED BY <2>1, <2>5
<1>5. n \in T
    <2> HIDE DEF T
    <2>1. \A k \in 0..n : k \in T
        BY <1>2, <1>3, <1>4, InductionUpTo
    <2> QED BY <1>2, <2>1
<1>6. FlattenSeq(ss) \in Seq(S)
    BY <1>1, <1>2
<1> QED BY <1>1, <1>5, <1>6 DEF n

(* As long as its lists together. *)
LEMMA FlattenLen ==
    ASSUME NEW S, NEW ss \in Seq(Seq(S))
    PROVE  /\ FlattenSeq(ss) \in Seq(S)
           /\ Len(FlattenSeq(ss)) = Total([i \in DOMAIN ss |-> Len(ss[i])])
<1> DEFINE n == Len(ss)
           lens == [i \in DOMAIN ss |-> Len(ss[i])]
<1>1. PICK h \in [0..n -> Seq(S)] : /\ h[0] = <<>> /\ FlattenSeq(ss) = h[n]
                                    /\ \A k \in 1..n : h[k] = h[k - 1] \o ss[k]
    BY FlattenBySteps
<1>2. n \in Nat /\ DOMAIN ss = 1..n /\ \A k \in 1..n : ss[k] \in Seq(S)
    OBVIOUS
<1>3. lens \in Seq(Int) /\ Len(lens) = n
    <2>1. lens \in [1..n -> Int]
        BY <1>2
    <2> QED BY <1>2, <2>1, SeqDef
<1> HIDE DEF n
<1> DEFINE g == [k \in 0..n |-> Len(h[k])]
<1>4. g[0] = 0
    BY <1>1, <1>2
<1>5. ASSUME NEW k \in 1..n PROVE g[k] = g[k - 1] + lens[k]
    <2>0. k - 1 \in 0..n /\ k \in 0..n
        BY <1>2
    <2>1. h[k - 1] \in Seq(S) /\ ss[k] \in Seq(S) /\ h[k] = h[k - 1] \o ss[k]
        BY <1>1, <1>2, <2>0, Zenon
    <2>2. Len(h[k]) = Len(h[k - 1]) + Len(ss[k])
        BY <2>1, ConcatProperties
    <2> QED BY <1>2, <2>0, <2>1, <2>2
<1> HIDE DEF lens
<1>6. g[n] = Len(FlattenSeq(ss)) /\ FlattenSeq(ss) \in Seq(S)
    BY <1>1, <1>2
<1> HIDE DEF g
<1>7. Total(lens) = g[Len(lens)]
    BY <1>3, <1>4, <1>5, TotalIs
<1> QED BY <1>3, <1>6, <1>7 DEF lens
-----------------------------------------------------------------------------
(* A filter takes the elements at its places one by one. *)
TakenAt(list, places, picked, i) == IF i \in places THEN Append(picked, list[i]) ELSE picked

Takes(h, S, list, places) ==
    /\ h \in [0..Len(list) -> Seq(S)]
    /\ h[0] = <<>> /\ Picked(list, places) = h[Len(list)]
    /\ \A k \in 1..Len(list) : h[k] = TakenAt(list, places, h[k - 1], k)

LEMMA PickedBySteps ==
    ASSUME NEW S, NEW list \in Seq(S), NEW places
    PROVE  \E h : Takes(h, S, list, places)
<1> DEFINE n == Len(list)
           V == Seq(S)
           indices == [i \in DOMAIN list |-> i]
           step == [p \in V \X (1..n) |-> TakenAt(list, places, p[1], p[2])]
           iter == CHOOSE iter : iter = [t \in SUBSET DOMAIN indices |->
                       IF t = {} THEN <<>> ELSE TakenAt(list, places, iter[t \ {Max(t)}], indices[Max(t)])]
           h == [k \in 0..n |-> iter[1..k]]
<1>1. /\ n \in Nat /\ DOMAIN list = 1..n /\ DOMAIN indices = 1..n /\ <<>> \in V
      /\ \A k \in 1..n : indices[k] = k /\ list[k] \in S
    OBVIOUS
<1>2. \A picked \in V, k \in 1..n : TakenAt(list, places, picked, k) \in V
    BY <1>1 DEF TakenAt
<1>3. step \in [V \X (1..n) -> V]
    <2> HIDE DEF V, n
    <2> QED BY <1>2
<1>4. PICK G : FoldsBy(G, n, V, <<>>, step)
    <2> HIDE DEF step, n, V, iter, h
    <2> QED BY <1>1, <1>3, FoldRuns, Zenon
<1>5. G = [t \in SUBSET DOMAIN indices |->
              IF t = {} THEN <<>> ELSE TakenAt(list, places, G[t \ {Max(t)}], indices[Max(t)])]
    <2> HIDE DEF V, indices
    <2>1. ASSUME NEW t \in SUBSET (1..n), t # {}
          PROVE  G[t] = TakenAt(list, places, G[t \ {Max(t)}], indices[Max(t)])
        <3>1. Max(t) \in 1..n /\ t \ {Max(t)} \in SUBSET (1..n)
            BY <1>1, <2>1, MaxOfIndices
        <3> QED BY <1>1, <1>4, <2>1, <3>1 DEF FoldsBy
    <2> QED BY <1>1, <1>4, <2>1 DEF FoldsBy
<1>6. iter = [t \in SUBSET DOMAIN indices |->
              IF t = {} THEN <<>> ELSE TakenAt(list, places, iter[t \ {Max(t)}], indices[Max(t)])]
    <2> HIDE DEF indices
    <2> QED BY <1>5, Zenon
<1>7. Picked(list, places) = iter[DOMAIN indices]
    BY DEF Picked, TakenAt, FoldLeftDomain, FoldLeft, MapThenFoldSet
<1> HIDE DEF iter, step, indices
<1>8. h[0] = <<>> /\ h[n] = Picked(list, places)
    <2>1. 1..0 = {}
        OBVIOUS
    <2> QED BY <1>1, <1>6, <1>7, <2>1
<1>9. ASSUME NEW k \in 1..n PROVE h[k] = TakenAt(list, places, h[k - 1], k)
    <2>1. 1..k \in SUBSET (1..n) /\ 1..k # {} /\ Max(1..k) = k /\ (1..k) \ {k} = 1..(k - 1)
        <3> HIDE DEF n, h
        <3> QED BY <1>1, SegmentIsNext
    <2>2. iter[1..k] = TakenAt(list, places, iter[1..(k - 1)], k)
        <3>1. iter[1..k] = TakenAt(list, places, iter[(1..k) \ {Max(1..k)}], indices[Max(1..k)])
            BY <1>1, <1>6, <2>1
        <3>2. indices[Max(1..k)] = k
            BY <1>1, <2>1
        <3> QED BY <2>1, <3>1, <3>2
    <2>3. h[k] = iter[1..k] /\ h[k - 1] = iter[1..(k - 1)]
        BY <1>1
    <2> HIDE DEF h
    <2> QED BY <2>2, <2>3
<1> HIDE DEF h
<1>10. \A k \in 0..n : h[k] \in V
    <2> DEFINE T == {k \in 0..n : h[k] \in V}
    <2> HIDE DEF V
    <2>1. 0 \in T
        BY <1>1, <1>8
    <2>2. \A k \in 0..n - 1 : k \in T => k + 1 \in T
        <3> SUFFICES ASSUME NEW k \in 0..n - 1, k \in T PROVE k + 1 \in T
            OBVIOUS
        <3>1. k + 1 \in 1..n /\ (k + 1) - 1 = k /\ h[k] \in V
            BY <1>1
        <3>2. h[k + 1] = TakenAt(list, places, h[k], k + 1)
            BY <1>9, <3>1
        <3>3. TakenAt(list, places, h[k], k + 1) \in V
            BY <1>2, <3>1
        <3> QED BY <3>1, <3>2, <3>3
    <2> HIDE DEF T
    <2>3. \A k \in 0..n : k \in T
        BY <1>1, <2>1, <2>2, InductionUpTo
    <2> QED BY <2>3 DEF T
<1>11. h \in [0..n -> V]
    <2> HIDE DEF V
    <2> QED BY <1>10 DEF h
<1>12. Takes(h, S, list, places)
    BY <1>8, <1>9, <1>11 DEF Takes
<1> QED BY <1>12

(* So its elements are those at the places, in their order. *)
PicksAt(p, part, list, places) ==
    /\ p \in [1..Len(part) -> 1..Len(list)]
    /\ \A j, l \in 1..Len(part) : j < l => p[j] < p[l]
    /\ \A j \in 1..Len(part) : p[j] \in places /\ part[j] = list[p[j]]
    /\ \A i \in 1..Len(list) : i \in places => \E j \in 1..Len(part) : p[j] = i

LEMMA PickedSelects ==
    ASSUME NEW S, NEW list \in Seq(S), NEW places
    PROVE  /\ Picked(list, places) \in Seq(S)
           /\ \E p : PicksAt(p, Picked(list, places), list, places)
<1>0. PICK h : Takes(h, S, list, places)
    BY PickedBySteps
<1>1. /\ h \in [0..Len(list) -> Seq(S)] /\ h[0] = <<>> /\ Picked(list, places) = h[Len(list)]
      /\ \A k \in 1..Len(list) : h[k] = IF k \in places THEN Append(h[k - 1], list[k]) ELSE h[k - 1]
    BY <1>0 DEF Takes, TakenAt
<1> DEFINE n == Len(list)
           Fits(p, k) == /\ p \in [1..Len(h[k]) -> 1..k]
                         /\ \A j, l \in 1..Len(h[k]) : j < l => p[j] < p[l]
                         /\ \A j \in 1..Len(h[k]) : p[j] \in places /\ h[k][j] = list[p[j]]
                         /\ \A i \in 1..k : i \in places => \E j \in 1..Len(h[k]) : p[j] = i
           T == {k \in 0..n : \E p : Fits(p, k)}
<1>2. n \in Nat /\ DOMAIN list = 1..n /\ \A k \in 0..n : h[k] \in Seq(S) /\ Len(h[k]) \in Nat
    BY <1>1
<1>3. 0 \in T
    <2> DEFINE e == [j \in 1..0 |-> 0]
    <2>0. Len(h[0]) = 0 /\ 1..0 = {}
        BY <1>1
    <2>1. Fits(e, 0)
        BY <2>0
    <2> HIDE DEF e
    <2> QED BY <1>2, <2>1
<1>4. ASSUME NEW k \in 0..n - 1, k \in T PROVE k + 1 \in T
    <2>1. PICK p : Fits(p, k)
        BY <1>4
    <2>2. k + 1 \in 1..n /\ (k + 1) - 1 = k /\ k \in 0..n /\ k + 1 \in 0..n /\ list[k + 1] \in S
        BY <1>2
    <2>3. CASE k + 1 \notin places
        <3>1. h[k + 1] = h[k]
            BY <1>1, <2>2, <2>3
        <3>2. p \in [1..Len(h[k + 1]) -> 1..k + 1]
            BY <2>1, <3>1
        <3>3. \A i \in 1..k + 1 : i \in places => i \in 1..k
            BY <2>2, <2>3
        <3>4. Fits(p, k + 1)
            BY <2>1, <3>1, <3>2, <3>3
        <3> QED BY <2>2, <3>4
    <2>4. CASE k + 1 \in places
        <3> DEFINE c == Len(h[k])
                   q == [j \in 1..c + 1 |-> IF j = c + 1 THEN k + 1 ELSE p[j]]
        <3>1. h[k + 1] = Append(h[k], list[k + 1])
            BY <1>1, <2>2, <2>4
        <3>2. /\ c \in Nat /\ Len(h[k + 1]) = c + 1 /\ h[k + 1][c + 1] = list[k + 1]
              /\ \A j \in 1..c : h[k + 1][j] = h[k][j]
            BY <1>2, <2>2, <3>1
        <3> HIDE DEF c
        <3>3. p \in [1..c -> 1..k] /\ \A j, l \in 1..c : j < l => p[j] < p[l]
            BY <2>1 DEF c
        <3>4. q \in [1..c + 1 -> 1..k + 1]
            BY <3>2, <3>3
        <3>5. \A j, l \in 1..c + 1 : j < l => q[j] < q[l]
            BY <3>2, <3>3
        <3>6. \A j \in 1..c + 1 : q[j] \in places /\ h[k + 1][j] = list[q[j]]
            BY <2>1, <2>4, <3>2 DEF c
        <3>7. \A i \in 1..k + 1 : i \in places => \E j \in 1..c + 1 : q[j] = i
            <4> SUFFICES ASSUME NEW i \in 1..k + 1, i \in places
                         PROVE  \E j \in 1..c + 1 : q[j] = i
                OBVIOUS
            <4>1. CASE i = k + 1
                <5>1. c + 1 \in 1..c + 1 /\ q[c + 1] = i
                    BY <3>2, <4>1
                <5> QED BY <5>1
            <4>2. CASE i # k + 1
                <5>1. i \in 1..k
                    BY <4>2, <2>2
                <5>2. PICK j \in 1..c : p[j] = i
                    BY <2>1, <5>1 DEF c
                <5>3. j \in 1..c + 1 /\ j # c + 1
                    BY <3>2
                <5> QED BY <5>2, <5>3
            <4> QED BY <4>1, <4>2
        <3> HIDE DEF q
        <3>8. Fits(q, k + 1)
            BY <3>2, <3>4, <3>5, <3>6, <3>7
        <3> QED BY <2>2, <3>8
    <2> QED BY <2>3, <2>4
<1>5. PICK p : Fits(p, n)
    <2> HIDE DEF T, n
    <2>1. \A k \in 0..n : k \in T
        BY <1>2, <1>3, <1>4, InductionUpTo
    <2>2. n \in 0..n
        BY <1>2
    <2> QED BY <2>1, <2>2 DEF T
<1>6. Picked(list, places) = h[n] /\ h[n] \in Seq(S)
    BY <1>1, <1>2
<1>7. PicksAt(p, h[n], list, places)
    <2> HIDE DEF n
    <2> QED BY <1>5 DEF PicksAt, n
<1> QED BY <1>6, <1>7

(* It is as long as it has places. *)
LEMMA PickedLen ==
    ASSUME NEW S, NEW list \in Seq(S), NEW places
    PROVE  Len(Picked(list, places)) = Cardinality(places \cap (1..Len(list)))
<1> DEFINE part == Picked(list, places)
           c == Len(part)
           P == places \cap (1..Len(list))
<1>1. part \in Seq(S) /\ c \in Nat
    BY PickedSelects
<1>2. PICK p : PicksAt(p, part, list, places)
    BY PickedSelects
<1>3. p \in Bijection(1..c, P)
    <2>1. p \in [1..c -> P]
        BY <1>2 DEF PicksAt
    <2>2. \A j, l \in 1..c : p[j] = p[l] => j = l
        <3> SUFFICES ASSUME NEW j \in 1..c, NEW l \in 1..c, p[j] = p[l], j # l PROVE FALSE
            OBVIOUS
        <3>1. p[j] \in Nat /\ p[l] \in Nat
            BY <1>2 DEF PicksAt
        <3>2. j < l \/ l < j
            BY <1>1
        <3>3. p[j] < p[l] \/ p[l] < p[j]
            BY <1>2, <3>2 DEF PicksAt
        <3> QED BY <3>1, <3>3
    <2>3. \A i \in P : \E j \in 1..c : p[j] = i
        BY <1>2 DEF PicksAt
    <2> HIDE DEF c, P
    <2> QED BY <2>1, <2>2, <2>3 DEF Bijection, Injection, Surjection, IsInjective
<1>4. IsFiniteSet(1..c) /\ Cardinality(1..c) = c
    <2> HIDE DEF c
    <2>1. c \in Int /\ 1 \in Int
        BY <1>1
    <2>2. IsFiniteSet(1..c) /\ Cardinality(1..c) = IF 1 > c THEN 0 ELSE c - 1 + 1
        BY <2>1, FS_Interval
    <2> QED BY <1>1, <2>2
<1>5. Cardinality(P) = c
    <2> HIDE DEF c, P
    <2> QED BY <1>1, <1>3, <1>4, FS_Bijection DEF ExistsBijection
<1> QED BY <1>5

-----------------------------------------------------------------------------
(* In a finite set with a strict total order, every element has a place of *)
(* its own - the number of those before it - so every place has an element. *)
StrictOrder(Less, N) ==
    /\ \A x \in N : <<x, x>> \notin Less
    /\ \A x, y, z \in N : <<x, y>> \in Less /\ <<y, z>> \in Less => <<x, z>> \in Less
    /\ \A x, y \in N : x # y => <<x, y>> \in Less \/ <<y, x>> \in Less

InItsOrder(Less, N) ==
    [i \in 1..Cardinality(N) |-> CHOOSE x \in N : Cardinality({y \in N : <<y, x>> \in Less}) = i - 1]

LEMMA Ranks ==
    ASSUME NEW N, IsFiniteSet(N), NEW Less, StrictOrder(Less, N)
    PROVE  LET c == Cardinality(N)
               d == InItsOrder(Less, N)
           IN /\ c \in Nat /\ d \in [1..c -> N]
              /\ \A i, j \in 1..c : i < j => <<d[i], d[j]>> \in Less
              /\ \A x \in N : \E i \in 1..c : d[i] = x
<1> DEFINE c == Cardinality(N)
           d == InItsOrder(Less, N)
           Below(x) == {y \in N : <<y, x>> \in Less}
           rank == [x \in N |-> Cardinality(Below(x)) + 1]
<1>1. c \in Nat
    BY FS_CardinalityType
<1>2. ASSUME NEW x \in N
      PROVE  IsFiniteSet(Below(x)) /\ Cardinality(Below(x)) \in Nat /\ Cardinality(Below(x)) < c
    <2>1. Below(x) \in SUBSET N /\ Below(x) # N
        BY DEF StrictOrder
    <2> HIDE DEF Below
    <2>2. IsFiniteSet(Below(x)) /\ Cardinality(Below(x)) <= c /\ (Cardinality(Below(x)) = c => Below(x) = N)
        BY <2>1, FS_Subset
    <2> QED BY <1>1, <2>1, <2>2, FS_CardinalityType
<1>3. ASSUME NEW x \in N, NEW y \in N, <<x, y>> \in Less
      PROVE  rank[x] < rank[y]
    <2>1. Below(x) \in SUBSET Below(y) /\ x \in Below(y) /\ x \notin Below(x)
        BY <1>3 DEF StrictOrder
    <2>2. IsFiniteSet(Below(y)) /\ Cardinality(Below(y)) \in Nat /\ Cardinality(Below(x)) \in Nat
        BY <1>2
    <2>3. rank[x] = Cardinality(Below(x)) + 1 /\ rank[y] = Cardinality(Below(y)) + 1
        OBVIOUS
    <2> HIDE DEF Below, rank
    <2>4. Cardinality(Below(x)) <= Cardinality(Below(y)) /\ (Cardinality(Below(x)) = Cardinality(Below(y)) => Below(x) = Below(y))
        BY <2>1, <2>2, FS_Subset
    <2> QED BY <2>1, <2>2, <2>3, <2>4
<1> HIDE DEF Below, c, d
<1>4. rank \in [N -> 1..c]
    <2>1. \A x \in N : Cardinality(Below(x)) + 1 \in 1..c
        BY <1>1, <1>2
    <2> QED BY <2>1
<1>5. \A x, y \in N : rank[x] = rank[y] => x = y
    <2> SUFFICES ASSUME NEW x \in N, NEW y \in N, rank[x] = rank[y], x # y PROVE FALSE
        OBVIOUS
    <2>1. <<x, y>> \in Less \/ <<y, x>> \in Less
        BY DEF StrictOrder
    <2>2. rank[x] \in 1..c /\ rank[y] \in 1..c
        BY <1>4
    <2> HIDE DEF rank
    <2> QED BY <1>1, <1>3, <2>1, <2>2
<1>6. \A i \in 1..c : \E x \in N : rank[x] = i
    <2>1. rank \in Injection(N, 1..c)
        <3> HIDE DEF rank
        <3> QED BY <1>4, <1>5 DEF Injection, IsInjective
    <2>2. IsFiniteSet(1..c) /\ Cardinality(1..c) = c
        <3>1. c \in Int /\ 1 \in Int
            BY <1>1
        <3>2. IsFiniteSet(1..c) /\ Cardinality(1..c) = IF 1 > c THEN 0 ELSE c - 1 + 1
            BY <3>1, FS_Interval
        <3> QED BY <1>1, <3>2
    <2>3. rank \in Surjection(N, 1..c)
        <3>1. Cardinality(N) = Cardinality(1..c)
            BY <2>2 DEF c
        <3> HIDE DEF rank
        <3> QED BY <2>1, <2>2, <3>1, FS_Injection
    <2> QED BY <2>3 DEF Surjection
<1>7. ASSUME NEW i \in 1..c
      PROVE  d[i] \in N /\ rank[d[i]] = i
    <2>1. PICK x \in N : rank[x] = i
        BY <1>6
    <2>2. Cardinality(Below(x)) = i - 1
        <3>1. Cardinality(Below(x)) \in Nat /\ i \in Int
            BY <1>2
        <3>2. rank[x] = Cardinality(Below(x)) + 1
            OBVIOUS
        <3> HIDE DEF rank
        <3> QED BY <2>1, <3>1, <3>2
    <2>3. d[i] = CHOOSE y \in N : Cardinality(Below(y)) = i - 1
        BY DEF InItsOrder, Below, c, d
    <2>4. d[i] \in N /\ Cardinality(Below(d[i])) = i - 1
        BY <2>2, <2>3
    <2> QED BY <1>1, <2>4
<1> HIDE DEF rank
<1>8. \A i, j \in 1..c : i < j => <<d[i], d[j]>> \in Less
    <2> SUFFICES ASSUME NEW i \in 1..c, NEW j \in 1..c, i < j, <<d[i], d[j]>> \notin Less PROVE FALSE
        OBVIOUS
    <2>1. d[i] \in N /\ d[j] \in N /\ rank[d[i]] = i /\ rank[d[j]] = j
        BY <1>7
    <2>2. <<d[j], d[i]>> \in Less \/ d[i] = d[j]
        BY <2>1 DEF StrictOrder
    <2>3. CASE <<d[j], d[i]>> \in Less
        <3>1. rank[d[j]] < rank[d[i]]
            BY ONLY <1>3, <2>1, <2>3
        <3> QED BY <1>1, <2>1, <3>1
    <2> QED BY <1>1, <2>1, <2>2, <2>3
<1>9. \A x \in N : \E i \in 1..c : d[i] = x
    <2> SUFFICES ASSUME NEW x \in N PROVE \E i \in 1..c : d[i] = x
        OBVIOUS
    <2>1. rank[x] \in 1..c
        BY <1>4
    <2>2. d[rank[x]] \in N /\ rank[d[rank[x]]] = rank[x]
        BY <1>7, <2>1
    <2> QED BY <1>5, <2>1, <2>2
<1>10. d \in [1..c -> N]
    <2>1. d = [i \in 1..c |-> d[i]]
        <3> DEFINE e(i) == CHOOSE x \in N : Cardinality({y \in N : <<y, x>> \in Less}) = i - 1
        <3>1. d = [i \in 1..c |-> e(i)]
            BY Zenon DEF d, InItsOrder, c
        <3> HIDE DEF e
        <3> QED BY <3>1
    <2> QED BY <1>7, <2>1
<1> QED BY <1>1, <1>8, <1>9, <1>10 DEF c, d

LEMMA DescendingOrder ==
    ASSUME NEW N \in SUBSET Int, IsFiniteSet(N)
    PROVE  /\ Descending(N) \in Seq(N) /\ Len(Descending(N)) = Cardinality(N)
           /\ \A i, j \in 1..Cardinality(N) : i < j => Descending(N)[i] > Descending(N)[j]
           /\ \A x \in N : \E i \in 1..Cardinality(N) : Descending(N)[i] = x
<1> DEFINE c == Cardinality(N)
           d == Descending(N)
           Less == {p \in N \X N : p[1] > p[2]}
<1>1. \A x, y \in N : <<x, y>> \in Less <=> x > y
    OBVIOUS
<1>2. d = InItsOrder(Less, N)
    <2>1. \A x \in N : {y \in N : <<y, x>> \in Less} = {y \in N : y > x}
        BY <1>1
    <2> HIDE DEF Less
    <2> DEFINE f(i) == CHOOSE x \in N : Cardinality({y \in N : y > x}) = i - 1
               g(i) == CHOOSE x \in N : Cardinality({y \in N : <<y, x>> \in Less}) = i - 1
    <2>2. ASSUME NEW i PROVE f(i) = g(i)
        BY <2>1, Zenon
    <2>3. d = [i \in 1..c |-> f(i)] /\ InItsOrder(Less, N) = [i \in 1..c |-> g(i)]
        BY Zenon DEF Descending, InItsOrder
    <2> HIDE DEF f, g, d, c
    <2> QED BY <2>2, <2>3
<1>3. StrictOrder(Less, N)
    <2>1. \A x \in N : x \in Int
        OBVIOUS
    <2> HIDE DEF Less
    <2> QED BY <1>1, <2>1 DEF StrictOrder
<1> HIDE DEF Less, d
<1>5. /\ c \in Nat /\ d \in [1..c -> N]
      /\ \A i, j \in 1..c : i < j => <<d[i], d[j]>> \in Less
      /\ \A x \in N : \E i \in 1..c : d[i] = x
    BY <1>2, <1>3, Ranks
<1> HIDE DEF c
<1>6. d \in Seq(N) /\ Len(d) = c
    BY <1>5, SeqDef
<1>7. \A i, j \in 1..c : i < j => d[i] > d[j]
    BY <1>1, <1>5
<1> QED BY <1>5, <1>6, <1>7 DEF c, d

LEMMA AscendingOrder ==
    ASSUME NEW N \in SUBSET Int, IsFiniteSet(N)
    PROVE  /\ Ascending(N) \in Seq(N) /\ Len(Ascending(N)) = Cardinality(N)
           /\ \A i, j \in 1..Cardinality(N) : i < j => Ascending(N)[i] < Ascending(N)[j]
           /\ \A x \in N : \E i \in 1..Cardinality(N) : Ascending(N)[i] = x
<1> DEFINE c == Cardinality(N)
           d == Descending(N)
           a == Ascending(N)
<1>1. /\ d \in Seq(N) /\ Len(d) = c /\ \A x \in N : \E i \in 1..c : d[i] = x
      /\ \A i, j \in 1..c : i < j => d[i] > d[j]
    BY DescendingOrder
<1>2. c \in Nat
    BY FS_CardinalityType
<1>3. a = [i \in 1..c |-> d[c - i + 1]]
    <2> HIDE DEF c, d
    <2> QED BY <1>1 DEF Ascending, Reverse, d
<1> HIDE DEF c, d, a
<1>4. \A i \in 1..c : c - i + 1 \in 1..c /\ c - (c - i + 1) + 1 = i /\ a[i] = d[c - i + 1]
    BY <1>2, <1>3
<1>5. a \in Seq(N) /\ Len(a) = c
    <2>1. a \in [1..c -> N]
        BY <1>1, <1>3, <1>4
    <2>2. a \in Seq(N)
        BY <1>2, <2>1, SeqDef
    <2> QED BY <1>2, <2>1, <2>2
<1>6. \A i, j \in 1..c : i < j => a[i] < a[j]
    <2> TAKE i, j \in 1..c
    <2> HAVE i < j
    <2>1. c - j + 1 \in 1..c /\ c - i + 1 \in 1..c /\ c - j + 1 < c - i + 1
        BY <1>2
    <2>2. d[c - j + 1] > d[c - i + 1]
        BY <1>1, <2>1
    <2> QED BY <1>4, <2>2
<1>7. \A x \in N : \E i \in 1..c : a[i] = x
    <2> TAKE x \in N
    <2>1. PICK i \in 1..c : d[i] = x
        BY <1>1
    <2>2. a[c - i + 1] = x
        BY <1>4, <2>1
    <2> QED BY <1>4, <2>2
<1> QED BY <1>5, <1>6, <1>7 DEF a, c

(* Sorting takes the elements to other places, by a permutation p.         *)
Sorts(p, list, keys) ==
    /\ p \in [DOMAIN list -> DOMAIN list]
    /\ Sorted(list, keys) = [k \in DOMAIN list |-> list[p[k]]]
    /\ \A i \in DOMAIN list : \E k \in DOMAIN list : p[k] = i
    /\ \A k, l \in DOMAIN list : k < l => p[k] # p[l] /\ keys[p[k]] <= keys[p[l]]

LEMMA SortedOrder ==
    ASSUME NEW S, NEW list \in Seq(S), NEW keys \in [DOMAIN list -> Int]
    PROVE  \E p : Sorts(p, list, keys)
<1> DEFINE n == Len(list)
           N == DOMAIN list
           Less == {q \in N \X N : keys[q[1]] < keys[q[2]] \/ (keys[q[1]] = keys[q[2]] /\ q[1] < q[2])}
           p == InItsOrder(Less, N)
<1>1. n \in Nat /\ N = 1..n /\ \A x \in N : x \in Int /\ keys[x] \in Int
    OBVIOUS
<1>2. \A x, y \in N : <<x, y>> \in Less <=> keys[x] < keys[y] \/ (keys[x] = keys[y] /\ x < y)
    OBVIOUS
<1>3. IsFiniteSet(N) /\ Cardinality(N) = n
    <2> HIDE DEF n, N
    <2>1. n \in Int /\ 1 \in Int
        BY <1>1
    <2>2. IsFiniteSet(1..n) /\ Cardinality(1..n) = IF 1 > n THEN 0 ELSE n - 1 + 1
        BY <2>1, FS_Interval
    <2> QED BY <1>1, <2>2
<1>4. StrictOrder(Less, N)
    <2> HIDE DEF Less, N, n
    <2>1. \A x \in N : <<x, x>> \notin Less
        BY <1>1, <1>2
    <2>2. ASSUME NEW x \in N, NEW y \in N, NEW z \in N, <<x, y>> \in Less, <<y, z>> \in Less
          PROVE  <<x, z>> \in Less
        <3>1. /\ x \in Int /\ y \in Int /\ z \in Int
              /\ keys[x] \in Int /\ keys[y] \in Int /\ keys[z] \in Int
            BY <1>1
        <3>2. keys[x] < keys[y] \/ (keys[x] = keys[y] /\ x < y)
            BY <1>2, <2>2
        <3>3. keys[y] < keys[z] \/ (keys[y] = keys[z] /\ y < z)
            BY <1>2, <2>2
        <3>4. keys[x] < keys[z] \/ (keys[x] = keys[z] /\ x < z)
            BY <3>1, <3>2, <3>3
        <3> QED BY <1>2, <3>4
    <2>3. ASSUME NEW x \in N, NEW y \in N, x # y PROVE <<x, y>> \in Less \/ <<y, x>> \in Less
        <3>1. x \in Int /\ y \in Int /\ keys[x] \in Int /\ keys[y] \in Int
            BY <1>1
        <3>2. \/ keys[x] < keys[y] \/ (keys[x] = keys[y] /\ x < y)
              \/ keys[y] < keys[x] \/ (keys[y] = keys[x] /\ y < x)
            BY <2>3, <3>1
        <3> QED BY <1>2, <3>2
    <2> QED BY <2>1, <2>2, <2>3 DEF StrictOrder
<1>5. Sorted(list, keys) = [k \in N |-> list[p[k]]]
    <2>1. \A x \in N : {y \in N : <<y, x>> \in Less} = {y \in N : keys[y] < keys[x] \/ (keys[y] = keys[x] /\ y < x)}
        BY <1>2
    <2> HIDE DEF Less
    <2>2. ASSUME NEW k \in N
          PROVE  p[k] = CHOOSE x \in N : Cardinality({y \in N : keys[y] < keys[x] \/ (keys[y] = keys[x] /\ y < x)}) = k - 1
        <3>0. k \in 1..Cardinality(N)
            BY <1>1, <1>3
        <3>1. p[k] = CHOOSE x \in N : Cardinality({y \in N : <<y, x>> \in Less}) = k - 1
            <4> HIDE DEF N
            <4> QED BY <3>0, Zenon DEF InItsOrder
        <3>2. (CHOOSE x \in N : Cardinality({y \in N : <<y, x>> \in Less}) = k - 1)
                = CHOOSE x \in N : Cardinality({y \in N : keys[y] < keys[x] \/ (keys[y] = keys[x] /\ y < x)}) = k - 1
            <4> HIDE DEF N
            <4> QED BY <2>1, Zenon
        <3> QED BY <3>1, <3>2, Zenon
    <2> DEFINE f(k) == list[CHOOSE x \in N : Cardinality({y \in N : keys[y] < keys[x] \/ (keys[y] = keys[x] /\ y < x)}) = k - 1]
    <2>3. Sorted(list, keys) = [k \in N |-> f(k)]
        BY Zenon DEF Sorted
    <2>4. \A k \in N : f(k) = list[p[k]]
        BY <2>2, Zenon
    <2> HIDE DEF p, f, N
    <2> QED BY <2>3, <2>4
<1> HIDE DEF Less, p, N, n
<1>6. /\ p \in [N -> N]
      /\ \A k, l \in N : k < l => <<p[k], p[l]>> \in Less
      /\ \A x \in N : \E k \in N : p[k] = x
    <2>1. /\ p \in [1..Cardinality(N) -> N]
          /\ \A k, l \in 1..Cardinality(N) : k < l => <<p[k], p[l]>> \in Less
          /\ \A x \in N : \E k \in 1..Cardinality(N) : p[k] = x
        BY <1>3, <1>4, Ranks DEF p
    <2> QED BY <1>1, <1>3, <2>1
<1>7. \A k, l \in N : k < l => p[k] # p[l] /\ keys[p[k]] <= keys[p[l]]
    <2> TAKE k, l \in N
    <2> HAVE k < l
    <2>1. p[k] \in N /\ p[l] \in N /\ <<p[k], p[l]>> \in Less
        BY <1>6
    <2>2. p[k] # p[l]
        BY <1>4, <2>1 DEF StrictOrder
    <2>3. keys[p[k]] \in Int /\ keys[p[l]] \in Int
        BY <1>1, <2>1
    <2>4. keys[p[k]] < keys[p[l]] \/ (keys[p[k]] = keys[p[l]] /\ p[k] < p[l])
        BY <1>2, <2>1
    <2> QED BY <2>2, <2>3, <2>4
<1>8. Sorts(p, list, keys)
    BY <1>5, <1>6, <1>7 DEF Sorts, N
<1> QED BY <1>8

-----------------------------------------------------------------------------
(* Totals: of a list element by element, and by parts. *)
LEMMA TotalIsInt ==
    ASSUME NEW s \in Seq(Int)
    PROVE  Total(s) \in Int
<1>1. PICK h \in [0..Len(s) -> Int] : Total(s) = h[Len(s)]
    BY TotalBySteps
<1>2. Len(s) \in 0..Len(s)
    OBVIOUS
<1> QED BY <1>1, <1>2

(* Nothing but zeros. *)
LEMMA TotalOfZeros ==
    ASSUME NEW s \in Seq(Int), \A k \in 1..Len(s) : s[k] = 0
    PROVE  Total(s) = 0
<1> DEFINE g == [k \in 0..Len(s) |-> 0]
<1>1. Len(s) \in Nat /\ g[0] = 0 /\ g[Len(s)] = 0
    OBVIOUS
<1>2. \A k \in 1..Len(s) : g[k] = g[k - 1] + s[k]
    OBVIOUS
<1> HIDE DEF g
<1>3. Total(s) = g[Len(s)]
    BY <1>1, <1>2, TotalIs
<1> QED BY <1>1, <1>3

(* Two lists added up element by element. *)
LEMMA TotalOfSums ==
    ASSUME NEW a \in Seq(Int), NEW b \in Seq(Int), NEW c \in Seq(Int), Len(b) = Len(a), Len(c) = Len(a),
           \A k \in 1..Len(a) : c[k] = a[k] + b[k]
    PROVE  Total(c) = Total(a) + Total(b)
<1> DEFINE n == Len(a)
<1>1. PICK ha \in [0..n -> Int] : /\ ha[0] = 0 /\ Total(a) = ha[n]
                                  /\ \A k \in 1..n : ha[k] = ha[k - 1] + a[k]
    BY TotalBySteps
<1>2. PICK hb \in [0..n -> Int] : /\ hb[0] = 0 /\ Total(b) = hb[n]
                                  /\ \A k \in 1..n : hb[k] = hb[k - 1] + b[k]
    BY TotalBySteps
<1> DEFINE g == [k \in 0..n |-> ha[k] + hb[k]]
<1>3. n \in Nat /\ \A k \in 1..n : a[k] \in Int /\ b[k] \in Int
    OBVIOUS
<1>4. g[0] = 0 /\ g[n] = Total(a) + Total(b)
    BY <1>1, <1>2, <1>3
<1>5. ASSUME NEW k \in 1..n PROVE g[k] = g[k - 1] + c[k]
    <2>1. k \in 0..n /\ k - 1 \in 0..n /\ c[k] = a[k] + b[k]
        BY <1>3
    <2>2. ha[k - 1] \in Int /\ hb[k - 1] \in Int /\ a[k] \in Int /\ b[k] \in Int
        BY <1>3, <2>1
    <2>3. ha[k] = ha[k - 1] + a[k] /\ hb[k] = hb[k - 1] + b[k]
        BY <1>1, <1>2
    <2>4. g[k] = ha[k] + hb[k] /\ g[k - 1] = ha[k - 1] + hb[k - 1]
        BY <2>1
    <2>5. c[k] = a[k] + b[k]
        OBVIOUS
    <2> HIDE DEF g
    <2> QED BY ONLY <2>2, <2>3, <2>4, <2>5
<1> HIDE DEF g
<1>6. Total(c) = g[n]
    BY <1>4, <1>5, TotalIs
<1> QED BY <1>4, <1>6

(* A list that is nowhere smaller. *)
LEMMA TotalGrows ==
    ASSUME NEW a \in Seq(Int), NEW b \in Seq(Int), Len(b) = Len(a),
           \A k \in 1..Len(a) : a[k] <= b[k]
    PROVE  Total(a) <= Total(b)
<1> DEFINE n == Len(a)
<1>1. PICK ha \in [0..n -> Int] : /\ ha[0] = 0 /\ Total(a) = ha[n]
                                  /\ \A k \in 1..n : ha[k] = ha[k - 1] + a[k]
    BY TotalBySteps
<1>2. PICK hb \in [0..n -> Int] : /\ hb[0] = 0 /\ Total(b) = hb[n]
                                  /\ \A k \in 1..n : hb[k] = hb[k - 1] + b[k]
    BY TotalBySteps
<1> DEFINE T == {k \in 0..n : ha[k] <= hb[k]}
<1>3. n \in Nat /\ \A k \in 1..n : a[k] \in Int /\ b[k] \in Int
    OBVIOUS
<1>4. 0 \in T
    BY <1>1, <1>2, <1>3
<1>5. \A k \in 0..n - 1 : k \in T => k + 1 \in T
    <2> SUFFICES ASSUME NEW k \in 0..n - 1, k \in T PROVE k + 1 \in T
        OBVIOUS
    <2>1. k + 1 \in 1..n /\ k + 1 \in 0..n /\ (k + 1) - 1 = k /\ k \in 0..n
        BY <1>3
    <2>2. ha[k] \in Int /\ hb[k] \in Int /\ a[k + 1] \in Int /\ b[k + 1] \in Int /\ ha[k] <= hb[k]
        BY <1>3, <2>1
    <2>3. ha[k + 1] = ha[k] + a[k + 1] /\ hb[k + 1] = hb[k] + b[k + 1] /\ a[k + 1] <= b[k + 1]
        BY <1>1, <1>2, <2>1
    <2>4. ha[k + 1] <= hb[k + 1]
        BY <2>2, <2>3
    <2> QED BY <2>1, <2>4
<1>6. n \in T
    <2> HIDE DEF T, n
    <2>1. \A k \in 0..n : k \in T
        BY <1>3, <1>4, <1>5, InductionUpTo
    <2> QED BY <1>3, <2>1
<1> QED BY <1>1, <1>2, <1>6

(* The rows of a table add up to what its columns add up to. *)
LEMMA TotalsExchange ==
    ASSUME NEW n \in Nat, NEW m \in Nat, NEW M \in [1..n -> [1..m -> Int]]
    PROVE  Total([i \in 1..n |-> Total(M[i])]) = Total([j \in 1..m |-> Total([i \in 1..n |-> M[i][j]])])
<1> DEFINE col(j) == [i \in 1..n |-> M[i][j]]
           Adds(h, j) == /\ h[0] = 0 /\ Total(col(j)) = h[n]
                         /\ \A k \in 1..n : h[k] = h[k - 1] + M[k][j]
           H == [j \in 1..m |-> CHOOSE h \in [0..n -> Int] : Adds(h, j)]
           at(k) == [j \in 1..m |-> H[j][k]]
           g == [k \in 0..n |-> Total(at(k))]
           rows == [i \in 1..n |-> Total(M[i])]
<1>1. ASSUME NEW j \in 1..m PROVE H[j] \in [0..n -> Int] /\ Adds(H[j], j)
    <2>1. col(j) \in Seq(Int) /\ Len(col(j)) = n
        <3>1. col(j) \in [1..n -> Int]
            OBVIOUS
        <3>2. col(j) \in Seq(Int)
            BY <3>1, SeqDef
        <3> QED BY <3>1, <3>2
    <2>2. \A k \in 1..n : col(j)[k] = M[k][j]
        OBVIOUS
    <2>3. \E h \in [0..n -> Int] : Adds(h, j)
        <3> DEFINE c == col(j)
        <3> HIDE DEF c
        <3>1. PICK h \in [0..Len(c) -> Int] : /\ h[0] = 0 /\ Total(c) = h[Len(c)]
                                              /\ \A k \in 1..Len(c) : h[k] = h[k - 1] + c[k]
            BY <2>1, TotalBySteps DEF c
        <3>2. Len(c) = n /\ c = col(j) /\ \A k \in 1..n : c[k] = M[k][j]
            BY <2>1, <2>2 DEF c
        <3>3. Adds(h, j)
            BY <3>1, <3>2
        <3> QED BY <3>1, <3>2, <3>3
    <2> HIDE DEF Adds
    <2> QED BY <2>3
<1>2. ASSUME NEW k \in 0..n PROVE at(k) \in Seq(Int) /\ Len(at(k)) = m
    <2> HIDE DEF H
    <2>1. at(k) \in [1..m -> Int]
        BY <1>1
    <2>2. at(k) \in Seq(Int)
        BY <2>1, SeqDef
    <2> QED BY <2>1, <2>2
<1>3. ASSUME NEW i \in 1..n PROVE M[i] \in Seq(Int) /\ Len(M[i]) = m
    <2>1. M[i] \in [1..m -> Int]
        OBVIOUS
    <2>2. M[i] \in Seq(Int)
        BY <2>1, SeqDef
    <2> QED BY <2>1, <2>2
<1>4. rows \in Seq(Int) /\ Len(rows) = n
    <2>1. rows \in [1..n -> Int]
        BY <1>3, TotalIsInt
    <2>2. rows \in Seq(Int)
        BY <2>1, SeqDef
    <2> QED BY <2>1, <2>2
<1>5. g[0] = 0
    <2>1. 0 \in 0..n
        OBVIOUS
    <2>2. \A j \in 1..Len(at(0)) : at(0)[j] = 0
        <3> HIDE DEF H
        <3> QED BY <1>1, <1>2, <2>1
    <2>3. Total(at(0)) = 0
        <3> DEFINE a == at(0)
        <3> HIDE DEF a
        <3>1. a \in Seq(Int) /\ \A j \in 1..Len(a) : a[j] = 0
            BY <1>2, <2>1, <2>2 DEF a
        <3>2. Total(a) = 0
            BY <3>1, TotalOfZeros
        <3> QED BY <3>2 DEF a
    <2> HIDE DEF at
    <2> QED BY <2>1, <2>3
<1>6. ASSUME NEW k \in 1..n PROVE g[k] = g[k - 1] + rows[k]
    <2>1. k \in 0..n /\ k - 1 \in 0..n
        OBVIOUS
    <2> DEFINE a == at(k - 1)
               b == M[k]
               c == at(k)
    <2>2. \A j \in 1..m : c[j] = a[j] + b[j]
        <3> SUFFICES ASSUME NEW j \in 1..m PROVE H[j][k] = H[j][k - 1] + M[k][j]
            OBVIOUS
        <3>1. Adds(H[j], j)
            BY <1>1
        <3> HIDE DEF H
        <3> QED BY <3>1
    <2>3. a \in Seq(Int) /\ Len(a) = m /\ b \in Seq(Int) /\ Len(b) = m /\ c \in Seq(Int) /\ Len(c) = m
        BY <1>2, <1>3, <2>1
    <2>4. g[k] = Total(c) /\ g[k - 1] = Total(a) /\ rows[k] = Total(b)
        <3> HIDE DEF at
        <3> QED BY <2>1
    <2> HIDE DEF a, b, c
    <2>5. Len(b) = Len(a) /\ Len(c) = Len(a) /\ \A j \in 1..Len(a) : c[j] = a[j] + b[j]
        BY <2>2, <2>3
    <2>6. Total(c) = Total(a) + Total(b)
        BY <2>3, <2>5, TotalOfSums
    <2> QED BY <2>4, <2>6
<1>7. g[n] = Total([j \in 1..m |-> Total(col(j))])
    <2>1. \A j \in 1..m : H[j][n] = Total(col(j))
        BY <1>1
    <2> HIDE DEF H, col
    <2>2. at(n) = [j \in 1..m |-> Total(col(j))]
        BY <2>1
    <2>3. n \in 0..n
        OBVIOUS
    <2> HIDE DEF at
    <2> QED BY <2>2, <2>3
<1>8. Total(rows) = g[n]
    <2> HIDE DEF rows, g
    <2> QED BY <1>4, <1>5, <1>6, TotalIs
<1> QED BY <1>7, <1>8, Zenon

(* One list after the other. *)
LEMMA TotalOfConcat ==
    ASSUME NEW a \in Seq(Int), NEW b \in Seq(Int)
    PROVE  Total(a \o b) = Total(a) + Total(b)
<1> DEFINE n == Len(a)
           m == Len(b)
           c == a \o b
<1>1. PICK ha \in [0..n -> Int] : /\ ha[0] = 0 /\ Total(a) = ha[n]
                                  /\ \A k \in 1..n : ha[k] = ha[k - 1] + a[k]
    BY TotalBySteps
<1>2. PICK hb \in [0..m -> Int] : /\ hb[0] = 0 /\ Total(b) = hb[m]
                                  /\ \A k \in 1..m : hb[k] = hb[k - 1] + b[k]
    BY TotalBySteps
<1>3. n \in Nat /\ m \in Nat /\ (\A k \in 1..n : a[k] \in Int) /\ \A k \in 1..m : b[k] \in Int
    OBVIOUS
<1>4. /\ c \in Seq(Int) /\ Len(c) = n + m
      /\ \A k \in 1..n + m : c[k] = IF k <= n THEN a[k] ELSE b[k - n]
    BY ConcatProperties
<1> HIDE DEF n, m, c
<1> DEFINE g == [k \in 0..n + m |-> IF k <= n THEN ha[k] ELSE ha[n] + hb[k - n]]
<1>5. g[0] = 0
    BY <1>1, <1>3
<1>6. ASSUME NEW k \in 1..n + m PROVE g[k] = g[k - 1] + c[k]
    <2>0. k \in 0..n + m /\ k - 1 \in 0..n + m /\ k \in Int
        BY <1>3
    <2>1. CASE k <= n
        <3>1. k \in 1..n /\ k - 1 <= n
            BY <1>3, <2>0, <2>1
        <3> QED BY <1>1, <1>4, <2>0, <2>1, <3>1
    <2>2. CASE k > n
        <3>1. k - n \in 1..m /\ k - n \in 0..m /\ k - n - 1 \in 0..m /\ (k - 1) - n = k - n - 1 /\ n \in 0..n
            BY <1>3, <2>0, <2>2
        <3>2. b[k - n] \in Int /\ hb[k - n - 1] \in Int /\ ha[n] \in Int
            BY <1>1, <1>2, <1>3, <3>1
        <3>6. c[k] = b[k - n]
            <4>1. ~(k <= n)
                BY <1>3, <2>0, <2>2
            <4> QED BY <1>4, <4>1
        <3>3. hb[k - n] = hb[k - n - 1] + b[k - n]
            BY <1>2, <3>1
        <3>4. g[k] = ha[n] + hb[k - n]
            BY <1>3, <2>0, <2>2
        <3>5. g[k - 1] = ha[n] + hb[k - n - 1]
            <4>1. CASE k - 1 = n
                BY <1>2, <1>3, <2>0, <3>1, <3>2, <4>1
            <4>2. CASE k - 1 > n
                BY <1>3, <2>0, <3>1, <4>2
            <4> QED BY <1>3, <2>0, <2>2, <4>1, <4>2
        <3> HIDE DEF g
        <3> QED BY <3>2, <3>3, <3>4, <3>5, <3>6
    <2> QED BY <1>3, <2>0, <2>1, <2>2
<1>7. g[n + m] = Total(a) + Total(b)
    <2>1. n + m \in 0..n + m /\ n \in 0..n /\ 0 \in 0..m /\ m \in 0..m
        BY <1>3
    <2>2. ha[n] \in Int /\ hb[m] \in Int
        BY <1>1, <1>2, <2>1
    <2>3. CASE m = 0
        BY <1>1, <1>2, <1>3, <2>1, <2>2, <2>3
    <2>4. CASE m > 0
        <3>1. ~(n + m <= n) /\ (n + m) - n = m
            BY <1>3, <2>4
        <3> QED BY <1>1, <1>2, <2>1, <3>1
    <2> QED BY <1>3, <2>3, <2>4
<1> HIDE DEF g
<1>8. Total(c) = g[Len(c)]
    BY <1>4, <1>5, <1>6, TotalIs
<1> QED BY <1>4, <1>7, <1>8 DEF c

(* The values of the elements of a list. *)
Valued(S, v) == v \in [S -> Int]
Values(v, list) == [i \in DOMAIN list |-> v[list[i]]]

LEMMA ValuesAreIn ==
    ASSUME NEW S, NEW v, Valued(S, v), NEW list \in Seq(S)
    PROVE  /\ Values(v, list) \in Seq(Int) /\ Len(Values(v, list)) = Len(list)
           /\ \A k \in 1..Len(list) : Values(v, list)[k] = v[list[k]]
<1>1. /\ Len(list) \in Nat /\ Values(v, list) \in [1..Len(list) -> Int]
      /\ \A k \in 1..Len(list) : Values(v, list)[k] = v[list[k]]
    BY DEF Values, Valued
<1>2. Values(v, list) \in Seq(Int)
    BY <1>1, SeqDef
<1> QED BY <1>1, <1>2

LEMMA ValuesOfConcat ==
    ASSUME NEW S, NEW v, Valued(S, v), NEW a \in Seq(S), NEW b \in Seq(S)
    PROVE  Values(v, a \o b) = Values(v, a) \o Values(v, b)
<1>1. /\ a \o b \in Seq(S) /\ Len(a \o b) = Len(a) + Len(b) /\ Len(a) \in Nat /\ Len(b) \in Nat
      /\ \A k \in 1..Len(a) + Len(b) : (a \o b)[k] = IF k <= Len(a) THEN a[k] ELSE b[k - Len(a)]
    BY ConcatProperties
<1>2. /\ Values(v, a) \in Seq(Int) /\ Len(Values(v, a)) = Len(a)
      /\ \A k \in 1..Len(a) : Values(v, a)[k] = v[a[k]]
    BY ValuesAreIn
<1>3. /\ Values(v, b) \in Seq(Int) /\ Len(Values(v, b)) = Len(b)
      /\ \A k \in 1..Len(b) : Values(v, b)[k] = v[b[k]]
    BY ValuesAreIn
<1> DEFINE va == Values(v, a)
           vb == Values(v, b)
           c == a \o b
           l == Values(v, c)
           r == va \o vb
           n == Len(a)
           m == Len(b)
<1> HIDE DEF c
<1>4. c \in Seq(S)
    BY <1>1 DEF c
<1>5. l \in Seq(Int) /\ Len(l) = Len(c) /\ \A k \in 1..Len(c) : l[k] = v[c[k]]
    BY ONLY Valued(S, v), <1>4, ValuesAreIn
<1> HIDE DEF va, vb
<1>6. va \in Seq(Int) /\ vb \in Seq(Int) /\ Len(va) = n /\ Len(vb) = m
    BY <1>2, <1>3 DEF va, vb
<1>7. /\ r \in Seq(Int) /\ Len(r) = Len(va) + Len(vb)
      /\ \A k \in 1..Len(va) + Len(vb) : r[k] = IF k <= Len(va) THEN va[k] ELSE vb[k - Len(va)]
    <2>1. va \in Seq(Int) /\ vb \in Seq(Int)
        BY <1>6
    <2> QED BY ONLY <2>1, ConcatProperties
<1>8. /\ n \in Nat /\ m \in Nat /\ Len(l) = n + m /\ Len(r) = n + m
      /\ \A k \in 1..n + m : /\ c[k] = (IF k <= n THEN a[k] ELSE b[k - n])
                              /\ r[k] = (IF k <= n THEN va[k] ELSE vb[k - n])
                              /\ l[k] = v[c[k]]
    BY <1>1, <1>5, <1>6, <1>7 DEF c
<1>9. (\A k \in 1..n : va[k] = v[a[k]]) /\ \A k \in 1..m : vb[k] = v[b[k]]
    BY <1>2, <1>3 DEF va, vb
<1> HIDE DEF n, m, l, r
<1>10. \A k \in 1..n + m : l[k] = r[k]
    <2> TAKE k \in 1..n + m
    <2>1. CASE k <= n
        <3>1. k \in 1..n
            BY <1>8, <2>1
        <3>2. c[k] = a[k] /\ r[k] = va[k] /\ va[k] = v[a[k]] /\ l[k] = v[c[k]]
            BY <1>8, <1>9, <2>1, <3>1
        <3> QED BY <3>2
    <2>2. CASE k > n
        <3>1. k - n \in 1..m /\ ~(k <= n)
            BY <1>8, <2>2
        <3>2. c[k] = b[k - n] /\ r[k] = vb[k - n] /\ vb[k - n] = v[b[k - n]] /\ l[k] = v[c[k]]
            BY <1>8, <1>9, <3>1
        <3> QED BY <3>2
    <2> QED BY <1>8, <2>1, <2>2
<1>11. l = [k \in 1..n + m |-> l[k]] /\ r = [k \in 1..n + m |-> r[k]]
    BY <1>5, <1>7, <1>8
<1>12. l = r
    BY <1>10, <1>11
<1> QED BY <1>12 DEF l, r, c, va, vb

LEMMA TotalOfFlatten ==
    ASSUME NEW S, NEW ss \in Seq(Seq(S)), NEW v, Valued(S, v)
    PROVE  Total(Values(v, FlattenSeq(ss))) = Total([k \in DOMAIN ss |-> Total(Values(v, ss[k]))])
<1> DEFINE n == Len(ss)
           tots == [k \in DOMAIN ss |-> Total(Values(v, ss[k]))]
<1>1. PICK h \in [0..n -> Seq(S)] : /\ h[0] = <<>> /\ FlattenSeq(ss) = h[n]
                                    /\ \A k \in 1..n : h[k] = h[k - 1] \o ss[k]
    BY FlattenBySteps
<1>2. n \in Nat /\ DOMAIN ss = 1..n /\ \A k \in 1..n : ss[k] \in Seq(S)
    OBVIOUS
<1>3. tots \in Seq(Int) /\ Len(tots) = n
    <2> HIDE DEF n
    <2>1. tots \in [1..n -> Int]
        BY <1>2, ValuesAreIn, TotalIsInt
    <2>2. tots \in Seq(Int)
        BY <1>2, <2>1, SeqDef
    <2> QED BY <1>2, <2>1, <2>2
<1> HIDE DEF n
<1> DEFINE g == [k \in 0..n |-> Total(Values(v, h[k]))]
<1>4. g[0] = 0
    <2> DEFINE e == Values(v, <<>>)
    <2>1. e \in Seq(Int) /\ \A k \in 1..Len(e) : e[k] = 0
        BY DEF Values
    <2> HIDE DEF e
    <2>2. Total(e) = 0
        BY <2>1, TotalOfZeros
    <2> QED BY <1>1, <1>2, <2>2 DEF e
<1>5. ASSUME NEW k \in 1..n PROVE g[k] = g[k - 1] + tots[k]
    <2>0. k - 1 \in 0..n /\ k \in 0..n
        BY <1>2
    <2> DEFINE a == h[k - 1]
               b == ss[k]
    <2>1. a \in Seq(S) /\ b \in Seq(S) /\ h[k] = a \o b
        BY <1>1, <1>2, <2>0, Zenon
    <2>2. g[k] = Total(Values(v, h[k])) /\ g[k - 1] = Total(Values(v, a)) /\ tots[k] = Total(Values(v, b))
        BY <1>2, <2>0
    <2> HIDE DEF a, b, g, tots
    <2>3. Values(v, h[k]) = Values(v, a) \o Values(v, b)
        <3>1. Values(v, a \o b) = Values(v, a) \o Values(v, b)
            BY ONLY Valued(S, v), <2>1, ValuesOfConcat
        <3> QED BY <2>1, <3>1, Zenon
    <2>4. Values(v, a) \in Seq(Int) /\ Values(v, b) \in Seq(Int)
        BY <2>1, ValuesAreIn
    <2> DEFINE x == Values(v, a)
               y == Values(v, b)
    <2> HIDE DEF x, y
    <2>5. Total(x \o y) = Total(x) + Total(y)
        <3>1. x \in Seq(Int) /\ y \in Seq(Int)
            BY <2>4 DEF x, y
        <3> QED BY ONLY <3>1, TotalOfConcat
    <2> QED BY <2>2, <2>3, <2>5 DEF x, y
<1> HIDE DEF tots
<1>6. g[n] = Total(Values(v, FlattenSeq(ss)))
    BY <1>1, <1>2
<1> HIDE DEF g
<1>7. Total(tots) = g[Len(tots)]
    BY <1>3, <1>4, <1>5, TotalIs
<1> QED BY <1>3, <1>6, <1>7 DEF tots

(* A set that is divided into parts is counted by them. *)
LEMMA CountByParts ==
    ASSUME NEW A, IsFiniteSet(A), NEW n \in Nat, NEW P \in [1..n -> SUBSET A],
           \A i, j \in 1..n : i # j => P[i] \cap P[j] = {},
           \A x \in A : \E i \in 1..n : x \in P[i]
    PROVE  Total([i \in 1..n |-> Cardinality(P[i])]) = Cardinality(A)
<1> DEFINE counts == [i \in 1..n |-> Cardinality(P[i])]
           upto(k) == {x \in A : \E i \in 1..k : x \in P[i]}
           g == [k \in 0..n |-> Cardinality(upto(k))]
<1>1. \A i \in 1..n : P[i] \in SUBSET A /\ IsFiniteSet(P[i]) /\ Cardinality(P[i]) \in Nat
    <2> TAKE i \in 1..n
    <2>1. P[i] \in SUBSET A
        OBVIOUS
    <2>2. IsFiniteSet(P[i])
        BY <2>1, FS_Subset
    <2> QED BY <2>1, <2>2, FS_CardinalityType
<1>2. counts \in Seq(Int) /\ Len(counts) = n
    <2>1. counts \in [1..n -> Int]
        BY <1>1
    <2>2. counts \in Seq(Int)
        BY <2>1, SeqDef
    <2> QED BY <2>1, <2>2
<1>3. g[0] = 0
    <2>1. upto(0) = {}
        OBVIOUS
    <2>2. Cardinality({}) = 0 /\ 0 \in 0..n
        BY FS_EmptySet
    <2> HIDE DEF upto
    <2> QED BY <2>1, <2>2
<1>4. ASSUME NEW k \in 1..n PROVE g[k] = g[k - 1] + counts[k]
    <2> DEFINE U == upto(k - 1)
               Q == P[k]
    <2>1. upto(k) = U \cup Q
        BY <1>1
    <2>2. U \cap Q = {}
        OBVIOUS
    <2>3. IsFiniteSet(U) /\ IsFiniteSet(Q) /\ Cardinality(Q) \in Nat
        <3>1. U \in SUBSET A
            OBVIOUS
        <3> HIDE DEF U
        <3>2. IsFiniteSet(U)
            BY <3>1, FS_Subset
        <3> QED BY <1>1, <3>2
    <2>4. g[k] = Cardinality(upto(k)) /\ g[k - 1] = Cardinality(U) /\ counts[k] = Cardinality(Q)
        <3>1. k \in 0..n /\ k - 1 \in 0..n
            OBVIOUS
        <3> HIDE DEF upto
        <3> QED BY <3>1
    <2> HIDE DEF U, Q, g, counts, upto
    <2>5. Cardinality(U \cup Q) = Cardinality(U) + Cardinality(Q) - Cardinality(U \cap Q)
        BY <2>3, FS_Union
    <2>6. Cardinality(U) \in Nat /\ Cardinality(U \cap Q) = 0
        BY <2>2, <2>3, FS_CardinalityType, FS_EmptySet
    <2> QED BY <2>1, <2>3, <2>4, <2>5, <2>6
<1>5. g[n] = Cardinality(A)
    <2>1. upto(n) = A
        OBVIOUS
    <2>2. n \in 0..n
        OBVIOUS
    <2> HIDE DEF upto
    <2> QED BY <2>1, <2>2
<1> HIDE DEF g, counts
<1>6. Total(counts) = g[Len(counts)]
    BY <1>2, <1>3, <1>4, TotalIs
<1> QED BY <1>2, <1>5, <1>6 DEF counts
=============================================================================
