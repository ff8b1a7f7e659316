---------------------------- MODULE VersionedRead ----------------------------
(***************************************************************************)
(* What the object store promises its callers (the module comment of       *)
(* case-search/src/store.rs): a file that may be republished at any time   *)
(* is read as if it were the one version that was opened first, or the     *)
(* read fails.  No cache, no requests and no order of answers is visible.  *)
(***************************************************************************)
EXTENDS ByteRanges

CONSTANTS Readers, Calls, LastVersion, Size

VARIABLES
    published, \* the version the server has now
    opened,    \* the version all reads are answered from, 0 when none yet
    busy,      \* busy[r]: whether r waits for an answer
    call,      \* call[r]: what r asked for last
    answer     \* answer[r]: what r was told last

vars == <<published, opened, busy, call, answer>>

NoVersion == 0
NoValue == [range \in {} |-> << >>]

(* The bytes version v has where call c asks for them. *)
Bytes(c, v) == [range \in RangesOf(c, Size[v]) |-> [o \in Offsets(range) |-> <<v, o>>]]

ReachesPast(c, v) == \E range \in NonEmpty(RangesOf(c, Size[v])) : range.end > Size[v]

(* A read is answered with exactly the bytes of the opened version ... *)
Fulfilled(c, v) ==
    IF v # NoVersion /\ InRange(c, Size[v]) /\ ~ReachesPast(c, v)
    THEN {[error |-> "none", value |-> Bytes(c, v)]} ELSE {}

(* ... or refused: for a failure of the network or the server, because the *)
(* caller gave up, because the file really is another one now, or because  *)
(* the call asks for bytes the opened version does not have.               *)
Refused(c, v) ==
    {[error |-> e, value |-> NoValue] : e \in
        {"failed", "dropped"}
        \cup (IF v # NoVersion /\ v # published THEN {"stale"} ELSE {})
        \cup (IF v # NoVersion /\ ~InRange(c, Size[v]) THEN {"out_of_range"} ELSE {})
        \cup (IF v # NoVersion /\ ReachesPast(c, v) THEN {"incomplete"} ELSE {})}

Init ==
    /\ published = 1
    /\ opened = NoVersion
    /\ busy = [r \in Readers |-> FALSE]
    /\ call = [r \in Readers |-> CHOOSE c \in Calls : TRUE]
    /\ answer = [r \in Readers |-> [error |-> "none", value |-> NoValue]]

Republish ==
    /\ published < LastVersion
    /\ published' = published + 1
    /\ UNCHANGED <<opened, busy, call, answer>>

(* The first answer decides the version, once and for all. *)
Open == opened' = opened \/ (opened = NoVersion /\ opened' \in 1 .. published)

WaitOrAnswer(r, c) ==
    \/ busy' = [busy EXCEPT ![r] = TRUE] /\ UNCHANGED answer
    \/ /\ busy' = [busy EXCEPT ![r] = FALSE]
       /\ \E a \in Fulfilled(c, opened') \cup Refused(c, opened') :
            answer' = [answer EXCEPT ![r] = a]

Ask(r) ==
    /\ ~busy[r]
    /\ \E c \in Calls : call' = [call EXCEPT ![r] = c] /\ WaitOrAnswer(r, c)
    /\ UNCHANGED <<published, opened>>

Answer(r) ==
    /\ busy[r]
    /\ Open
    /\ WaitOrAnswer(r, call[r])
    /\ UNCHANGED <<published, call>>

Next == Republish \/ \E r \in Readers : Ask(r) \/ Answer(r)

Spec == Init /\ [][Next]_vars
=============================================================================
