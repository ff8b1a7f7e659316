----------------------------- MODULE RangeCache -----------------------------
(***************************************************************************)
(* The store through which the viewer reads one remote file                *)
(* (storage/object_store_cache.rs): a cache of the exact ranges that were  *)
(* asked for.  get_ranges looks the ranges up under the lock, gives the    *)
(* lock back, fetches what is missing, a request each and all at a time,   *)
(* and takes the lock again to keep what came.  Nothing is ever dropped,   *)
(* and a republished file is not noticed: bytes are known by the version   *)
(* of the file they are of.                                                *)
(***************************************************************************)
EXTENDS Integers, Sequences, SequencesExt

CONSTANTS
    Ranges,    \* the ranges of the file that are asked for
    MaxVersion \* bound: versions of the file

VARIABLES
    version, \* of the file on the server
    cache,   \* the version of the bytes of each range in the cache
    calls    \* the calls of get_ranges in flight, by caller

cacheVars == <<version, cache, calls>>

None == 0 \* no bytes: Option::None, or no answer yet
Lost == -1 \* a request that has failed

CacheInit == version = 1 /\ cache = [r \in {} |-> None] /\ calls = [c \in {} |-> <<>>]

-----------------------------------------------------------------------------
LookedUp(ranges, kept) ==
    [i \in DOMAIN ranges |-> IF ranges[i] \in DOMAIN kept THEN kept[ranges[i]] ELSE None]

(* Mutant: a range that is asked for twice is fetched once. *)
MissingOnce(ranges, kept) == SetToSeq({r \in ToSet(ranges) : r \notin DOMAIN kept})

(* The ranges without an entry, in order, each as often as it is asked.    *)
Missing(ranges, kept) ==
    FoldLeft(LAMBDA missing, r : IF r \in DOMAIN kept THEN missing ELSE Append(missing, r), <<>>, ranges)

(* The first part of get_ranges, with what the cache holds then. *)
Asked(ranges, kept) ==
    [ranges |-> ranges, results |-> LookedUp(ranges, kept), missing |-> Missing(ranges, kept),
     fetched |-> [k \in DOMAIN Missing(ranges, kept) |-> None]]

Call(caller, ranges) ==
    calls' = [c \in DOMAIN calls \cup {caller} |-> IF c = caller THEN Asked(ranges, cache) ELSE calls[c]]

(* The server answers the k-th request of a call, or it fails. *)
FetchAnswers(caller, k) ==
    /\ calls[caller].fetched[k] = None
    /\ \E answer \in {version, Lost} : calls' = [calls EXCEPT ![caller].fetched[k] = answer]
    /\ UNCHANGED <<version, cache>>

Republish == version < MaxVersion /\ version' = version + 1 /\ UNCHANGED <<cache, calls>>

AllAnswered(call) == \A k \in DOMAIN call.fetched : call.fetched[k] # None

(* The requests before the first that failed: the rest is neither kept nor *)
(* used, and the call fails.                                               *)
Taken(call) ==
    LET lost == SelectInSeq(call.fetched, LAMBDA answer : answer = Lost)
    IN IF lost = 0 THEN DOMAIN call.fetched ELSE 1..lost - 1
CallFails(call) == Taken(call) # DOMAIN call.fetched

(* The results: each answer goes to the first result of its range that has *)
(* none.                                                                   *)
Filled(call) ==
    FoldLeftDomain(LAMBDA results, k :
        LET empty == {i \in DOMAIN results : call.ranges[i] = call.missing[k] /\ results[i] = None}
        IN IF empty = {} THEN results ELSE [results EXCEPT ![Min(empty)] = call.fetched[k]],
        call.results, call.fetched)

(* The last part of get_ranges: what the cache has then.  Of two calls     *)
(* that fetched one range, the later leaves its bytes.                     *)
Kept(call) ==
    LET kept == {call.missing[k] : k \in Taken(call)}
        LastOf(r) == CHOOSE k \in Taken(call) : /\ call.missing[k] = r
                                                /\ \A l \in Taken(call) : call.missing[l] = r => l <= k
    IN [r \in DOMAIN cache \cup kept |-> IF r \in kept THEN call.fetched[LastOf(r)] ELSE cache[r]]

Return(caller) ==
    /\ AllAnswered(calls[caller])
    /\ cache' = Kept(calls[caller])
    /\ calls' = [c \in DOMAIN calls \ {caller} |-> calls[c]]
    /\ UNCHANGED version

(* The caller is dropped while it waits. *)
Forget(callers) == calls' = [c \in DOMAIN calls \ callers |-> calls[c]] /\ UNCHANGED <<version, cache>>

-----------------------------------------------------------------------------
(* Properties *)

(* A call that does not fail has bytes for every range it was asked for,   *)
(* also for one that it was asked for twice: the last unwrap finds none    *)
(* missing.  An answer is the cache's of the start, or a fetched one of    *)
(* its very range; while the file was not republished it is the file's.    *)
AnswersAreOfTheirRanges ==
    /\ \A c \in DOMAIN calls :
         LET call == calls[c]
         IN AllAnswered(call) /\ ~CallFails(call) =>
              \A i \in DOMAIN call.ranges :
                 /\ Filled(call)[i] \in 1..version
                 /\ \/ Filled(call)[i] = call.results[i]
                    \/ \E k \in DOMAIN call.missing :
                          call.missing[k] = call.ranges[i] /\ Filled(call)[i] = call.fetched[k]
    /\ \A r \in DOMAIN cache : cache[r] \in 1..version
=============================================================================
