--------------------------- MODULE HttpRangeStore ---------------------------
(***************************************************************************)
(* The read-only object store of the case search (case-search/src/store.rs)*)
(* for one object, the server it reads from, and the readers DataFusion    *)
(* runs on it concurrently.                                                *)
(*                                                                         *)
(* The store runs on the one thread of the browser page (wasm), so what    *)
(* happens between two awaits is one step here.  The awaits are the HTTP   *)
(* requests: a request is on `wire` from the moment it is sent, the server *)
(* answers it at any later moment with the version it then publishes, and  *)
(* the answer reaches the reader at any moment after that, so answers are  *)
(* reordered across requests and a republication falls between any two.    *)
(*                                                                         *)
(* A byte is the pair of the version it was published in and its offset in *)
(* that version, so both a mix of versions and a misplaced byte are seen.  *)
(***************************************************************************)
EXTENDS SegmentMap

CONSTANTS
    Readers,       \* the concurrent callers of get_opts and get_ranges
    Calls,         \* the calls they make
    LastVersion,   \* bound: how often the file is published
    Size,          \* the size of each version
    TailLength,    \* TAIL_PREFETCH_BYTES
    Exposed,       \* the response headers the page may read
    MayIgnoreRanges, \* the server may answer a range with the whole body
    OpenFirst      \* callers wait for a first read before reading concurrently

Versions == 1 .. LastVersion
Headers == {"etag", "last_modified", "content_range", "content_length"}

ASSUME VersionsExist == LastVersion \in Nat \ {0}
ASSUME SizesArePositive == Size \in [Versions -> Nat \ {0}]
ASSUME TailIsPositive == TailLength \in Nat \ {0}
ASSUME HeadersAreKnown == Exposed \subseteq Headers
ASSUME CallsAreTyped ==
    /\ Calls # {}
    /\ \A c \in Calls :
        /\ c.op \in {"head", "ranges", "bounded", "suffix", "offset", "whole"}
        /\ c.range \in [start : Nat, end : Nat]
        /\ c.ranges \subseteq [start : Nat, end : Nat] /\ IsFiniteSet(c.ranges)
ASSUME FlagsAreBoolean == MayIgnoreRanges \in BOOLEAN /\ OpenFirst \in BOOLEAN

VARIABLES
    published, \* the version the server has now
    object,    \* the store's entry in `objects`: NoObject or a CachedObject
    pc,        \* pc[r]: the await reader r is suspended at
    call,      \* call[r]: the call r is making
    meta,      \* meta[r]: the (size, version) object_meta gave to r
    wire,      \* wire[r]: r's outstanding requests and the server's answers
    answer     \* answer[r]: what r's last call returned

vars == <<published, object, pc, call, meta, wire, answer>>

-----------------------------------------------------------------------------
(* The server, as the fetcher of the tests describes it (MemoryFetcher).   *)

NoVersion == 0
Byte(v, o) == <<v, o>>

SuffixRequest == [kind |-> "suffix", range |-> Span(0, 0)]
HeadRequest == [kind |-> "head", range |-> Span(0, 0)]
BoundedRequest(range) == [kind |-> "bounded", range |-> range]

Pending == [status |-> 0, version |-> NoVersion, range |-> Span(0, 0)]
Failure == [status |-> 404, version |-> NoVersion, range |-> Span(0, 0)]
NoRequests == [request \in {} |-> Pending]
Reply(status, v, range) == [status |-> status, version |-> v, range |-> range]

(* The server's answer to a request at a time when it publishes v, which   *)
(* is the whole body for a HEAD request or when it ignores the range.      *)
Serve(request, v, whole) ==
    IF request.kind = "head" \/ whole THEN Reply(200, v, Span(0, Size[v]))
    ELSE IF request.kind = "suffix" THEN Reply(206, v, Span(Max({0, Size[v] - TailLength}), Size[v]))
    ELSE IF request.range.start >= Size[v] THEN Reply(416, v, Span(0, 0))
    ELSE Reply(206, v, Span(request.range.start, Min({request.range.end, Size[v]})))

(* What it may answer while it publishes v. *)
Served(request, v) == {Serve(request, v, whole) : whole \in {FALSE, MayIgnoreRanges}}

(* The page can tell versions apart. *)
VersionIsExposed == Exposed \cap {"etag", "last_modified"} # {}

(* ByteResponse::version: the ETag, else Last-Modified, else nothing. *)
VersionOf(reply) == IF VersionIsExposed THEN reply.version ELSE NoVersion

(* request: any status but 200 and 206 is an error. *)
Succeeded(reply) == reply.status \in {200, 206}

(* segment_position: a 206 whose Content-Range is hidden has none. *)
HasPosition(reply) == reply.status = 200 \/ "content_range" \in Exposed

(* The bytes of a reply, placed at offset start of the object. *)
Placed(reply, start) ==
    LET end == start + (reply.range.end - reply.range.start)
    IN  [end |-> end,
         at  |-> [o \in start .. (end - 1) |->
                     Byte(reply.version, reply.range.start + (o - start))]]

-----------------------------------------------------------------------------
(* CachedObject, and what a call returns. *)

NoObject == [size |-> 0, version |-> NoVersion, segments |-> EmptyMap]
CachedObject(size, version, segs) == [size |-> size, version |-> version, segments |-> segs]
Registered == object.size # 0 \* a published file is never empty

NoMeta == [size |-> 0, version |-> NoVersion]

NoValue == [range \in {} |-> << >>]
Ok(value) == [error |-> "none", value |-> value]
Err(kind) == [error |-> kind, value |-> NoValue]

Active(r) == pc[r] \in {"tail", "head", "fetch"}

(* The tail of read_ranges: every range is cut out of one cached segment.  *)
CutOut(segs, ranges) ==
    IF \A range \in NonEmpty(ranges) : HasSlice(segs, range)
    THEN Ok([range \in ranges |-> Slice(segs, range)])
    ELSE Err("missing")

-----------------------------------------------------------------------------
Init ==
    /\ published = 1
    /\ object = NoObject
    /\ pc = [r \in Readers |-> "idle"]
    /\ call = [r \in Readers |-> CHOOSE c \in Calls : TRUE]
    /\ meta = [r \in Readers |-> NoMeta]
    /\ wire = [r \in Readers |-> NoRequests]
    /\ answer = [r \in Readers |-> Ok(NoValue)]

(* The file is deployed again, as another version. *)
Republish ==
    /\ published < LastVersion
    /\ published' = published + 1
    /\ UNCHANGED <<object, pc, call, meta, wire, answer>>

Send(r, await, requests) ==
    /\ pc' = [pc EXCEPT ![r] = await]
    /\ wire' = [wire EXCEPT ![r] = [request \in requests |-> Pending]]

Return(r, result) ==
    /\ pc' = [pc EXCEPT ![r] = "idle"]
    /\ wire' = [wire EXCEPT ![r] = NoRequests]
    /\ meta' = [meta EXCEPT ![r] = NoMeta]
    /\ answer' = [answer EXCEPT ![r] = result]

(* Mutant: waits for fetches even when there are none. *)
PlanWaits(r, c, entry) ==
    LET fetches == {BoundedRequest(range) :
                        range \in RangesToFetch(entry.segments, NonEmpty(RangesOf(c, entry.size)))}
    IN  IF ~InRange(c, entry.size) THEN Return(r, Err("out_of_range"))
        ELSE /\ Send(r, "fetch", fetches)
             /\ meta' = [meta EXCEPT ![r] = [size |-> entry.size, version |-> entry.version]]
             /\ UNCHANGED answer

(* What follows object_meta in get_opts and read_ranges, up to the next    *)
(* await: the range is resolved, the uncached ranges are planned and all   *)
(* of them requested (try_join_all).                                       *)
Plan(r, c, entry) ==
    LET ranges == RangesOf(c, entry.size)
        fetches == {BoundedRequest(range) : range \in RangesToFetch(entry.segments, NonEmpty(ranges))}
    IN  IF ~InRange(c, entry.size) THEN Return(r, Err("out_of_range"))
        ELSE IF fetches = {} THEN Return(r, CutOut(entry.segments, ranges))
        ELSE /\ Send(r, "fetch", fetches)
             /\ meta' = [meta EXCEPT ![r] = [size |-> entry.size, version |-> entry.version]]
             /\ UNCHANGED answer

(* A caller starts a call.  object_meta asks for the tail of an object     *)
(* that is not registered yet.                                             *)
Begin(r) ==
    /\ pc[r] = "idle"
    /\ OpenFirst => Registered \/ \A q \in Readers : ~Active(q)
    /\ \E c \in Calls :
        /\ call' = [call EXCEPT ![r] = c]
        /\ IF Registered THEN Plan(r, c, object)
           ELSE Send(r, "tail", {SuffixRequest}) /\ UNCHANGED <<meta, answer>>
    /\ UNCHANGED <<published, object>>

(* The server answers a request, or the network or the server fails it. *)
Respond(r) ==
    /\ \E request \in DOMAIN wire[r] :
        /\ wire[r][request] = Pending
        /\ \E reply \in Served(request, published) \cup {Failure} :
            wire' = [wire EXCEPT ![r][request] = reply]
    /\ UNCHANGED <<published, object, pc, call, meta, answer>>

Answered(r) == {request \in DOMAIN wire[r] : wire[r][request] # Pending}

(* The end of object_meta: an entry another reader registered meanwhile is *)
(* kept, and the tail is inserted into whichever entry is there.           *)
Register(r, size, version, segs) ==
    LET entry == IF Registered THEN CachedObject(object.size, object.version, segs)
                 ELSE CachedObject(size, version, segs)
    IN  object' = entry /\ Plan(r, call[r], entry)

DeliverTail(r) ==
    /\ pc[r] = "tail"
    /\ \E request \in Answered(r) :
        LET tail == wire[r][request]
            start == tail.range.start
        IN  IF ~Succeeded(tail) THEN Return(r, Err("failed")) /\ UNCHANGED object
            ELSE IF HasPosition(tail)
            THEN Register(r, Size[tail.version], VersionOf(tail),
                          Insert(object.segments, start, Placed(tail, start)))
            ELSE Send(r, "head", {HeadRequest}) /\ UNCHANGED <<object, meta, answer>>
    /\ UNCHANGED <<published, call>>

(* The tail was dropped; HEAD gives the size and the version. *)
DeliverHead(r) ==
    /\ pc[r] = "head"
    /\ \E request \in Answered(r) :
        LET head == wire[r][request]
        IN  IF ~Succeeded(head) \/ "content_length" \notin Exposed
            THEN Return(r, Err("failed")) /\ UNCHANGED object
            ELSE Register(r, Size[head.version], VersionOf(head), object.segments)
    /\ UNCHANGED <<published, call>>

(* Mutant: the version is not compared. *)
IsStaleBySize(m, reply) == HasPosition(reply) /\ Size[reply.version] # m.size

(* fetch_segment: the version differs from the one object_meta returned, when *)
(* both are known, or the size does.                                       *)
IsStale(m, reply) ==
    \/ m.version # NoVersion /\ VersionOf(reply) # NoVersion
       /\ VersionOf(reply) # m.version
    \/ HasPosition(reply) /\ Size[reply.version] # m.size

(* Mutant: a whole body is placed where the range was asked for. *)
StartAsAsked(reply, range) == range.start

(* Where fetch_segment places a reply to a request for range. *)
StartOf(reply, range) == IF HasPosition(reply) THEN reply.range.start ELSE range.start

IsIncomplete(reply, range) ==
    LET start == StartOf(reply, range)
    IN  start > range.start \/ Placed(reply, start).end < range.end

(* One of the fetches of read_ranges completes.  The first error ends the  *)
(* call and drops the other fetches; the last success cuts the ranges out. *)
DeliverRange(r) ==
    /\ pc[r] = "fetch"
    /\ \E request \in Answered(r) :
        LET reply == wire[r][request]
            start == StartOf(reply, request.range)
            segs  == Insert(object.segments, start, Placed(reply, start))
        IN  IF ~Succeeded(reply) THEN Return(r, Err("failed")) /\ UNCHANGED object
            ELSE IF IsStale(meta[r], reply) THEN Return(r, Err("stale")) /\ UNCHANGED object
            ELSE IF IsIncomplete(reply, request.range)
                 THEN Return(r, Err("incomplete")) /\ UNCHANGED object
            ELSE /\ object' = CachedObject(object.size, object.version, segs)
                 /\ IF DOMAIN wire[r] = {request}
                    THEN Return(r, CutOut(segs, RangesOf(call[r], meta[r].size)))
                    ELSE /\ wire' = [wire EXCEPT ![r] = Restrict(@, DOMAIN @ \ {request})]
                         /\ UNCHANGED <<pc, meta, answer>>
    /\ UNCHANGED <<published, call>>

(* DataFusion drops a read it no longer needs, wherever it is suspended. *)
Drop(r) ==
    /\ Active(r)
    /\ Return(r, Err("dropped"))
    /\ UNCHANGED <<published, object, call>>

Next ==
    \/ Republish
    \/ \E r \in Readers :
        Begin(r) \/ Respond(r) \/ DeliverTail(r) \/ DeliverHead(r) \/ DeliverRange(r) \/ Drop(r)

Spec == Init /\ [][Next]_vars

(* Every request is answered or failed, and every answer is delivered: the *)
(* page's event loop runs every ready task.                                *)
Fairness == \A r \in Readers :
    WF_vars(Respond(r)) /\ WF_vars(DeliverTail(r) \/ DeliverHead(r) \/ DeliverRange(r))

FairSpec == Spec /\ Fairness

(* The cache, the requests and the awaits are hidden: what is left is the  *)
(* promise of VersionedRead.                                               *)
Promise == INSTANCE VersionedRead WITH
    opened <- object.version,
    busy <- [r \in Readers |-> Active(r)]
-----------------------------------------------------------------------------
(* Properties.                                                             *)

(* The server's replies are either outstanding, failed, or what it serves  *)
(* for some version.                                                       *)
Replies(request) == {Pending, Failure} \cup UNION {Served(request, v) : v \in Versions}

TypeOK ==
    /\ published \in Versions
    /\ object.size \in Nat
    /\ object.version \in {NoVersion} \cup Versions
    /\ pc \in [Readers -> {"idle", "tail", "head", "fetch"}]
    /\ call \in [Readers -> Calls]
    /\ meta \in [Readers -> [size : Nat, version : {NoVersion} \cup Versions]]
    /\ DOMAIN wire = Readers /\ DOMAIN answer = Readers
    /\ \A r \in Readers : \A request \in DOMAIN wire[r] :
        wire[r][request] \in Replies(request)

(* The cached segments never overlap, never touch, and hold a byte for     *)
(* every offset they span (the comment on CachedObject::segments), however *)
(* the answers of concurrent readers are interleaved.                      *)
SegmentsStayApart == WellFormed(object.segments) /\ Separated(object.segments)

IsFetch(request) ==
    /\ request.kind = "bounded"
    /\ request.range.start \in Nat /\ request.range.end \in Nat
    /\ request.range.start < request.range.end

(* The requests a reader waits for are those of the await it is at, and a  *)
(* reader that fetches holds the size and version of the store's entry.    *)
AwaitsMatch ==
    \A r \in Readers :
        /\ pc[r] = "tail" => DOMAIN wire[r] = {SuffixRequest}
        /\ pc[r] = "head" => DOMAIN wire[r] = {HeadRequest}
        /\ pc[r] = "fetch" =>
            /\ Registered /\ meta[r] = [size |-> object.size, version |-> object.version]
            /\ \A request \in DOMAIN wire[r] : IsFetch(request)

(* Inductive, and what SegmentsStayApart rests on. *)
CacheInv == TypeOK /\ AwaitsMatch /\ SegmentsStayApart

(* As long as the object is not registered, at most the first reader is    *)
(* active and no call has returned a byte; from then on the entry is that  *)
(* of one version.                                                         *)
FirstReadOpens ==
    /\ ~Registered =>
        /\ object = NoObject
        /\ \A r, q \in Readers : Active(r) /\ Active(q) => r = q
        /\ \A r \in Readers : DOMAIN answer[r].value = {}
    /\ Registered =>
        /\ \A r \in Readers : pc[r] \in {"idle", "fetch"}
        /\ object.version \in Versions /\ object.size = Size[object.version]

(* The cache never mixes versions: every byte held is the byte the opened  *)
(* version has at that offset.                                             *)
NeverMixesVersions ==
    Registered =>
        \A entry \in Content(object.segments) : entry[2] = Byte(object.version, entry[1])

(* What a call returns is, for every range it asked for, the bytes of the  *)
(* opened version at the offsets asked for.                                *)
AnswersAreExact ==
    \A r \in Readers : \A range \in DOMAIN answer[r].value : \A o \in Offsets(range) :
        answer[r].value[range][o] = Byte(object.version, o)

(* Inductive together with CacheInv when the first read is made alone and  *)
(* versions can be told apart.                                             *)
VersionInv == FirstReadOpens /\ NeverMixesVersions /\ AnswersAreExact

(* An answer that was received and not delivered yet is the server's of    *)
(* some time since the object was opened.                                  *)
RepliesAreRecent ==
    /\ object.version <= published
    /\ \A r \in Readers : Active(r) =>
        \A request \in DOMAIN wire[r] : Succeeded(wire[r][request]) =>
            object.version <= wire[r][request].version /\ wire[r][request].version <= published

(* What is cached lies within the opened version. *)
CacheIsWithinTheFile ==
    Registered => \A o \in Cached(object.segments) : o < object.size

(* Every byte the call asks for is cached, by whichever reader, or one of  *)
(* the requests covers it; and no request reaches past all of the ranges   *)
(* that were asked for.                                                    *)
Covers(c, size, segs, requests) ==
    LET asked == NonEmpty(RangesOf(c, size))
    IN  /\ InRange(c, size)
        /\ \A range \in asked : \A o \in Offsets(range) :
              o \in Cached(segs) \/ \E request \in requests : o \in Offsets(request.range)
        /\ \A request \in requests : \E range \in asked : request.range.end <= range.end

(* A suspended read misses nothing. *)
PlansCoverTheCall ==
    \A r \in Readers : pc[r] = "fetch" =>
        Covers(call[r], object.size, object.segments, DOMAIN wire[r])

(* Inductive together with CacheInv and VersionInv, and what the promise   *)
(* of VersionedRead rests on.                                              *)
ReadInv == RepliesAreRecent /\ CacheIsWithinTheFile /\ PlansCoverTheCall

(* What is cached stays cached, and is never overwritten by other bytes,   *)
(* so a later read of the same range needs no request and sees the same.   *)
CacheOnlyGrows ==
    [][Content(object.segments) \subseteq Content(object'.segments)]_vars

(* Callers that read through the cache cannot tell it from reading the one *)
(* version that was opened first: the store implements its promise.  Among *)
(* what the promise rules out is the error "range is missing after         *)
(* fetching" at the end of read_ranges: a call whose fetches all succeeded *)
(* finds every range it asked for in one cached segment.                   *)
ImplementsPromise == Promise!Spec

(* Every call ends, whatever the server does and whenever it republishes.  *)
EveryCallEnds == \A r \in Readers : Active(r) ~> ~Active(r)
=============================================================================
