---------------------------- MODULE SearchSession ----------------------------
(***************************************************************************)
(* The search session of the report page (createCaseSearchSession in       *)
(* site/src/lib/search.ts) over the DataFusion clients it creates          *)
(* (site/src/lib/caseSearchEngine.ts, case-search/src/engine.rs).          *)
(*                                                                         *)
(* All searches of a session share the variable `client`; a search that    *)
(* meets a republished file replaces it, registers the table on the new    *)
(* client, counts its rows and runs again - on whatever `client` is by     *)
(* then.  One action is what runs between two awaits.  A client reads as   *)
(* module VersionedRead promises: everything from the version its store    *)
(* opened, or an error.                                                    *)
(***************************************************************************)
EXTENDS Integers, Sequences, SequencesExt

CONSTANTS
    Searches,     \* the searches that can be in flight at once
    Opener,       \* createCaseSearchSession itself
    LastVersion,  \* bound: how often the file is published
    Failures,     \* a subset of BOOLEAN: whether requests to the server can fail
    Overlaps      \* a subset of BOOLEAN: whether searches can overlap

ASSUME OpenerIsNoSearch == Opener \notin Searches
ASSUME LastVersionIsPositive == LastVersion \in Nat \ {0}
ASSUME FlagsAreBoolean == Failures \subseteq BOOLEAN /\ Overlaps \subseteq BOOLEAN

Tasks == Searches \cup {Opener}
Versions == 1 .. LastVersion
NoVersion == 0

VARIABLES
    published, \* the version the server has now
    loaded,    \* whether the WebAssembly module is loaded (initPromise)
    clients,   \* the clients created so far
    client,    \* the index of the session's client, 0 before the first
    rowCount,  \* session.rowCount, given by the version it was counted in
    ready,     \* the session has been returned to the page
    pc,        \* pc[t]: the await t is at
    stage,     \* stage[t]: t's first run, its reopening, or its second run
    on,        \* on[t]: the client t is waiting for
    result,    \* result[t]: how t's last search ended
    failing,   \* requests can fail
    overlap,   \* a search may start while another one is in flight
    newest,    \* ghost: the newest version a search was answered from
    since,     \* ghost: `newest` when search t started
    noticed    \* ghost: `published` when search t last met a stale file

chosen == <<failing, overlap>>
vars == <<published, loaded, clients, client, rowCount, ready, pc, stage, on, result,
          chosen, newest, since, noticed>>

-----------------------------------------------------------------------------
(* Mutant: the cache mode is not passed on. *)
NewClientDefault(mode) == [mode |-> "default", table |-> FALSE, version |-> NoVersion]

NewClient(mode) == [mode |-> mode, table |-> FALSE, version |-> NoVersion]

(* rangeFetcher: with cache mode "reload" a response is the server's own,  *)
(* with "default" the browser may have kept it from an earlier version.    *)
Reachable(mode) == IF mode = "reload" THEN {published} ELSE 1 .. published

(* A fetch may be answered with another version than the one opened. *)
MayBeStale(c) == \E v \in Reachable(clients[c].mode) : v # clients[c].version

Init ==
    /\ published \in Versions
    /\ loaded = FALSE /\ clients = << >> /\ client = 0
    /\ rowCount = NoVersion /\ ready = FALSE
    /\ pc = [t \in Tasks |-> IF t = Opener THEN "create" ELSE "idle"]
    /\ stage = [t \in Tasks |-> "first"]
    /\ on = [t \in Tasks |-> 0]
    /\ result = [t \in Tasks |-> [error |-> "none", version |-> NoVersion]]
    /\ failing \in Failures /\ overlap \in Overlaps
    /\ newest = NoVersion
    /\ since = [t \in Tasks |-> NoVersion]
    /\ noticed = [t \in Tasks |-> NoVersion]

Republish ==
    /\ published < LastVersion
    /\ published' = published + 1
    /\ UNCHANGED <<loaded, clients, client, rowCount, ready, pc, stage, on, result,
                   newest, since, noticed>>

(* The store of a client gets its first response while t registers it. *)
OpenStore(t) ==
    /\ pc[t] = "register" /\ clients[on[t]].version = NoVersion
    /\ \E v \in Reachable(clients[on[t]].mode) :
        clients' = [clients EXCEPT ![on[t]].version = v]
    /\ UNCHANGED <<published, loaded, client, rowCount, ready, pc, stage, on, result,
                   newest, since, noticed>>

-----------------------------------------------------------------------------
End(t, error, v) ==
    /\ pc' = [pc EXCEPT ![t] = "idle"]
    /\ stage' = [stage EXCEPT ![t] = "first"]
    /\ on' = [on EXCEPT ![t] = 0]
    /\ result' = [result EXCEPT ![t] = [error |-> error, version |-> v]]

(* The run passed to withFreshIndexOnChange starts on client c, as stage s: *)
(* a search is planned, which needs the table; the opener registers it     *)
(* (again).                                                                *)
Run(t, s, c) ==
    IF t = Opener
    THEN /\ pc' = [pc EXCEPT ![t] = "register"]
         /\ stage' = [stage EXCEPT ![t] = s] /\ on' = [on EXCEPT ![t] = c]
         /\ clients' = [clients EXCEPT ![c].table = FALSE]
         /\ UNCHANGED result
    ELSE /\ UNCHANGED clients
         /\ IF clients[c].table
            THEN /\ pc' = [pc EXCEPT ![t] = "query"]
                 /\ stage' = [stage EXCEPT ![t] = s] /\ on' = [on EXCEPT ![t] = c]
                 /\ UNCHANGED result
            ELSE End(t, "no_table", NoVersion)

(* Mutant: the index is reopened on the client that found it stale. *)
RejectedOnSameClient(t, error) ==
    /\ IF error = "stale"
       THEN /\ pc' = [pc EXCEPT ![t] = "register"]
            /\ stage' = [stage EXCEPT ![t] = "reopen"]
            /\ noticed' = [noticed EXCEPT ![t] = published]
            /\ UNCHANGED <<on, result>>
       ELSE End(t, error, NoVersion) /\ UNCHANGED noticed
    /\ UNCHANGED <<clients, rowCount, ready, newest>>

(* A rejected await: the first run of t reopens the index when the file    *)
(* was republished, everything else is thrown.                             *)
Rejected(t, error) ==
    /\ IF error = "stale" /\ stage[t] = "first"
       THEN /\ pc' = [pc EXCEPT ![t] = "create"]
            /\ stage' = [stage EXCEPT ![t] = "reopen"]
            /\ noticed' = [noticed EXCEPT ![t] = published]
            /\ UNCHANGED <<on, result>>
       ELSE End(t, error, NoVersion) /\ UNCHANGED noticed
    /\ UNCHANGED <<clients, rowCount, ready, newest>>

Errors(c) ==
    (IF failing THEN {"failed"} ELSE {})
    \cup (IF clients[c].version # NoVersion /\ MayBeStale(c) THEN {"stale"} ELSE {})

-----------------------------------------------------------------------------
(* session.search *)
StartSearch(t) ==
    /\ ready /\ t # Opener /\ pc[t] = "idle"
    /\ overlap \/ \A q \in Searches : pc[q] = "idle"
    /\ Run(t, "first", client)
    /\ since' = [since EXCEPT ![t] = newest]
    /\ UNCHANGED <<published, loaded, client, rowCount, ready, newest, noticed>>

(* createClient settles.  Only the module's first load can fail; the       *)
(* table is registered on the new client next, in any stage.               *)
CreateClient(t) ==
    /\ pc[t] = "create"
    /\ \/ /\ clients' = Append(clients, NewClient(IF stage[t] = "first" THEN "default" ELSE "reload"))
          /\ client' = Len(clients) + 1
          /\ loaded' = TRUE
          /\ pc' = [pc EXCEPT ![t] = "register"]
          /\ on' = [on EXCEPT ![t] = Len(clients) + 1]
          /\ UNCHANGED <<rowCount, ready, stage, result, newest, noticed>>
       \/ /\ ~loaded /\ failing
          /\ Rejected(t, "failed")
          /\ UNCHANGED <<client, loaded>>
    /\ UNCHANGED <<published, since>>

(* registerParquet settles. *)
Register(t) ==
    /\ pc[t] = "register"
    /\ \/ /\ clients[on[t]].version # NoVersion
          /\ clients' = [clients EXCEPT ![on[t]].table = TRUE]
          /\ pc' = [pc EXCEPT ![t] = "count"]
          /\ UNCHANGED <<rowCount, ready, stage, on, result, newest, noticed>>
       \/ \E error \in Errors(on[t]) : Rejected(t, error)
    /\ UNCHANGED <<published, loaded, client, since>>

(* Mutant: the session's client is set again after the opening.            *)
OpenedLate(t) ==
    /\ rowCount' = clients[on[t]].version
    /\ IF stage[t] = "reopen" THEN Run(t, "rerun", on[t]) /\ client' = on[t] /\ UNCHANGED ready
       ELSE ready' = TRUE /\ End(t, "none", NoVersion) /\ UNCHANGED <<clients, client>>

(* The index is open.  After a reopening the run is repeated on the        *)
(* session's client, which another search may have replaced since;         *)
(* otherwise the session is returned.                                      *)
Opened(t) ==
    /\ rowCount' = clients[on[t]].version
    /\ UNCHANGED client
    /\ IF stage[t] = "reopen" THEN Run(t, "rerun", client) /\ UNCHANGED ready
       ELSE ready' = TRUE /\ End(t, "none", NoVersion) /\ UNCHANGED clients

(* The row count settles. *)
Count(t) ==
    /\ pc[t] = "count"
    /\ \/ Opened(t) /\ UNCHANGED <<newest, noticed>>
       \/ \E error \in Errors(on[t]) : Rejected(t, error) /\ UNCHANGED client
    /\ UNCHANGED <<published, loaded, since>>

(* The query of a search settles. *)
Query(t) ==
    /\ pc[t] = "query"
    /\ \/ /\ End(t, "none", clients[on[t]].version)
          /\ newest' = IF clients[on[t]].version > newest THEN clients[on[t]].version ELSE newest
          /\ UNCHANGED <<clients, rowCount, ready, noticed>>
       \/ \E error \in Errors(on[t]) : Rejected(t, error)
    /\ UNCHANGED <<published, loaded, client, since>>

Step(t) ==
    /\ CreateClient(t) \/ OpenStore(t) \/ Register(t) \/ Count(t) \/ Query(t)
    /\ UNCHANGED chosen

Next ==
    \/ Republish /\ UNCHANGED chosen
    \/ \E t \in Tasks : (StartSearch(t) /\ UNCHANGED chosen) \/ Step(t)

Spec == Init /\ [][Next]_vars

(* Every promise settles, and the page runs what waits for it. *)
FairSpec == Spec /\ \A t \in Tasks : WF_vars(Step(t))

-----------------------------------------------------------------------------
(* Properties.                                                             *)

Answered(t) == pc[t] = "query" /\ pc'[t] = "idle" /\ result'[t].error = "none"

(* The results never go back in time: a search is not answered from an     *)
(* older index than one that was answered before it started, however       *)
(* searches that reopen the index overlap; and a search that met a         *)
(* republished file is answered from one at least as new as the one        *)
(* published then, never again from what the browser kept ("start over     *)
(* with a fresh engine that bypasses the HTTP cache").                     *)
SearchesNeverGoBack ==
    [][\A t \in Searches : Answered(t) =>
          /\ result'[t].version >= since[t]
          /\ stage[t] = "rerun" => result'[t].version >= noticed[t]]_vars

(* No request fails and the file is republished at most once. *)
Calm == ~failing /\ published <= 2

(* Every search ends, however often the file is republished meanwhile: it  *)
(* is repeated at most once.                                               *)
EverySearchEnds == \A t \in Searches : pc[t] # "idle" ~> pc[t] = "idle"

(* search.test.mjs: "reopens the index without the HTTP cache when it is   *)
(* republished mid-session", and the search is answered.  When no request  *)
(* fails and searches do not overlap, one republication makes no search    *)
(* fail, and once nothing is in flight session.rowCount is the number of   *)
(* rows of the file that the session's client reads.  (A search that       *)
(* starts while another one reopens the index does fail, and reopenings    *)
(* that overlap or fail half way leave another count.)                     *)
RepublicationIsInvisible ==
    ~overlap /\ Calm =>
        /\ \A t \in Searches : result[t].error = "none"
        /\ ready /\ (\A t \in Tasks : pc[t] = "idle") => rowCount = clients[client].version

-----------------------------------------------------------------------------
(* The inductive invariant of the session.                                 *)

Client == [mode : {"default", "reload"}, table : BOOLEAN, version : 0 .. LastVersion]
IsOpen(c) == clients[c].version # NoVersion
OnClient(t) == pc[t] \in {"register", "count", "query"}

TypeInv ==
    /\ published \in Versions
    /\ clients \in Seq(Client) /\ client = Len(clients)
    /\ ready \in BOOLEAN /\ failing \in BOOLEAN /\ overlap \in BOOLEAN
    /\ pc \in [Tasks -> {"idle", "create", "register", "count", "query"}]
    /\ stage \in [Tasks -> {"first", "reopen", "rerun"}]
    /\ on \in [Tasks -> Nat] /\ \A t \in Tasks : OnClient(t) => on[t] \in DOMAIN clients
    /\ result \in [Tasks -> [error : {"none", "failed", "stale", "no_table"}, version : 0 .. LastVersion]]
    /\ newest \in 0 .. LastVersion
    /\ since \in [Tasks -> 0 .. LastVersion] /\ noticed \in [Tasks -> 0 .. LastVersion]

(* Searches run on a session that is returned, and its opener has ended by *)
(* then.  A search creates clients only to reopen the index, and queries   *)
(* only before or after that.                                              *)
PhasesInv ==
    /\ ready => pc[Opener] = "idle" /\ clients # << >>
    /\ pc[Opener] # "query"
    /\ pc[Opener] = "create" => (IF stage[Opener] = "first" THEN clients = << >> ELSE stage[Opener] = "reopen" /\ clients # << >>)
    /\ \A t \in Searches :
         /\ ~ready => pc[t] = "idle"
         /\ pc[t] \in {"create", "register", "count"} => stage[t] = "reopen"
         /\ pc[t] = "query" => stage[t] # "reopen"

(* Only the first client may read what the browser kept, and it is the     *)
(* only one until it is open.                                              *)
ClientsInv ==
    /\ \A c \in DOMAIN clients :
         /\ clients[c].version <= published
         /\ c # 1 => clients[c].mode = "reload"
         /\ clients[c].table => IsOpen(c)
    /\ clients = << >> => newest = NoVersion
    /\ clients # << >> /\ ~IsOpen(1) =>
         /\ Len(clients) = 1 /\ ~ready /\ newest = NoVersion
         /\ pc[Opener] = "idle" \/ (pc[Opener] = "register" /\ stage[Opener] = "first")

(* A query is of a client as new as every earlier answer, and no client is *)
(* older that was created after it; what is to run again after a stale     *)
(* file runs on a client opened after it was met.                          *)
VersionsInv ==
    /\ newest <= published
    /\ clients # << >> /\ IsOpen(client) => newest <= clients[client].version
    /\ \A t \in Tasks :
         /\ since[t] <= newest /\ noticed[t] <= published
         /\ pc[t] = "query" =>
               /\ clients[on[t]].table /\ since[t] <= clients[on[t]].version
               /\ \A c \in DOMAIN clients :
                     c > on[t] /\ IsOpen(c) => clients[on[t]].version <= clients[c].version
         /\ OnClient(t) /\ stage[t] # "first" =>
               /\ on[t] # 1
               /\ \A c \in DOMAIN clients : c >= on[t] /\ IsOpen(c) => noticed[t] <= clients[c].version

(* One search at a time, and one republication that made it reopen the     *)
(* index: the new client is of the last version, and the session's own.    *)
OneAtATime == \A t, q \in Searches : pc[t] # "idle" /\ pc[q] # "idle" => t = q
ReloadsAreLast ==
    \A c \in DOMAIN clients :
        clients[c].mode = "reload" => published = 2 /\ clients[c].version \in {NoVersion, 2}
RunsAreOfTheClient ==
    \A t \in Tasks :
        /\ t \in Searches => result[t].error = "none"
        /\ stage[t] # "first" => published = 2
        /\ OnClient(t) => on[t] = client
        /\ pc[t] = "count" => clients[client].table
CountIsOfTheClient ==
    ready /\ (\A t \in Searches : pc[t] \in {"idle", "query"}) =>
        clients[client].table /\ rowCount = clients[client].version
CalmInv == ~overlap /\ Calm => OneAtATime /\ ReloadsAreLast /\ RunsAreOfTheClient /\ CountIsOfTheClient

SessionInv == TypeInv /\ PhasesInv /\ ClientsInv /\ VersionsInv /\ CalmInv
=============================================================================
