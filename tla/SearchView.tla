----------------------------- MODULE SearchView -----------------------------
(***************************************************************************)
(* The search panel of the report page (site/src/App.vue): what is typed,  *)
(* the watcher that starts a search for it, the loading of the search      *)
(* session, the searches in flight, and what the panel shows.              *)
(*                                                                         *)
(* The page is single-threaded: an action is what runs between two awaits, *)
(* and awaits settle in any order.  The watcher of the query is a microtask*)
(* queued by the code that changed the query, when no other is queued: it  *)
(* is an action of its own and nothing else happens before it.  The query  *)
(* stands for the trimmed query together with the suite filter.            *)
(***************************************************************************)
EXTENDS Integers, FiniteSets, Functions

CONSTANTS
    Queries,      \* what can be typed
    MaxRefreshes  \* bound: how often refreshSearchResults is called

ASSUME QueriesExist == Queries # {}
ASSUME MaxRefreshesIsNat == MaxRefreshes \in Nat

NoQuery == "" \* the empty query
Empty == "none" \* no results

VARIABLES
    indexed,   \* the report index is loaded
    query,     \* trimmedSearchQuery
    watched,   \* the query the watcher has seen last
    sequence,  \* searchRequestSequence
    refreshes, \* the calls of refreshSearchResults that have not ended, by request id
    attempts,  \* the session loads started, by the request that started them
    session,   \* searchSession: the load it came from, 0 for null
    promise,   \* searchSessionPromise: the load it stands for, 0 for null
    results,   \* searchResults: the query they are for
    loading,   \* searchLoading
    error      \* searchError, by its cause

vars == <<indexed, query, watched, sequence, refreshes, attempts, session, promise,
          results, loading, error>>

-----------------------------------------------------------------------------
(* A refresh waits for the session load `of`, then for its search. *)
Waiting(q, of, shared) == [query |-> q, at |-> "session", of |-> of, shared |-> shared]

Init ==
    /\ indexed = FALSE /\ query = NoQuery /\ watched = NoQuery
    /\ sequence = 0 /\ refreshes = [id \in {} |-> Waiting(NoQuery, 0, FALSE)]
    /\ attempts = [id \in {} |-> "pending"]
    /\ session = 0 /\ promise = 0
    /\ results = Empty /\ loading = FALSE /\ error = "none"

IndexLoads ==
    /\ ~indexed /\ indexed' = TRUE
    /\ UNCHANGED <<query, watched, sequence, refreshes, attempts, session, promise,
                   results, loading, error>>

Add(id, refresh) ==
    refreshes' = [i \in DOMAIN refreshes \cup {id} |-> IF i = id THEN refresh ELSE refreshes[i]]

(* ensureSearchSession, for a request whose searchSession and              *)
(* searchSessionPromise are s and p, and err what was shown before.  When  *)
(* the index is not loaded the load fails before it awaits anything, and   *)
(* its promise is assigned after it was reset.                             *)
EnsureSession(id, q, shared, s, p, err) ==
    /\ session' = s
    /\ Add(id, Waiting(q, IF s # 0 THEN s ELSE IF p # 0 THEN p ELSE id, shared))
    /\ IF s # 0 \/ p # 0
       THEN promise' = p /\ error' = err /\ UNCHANGED <<attempts, loading>>
       ELSE /\ promise' = id
            /\ attempts' = [i \in DOMAIN attempts \cup {id} |->
                               IF i # id THEN attempts[i] ELSE IF indexed THEN "pending" ELSE "failed"]
            /\ loading' = indexed
            /\ error' = IF indexed THEN "none" ELSE "load"

(* refreshSearchResults up to its first await. *)
Refresh(q, shared, s, p, err) ==
    /\ sequence < MaxRefreshes
    /\ sequence' = sequence + 1
    /\ IF q = NoQuery
       THEN /\ results' = Empty
            /\ session' = s /\ promise' = p /\ error' = err
            /\ UNCHANGED <<refreshes, attempts, loading>>
       ELSE EnsureSession(sequence + 1, q, shared, s, p, err) /\ UNCHANGED results

-----------------------------------------------------------------------------
(* The user types, or chooses a suite. *)
Type(q) ==
    /\ indexed /\ q # query /\ sequence < MaxRefreshes
    /\ query' = q
    /\ UNCHANGED <<indexed, watched, sequence, refreshes, attempts, session, promise,
                   results, loading, error>>

(* clearSearch; the watcher follows. *)
Clear ==
    /\ indexed /\ query # NoQuery /\ sequence < MaxRefreshes
    /\ query' = NoQuery /\ results' = Empty
    /\ UNCHANGED <<indexed, watched, sequence, refreshes, attempts, session, promise,
                   loading, error>>

Watch ==
    /\ query # watched
    /\ watched' = query
    /\ Refresh(query, FALSE, session, promise, error)
    /\ UNCHANGED <<indexed, query>>

(* applySearchUrlState: the query comes from the URL, and the search is    *)
(* refreshed at once; the watcher follows.  The URL may name a test case.  *)
(* The user may go back before the report index is loaded.                 *)
ApplyUrl(q, shared) ==
    /\ sequence + 1 < MaxRefreshes
    /\ query' = q
    /\ Refresh(q, shared, session, promise, error)
    /\ UNCHANGED <<indexed, watched>>

(* The panel shows a spinner, else an error with the retry button, else    *)
(* the results.                                                            *)
ErrorShown == query # NoQuery /\ ~loading /\ error # "none"

(* retrySearchLoad *)
Retry ==
    /\ indexed /\ ErrorShown
    /\ Refresh(query, FALSE, 0, 0, "none")
    /\ UNCHANGED <<indexed, query, watched>>

-----------------------------------------------------------------------------
(* Mutant: the spinner goes on. *)
LoadSettlesSpinning(a) ==
    /\ attempts[a] = "pending"
    /\ \/ attempts' = [attempts EXCEPT ![a] = "ok"] /\ session' = a /\ UNCHANGED error
       \/ attempts' = [attempts EXCEPT ![a] = "failed"] /\ error' = "load" /\ UNCHANGED session
    /\ promise' = 0
    /\ UNCHANGED <<indexed, query, watched, sequence, refreshes, results, loading>>

(* createCaseSearchSession settles; `finally` stops the spinner and drops  *)
(* the promise.                                                            *)
LoadSettles(a) ==
    /\ attempts[a] = "pending"
    /\ \/ attempts' = [attempts EXCEPT ![a] = "ok"] /\ session' = a /\ UNCHANGED error
       \/ attempts' = [attempts EXCEPT ![a] = "failed"] /\ error' = "load" /\ UNCHANGED session
    /\ loading' = FALSE /\ promise' = 0
    /\ UNCHANGED <<indexed, query, watched, sequence, refreshes, results>>

(* Mutant: an outdated answer is not recognised. *)
AlwaysCurrent(id) == TRUE

(* The request id and the query are still those of this refresh. *)
IsCurrent(id) == id = sequence /\ refreshes[id].query = query

Leave(id) ==
    refreshes' = IF refreshes[id].shared
                 THEN [refreshes EXCEPT ![id].at = "shared"]
                 ELSE Restrict(refreshes, DOMAIN refreshes \ {id})

(* Mutant: a refresh whose session could not be loaded waits on. *)
ResumeLoaded(id) ==
    /\ refreshes[id].at = "session" /\ attempts[refreshes[id].of] = "ok"
    /\ IF ~IsCurrent(id) THEN Leave(id) /\ UNCHANGED <<results, loading, error>>
       ELSE /\ refreshes' = [refreshes EXCEPT ![id].at = "search"]
            /\ loading' = TRUE /\ error' = "none" /\ UNCHANGED results
    /\ UNCHANGED <<indexed, query, watched, sequence, attempts, session, promise>>

(* A refresh continues when its session is loaded, unless it is outdated.  *)
Resume(id) ==
    /\ refreshes[id].at = "session" /\ attempts[refreshes[id].of] # "pending"
    /\ IF ~IsCurrent(id) THEN Leave(id) /\ UNCHANGED <<results, loading, error>>
       ELSE IF attempts[refreshes[id].of] = "failed"
       THEN Leave(id) /\ results' = Empty /\ UNCHANGED <<loading, error>>
       ELSE /\ refreshes' = [refreshes EXCEPT ![id].at = "search"]
            /\ loading' = TRUE /\ error' = "none" /\ UNCHANGED results
    /\ UNCHANGED <<indexed, query, watched, sequence, attempts, session, promise>>

(* `finally` stops the spinner of the latest request only. *)
SpinnerAfter(id) == loading /\ id # sequence

(* session.search settles: what it gave is shown unless it is outdated; a  *)
(* newer request owns the spinner.                                         *)
SearchSettles(id) ==
    /\ refreshes[id].at = "search"
    /\ \/ /\ results' = IF IsCurrent(id) THEN refreshes[id].query ELSE results
          /\ UNCHANGED error
       \/ IF IsCurrent(id) THEN results' = Empty /\ error' = "search"
          ELSE UNCHANGED <<results, error>>
    /\ loading' = SpinnerAfter(id)
    /\ Leave(id)
    /\ UNCHANGED <<indexed, query, watched, sequence, attempts, session, promise>>

(* openSharedSearchCase, after the refresh: the case is found or not. *)
SharedCase(id) ==
    /\ refreshes[id].at = "shared"
    /\ refreshes' = Restrict(refreshes, DOMAIN refreshes \ {id})
    /\ error' \in {error, "case"}
    /\ UNCHANGED <<indexed, query, watched, sequence, attempts, session, promise,
                   results, loading>>

Settle ==
    \/ \E a \in DOMAIN attempts : LoadSettles(a)
    \/ \E id \in DOMAIN refreshes : Resume(id) \/ SearchSettles(id) \/ SharedCase(id)

Next ==
    \/ Watch
    \/ /\ query = watched
       /\ \/ IndexLoads
          \/ \E q \in Queries \cup {NoQuery} : Type(q)
          \/ \E q \in Queries, shared \in BOOLEAN : ApplyUrl(q, shared)
          \/ Clear \/ Retry
          \/ Settle

Spec == Init /\ [][Next]_vars

(* Promises settle and the page runs what waits for them; the watcher runs *)
(* after the change it watches.                                            *)
FairSpec == Spec /\ WF_vars(query = watched /\ Settle) /\ WF_vars(Watch)

-----------------------------------------------------------------------------
(* Properties.                                                             *)

Busy ==
    \/ query # watched
    \/ \E id \in DOMAIN refreshes : refreshes[id].at \in {"session", "search"}

(* When nothing is in flight the panel shows an error, or the results of   *)
(* exactly the query in the box, whatever was typed, cleared, retried and  *)
(* answered out of order before.                                           *)
SettledResultsAreCurrent ==
    ~Busy /\ query # NoQuery /\ error = "none" => results = query

(* The spinner the user sees stands for work in flight, and while the      *)
(* search for the query in the box is in flight it hides the results of    *)
(* the query before, however loads and searches share it.                  *)
SpinnerIsHonest ==
    /\ query # NoQuery /\ loading => Busy
    /\ \A id \in DOMAIN refreshes : refreshes[id].at = "search" /\ id = sequence => loading

(* Inductive, and what both properties rest on.  Refreshes, loads and what *)
(* they stand for are numbered by the calls so far.                        *)
Refreshing ==
    [query : Queries, at : {"session", "search", "shared"}, of : DOMAIN attempts, shared : BOOLEAN]

Numbered ==
    /\ sequence \in Nat /\ indexed \in BOOLEAN /\ loading \in BOOLEAN
    /\ {query, watched} \subseteq Queries \cup {NoQuery}
    /\ DOMAIN refreshes \subseteq 1..sequence /\ DOMAIN attempts \subseteq 1..sequence
    /\ attempts \in [DOMAIN attempts -> {"pending", "ok", "failed"}]
    /\ refreshes \in [DOMAIN refreshes -> Refreshing]
    /\ session # 0 => session \in DOMAIN attempts /\ attempts[session] = "ok"
    /\ promise # 0 => promise \in DOMAIN attempts /\ attempts[promise] # "ok"

(* A load that is out is the only one: its promise is kept, every refresh  *)
(* since waits for it, and the spinner keeps a retry away.                 *)
LoadIsShared ==
    \A a \in DOMAIN attempts : attempts[a] = "pending" =>
        /\ loading /\ promise = a /\ session = 0 /\ a \in DOMAIN refreshes
        /\ \A id \in DOMAIN refreshes : id >= a => refreshes[id].at = "session" /\ refreshes[id].of = a

(* A promise that is kept after its load failed is that of a page whose    *)
(* index was not loaded yet: nothing has loaded since, and the error stays.*)
FailedPromiseIsShown ==
    /\ ~indexed => \A a \in DOMAIN attempts : attempts[a] = "failed"
    /\ promise # 0 /\ attempts[promise] = "failed" =>
            /\ \A a \in DOMAIN attempts : attempts[a] = "failed"
            /\ error # "none" /\ ~loading

FailedLoadIsShown ==
    \A id \in DOMAIN refreshes :
        id = sequence /\ refreshes[id].at = "session" /\ attempts[refreshes[id].of] = "failed" =>
            error # "none" /\ ~loading

InFlight ==
    /\ sequence \in DOMAIN refreshes
    /\ refreshes[sequence].query = query /\ refreshes[sequence].at \in {"session", "search"}

QueryIsAnswered ==
    query = watched /\ query # NoQuery =>
        \/ InFlight
        \/ ~loading /\ (error # "none" \/ results = query)

SearchSpins ==
    sequence \in DOMAIN refreshes /\ refreshes[sequence].at = "search" => loading

PanelInv ==
    Numbered /\ LoadIsShared /\ FailedPromiseIsShown /\ FailedLoadIsShown /\ QueryIsAnswered /\ SearchSpins

(* Whatever loads or searches fail, the panel comes to rest unless the     *)
(* user goes on.                                                           *)
PanelSettles == Busy ~> ~Busy
=============================================================================
