-------------------------- MODULE SearchViewProofs --------------------------
(***************************************************************************)
(* The search panel comes to rest on an error or on the results of the     *)
(* query in its box, and its spinner stands for work in flight, for any    *)
(* queries, and any number of refreshes, loads and searches that settle in *)
(* any order.                                                              *)
(***************************************************************************)
EXTENDS SearchView, SequenceFacts

LEMMA PanelInvInit == Init => PanelInv
<1> SUFFICES ASSUME Init PROVE PanelInv
    OBVIOUS
<1>1. DOMAIN refreshes = {} /\ DOMAIN attempts = {}
    BY DEF Init
<1>2. /\ attempts \in [DOMAIN attempts -> {"pending", "ok", "failed"}]
      /\ refreshes \in [DOMAIN refreshes -> Refreshing]
    BY DEF Init
<1>3. Numbered
    BY <1>1, <1>2 DEF Init, Numbered
<1>4. QueryIsAnswered
    BY DEF Init, QueryIsAnswered
<1> QED BY <1>1, <1>3, <1>4
        DEF Init, PanelInv, LoadIsShared, FailedPromiseIsShown, FailedLoadIsShown, SearchSpins

-----------------------------------------------------------------------------
(* A new refresh. *)

(* The request id of a new refresh is that of no refresh and no load. *)
LEMMA NextIdIsNew ==
    ASSUME PanelInv
    PROVE  /\ sequence \in Nat /\ sequence + 1 # 0
           /\ sequence + 1 \notin DOMAIN refreshes /\ sequence + 1 \notin DOMAIN attempts
           /\ \A i \in DOMAIN refreshes : i \in Nat /\ i <= sequence
           /\ \A a \in DOMAIN attempts : a \in Nat /\ a <= sequence /\ a # 0
BY DEF PanelInv, Numbered

LEMMA EmptyRefreshKeepsInv ==
    ASSUME PanelInv, NEW shared, NEW s, NEW p, NEW err, Refresh(NoQuery, shared, s, p, err),
           query' = NoQuery, UNCHANGED indexed, watched' \in Queries \cup {NoQuery},
           s = session /\ p = promise /\ err = error
    PROVE  PanelInv'
<1>1. /\ sequence' = sequence + 1
      /\ UNCHANGED <<refreshes, attempts, loading, session, promise, error>>
    BY DEF Refresh
<1>2. Numbered'
    BY <1>1, NextIdIsNew DEF PanelInv, Numbered, Refreshing
<1>3. LoadIsShared' /\ FailedPromiseIsShown'
    BY <1>1 DEF PanelInv, LoadIsShared, FailedPromiseIsShown
<1>4. sequence' \notin DOMAIN refreshes'
    BY <1>1, NextIdIsNew
<1> QED BY <1>2, <1>3, <1>4 DEF PanelInv, FailedLoadIsShown, QueryIsAnswered, SearchSpins

(* A refresh of a query waits for the session, for the load that is out,   *)
(* or for one of its own.                                                  *)
LEMMA RefreshKeepsInv ==
    ASSUME PanelInv, NEW q \in Queries, q # NoQuery, NEW shared \in BOOLEAN, NEW s, NEW p, NEW err,
           Refresh(q, shared, s, p, err),
           query' = q, UNCHANGED indexed, watched' \in Queries \cup {NoQuery},
           \/ s = session /\ p = promise /\ err = error
           \/ s = 0 /\ p = 0 /\ ~loading
    PROVE  PanelInv'
<1> DEFINE id == sequence + 1
<1> DEFINE of == IF s # 0 THEN s ELSE IF p # 0 THEN p ELSE id
<1>1. /\ sequence' = id /\ session' = s
      /\ refreshes' = [i \in DOMAIN refreshes \cup {id} |->
                          IF i = id THEN Waiting(q, of, shared) ELSE refreshes[i]]
    BY DEF Refresh, EnsureSession, Add
<1>2. /\ DOMAIN refreshes' = DOMAIN refreshes \cup {id} /\ refreshes'[id] = Waiting(q, of, shared)
      /\ \A i \in DOMAIN refreshes : refreshes'[i] = refreshes[i]
    BY <1>1, NextIdIsNew
<1>3. InFlight' /\ SearchSpins' /\ (QueryIsAnswered)'
    BY <1>1, <1>2 DEF InFlight, SearchSpins, QueryIsAnswered, Waiting
<1>4. CASE s # 0 \/ p # 0
    <2>1. /\ s = session /\ p = promise /\ err = error
          /\ UNCHANGED <<session, promise, error, attempts, loading>>
        BY <1>4 DEF Refresh, EnsureSession
    <2>2. of \in DOMAIN attempts /\ (s # 0 => attempts[of] = "ok") /\ (s = 0 => of = promise)
        BY <1>4, <2>1 DEF PanelInv, Numbered
    <2>3. Waiting(q, of, shared) \in Refreshing
        BY <2>2 DEF Waiting, Refreshing
    <2>4. Numbered'
        BY <1>1, <1>2, <2>1, <2>3, NextIdIsNew DEF PanelInv, Numbered, Refreshing
    <2>5. LoadIsShared'
        <3> SUFFICES ASSUME NEW a \in DOMAIN attempts', attempts'[a] = "pending"
                     PROVE  /\ loading' /\ promise' = a /\ session' = 0 /\ a \in DOMAIN refreshes'
                            /\ \A i \in DOMAIN refreshes' : i >= a =>
                                  refreshes'[i].at = "session" /\ refreshes'[i].of = a
            BY DEF LoadIsShared
        <3>1. /\ loading /\ promise = a /\ session = 0 /\ a \in DOMAIN refreshes
              /\ \A i \in DOMAIN refreshes : i >= a => refreshes[i].at = "session" /\ refreshes[i].of = a
            BY <2>1 DEF PanelInv, LoadIsShared
        <3>2. refreshes'[id].at = "session" /\ refreshes'[id].of = a
            BY <1>2, <2>1, <2>2, <3>1 DEF Waiting
        <3> QED BY <1>2, <2>1, <3>1, <3>2
    <2>6. FailedPromiseIsShown'
        BY <2>1 DEF PanelInv, FailedPromiseIsShown
    <2>7. attempts[of] = "failed" => error # "none" /\ ~loading
        BY <1>4, <2>1, <2>2 DEF PanelInv, FailedPromiseIsShown
    <2>8. FailedLoadIsShown'
        BY <1>1, <1>2, <2>1, <2>7 DEF FailedLoadIsShown, Waiting
    <2> QED BY <1>3, <2>4, <2>5, <2>6, <2>8 DEF PanelInv
<1>5. CASE s = 0 /\ p = 0
    <2>1. /\ of = id /\ session' = 0 /\ promise' = id
          /\ attempts' = [i \in DOMAIN attempts \cup {id} |->
                             IF i # id THEN attempts[i] ELSE IF indexed THEN "pending" ELSE "failed"]
          /\ loading' = indexed /\ error' = IF indexed THEN "none" ELSE "load"
        BY <1>1, <1>5 DEF Refresh, EnsureSession
    <2>2. /\ DOMAIN attempts' = DOMAIN attempts \cup {id}
          /\ attempts'[id] = IF indexed THEN "pending" ELSE "failed"
          /\ \A a \in DOMAIN attempts : attempts'[a] = attempts[a]
        BY <2>1, NextIdIsNew
    <2>3. \A a \in DOMAIN attempts : attempts[a] # "pending"
        BY <1>5, NextIdIsNew DEF PanelInv, LoadIsShared
    <2>4. Numbered'
        <3>1. Waiting(q, id, shared) \in Refreshing' /\ \A r \in Refreshing : r \in Refreshing'
            BY <2>2 DEF Waiting, Refreshing
        <3>2. /\ refreshes' \in [DOMAIN refreshes' -> Refreshing']
              /\ DOMAIN refreshes' \subseteq 1..sequence'
            BY <1>1, <1>2, <2>1, <3>1, NextIdIsNew DEF PanelInv, Numbered
        <3>3. /\ attempts' \in [DOMAIN attempts' -> {"pending", "ok", "failed"}]
              /\ DOMAIN attempts' \subseteq 1..sequence'
            BY <1>1, <2>1, <2>2, NextIdIsNew DEF PanelInv, Numbered
        <3> QED BY <1>1, <2>1, <2>2, <3>2, <3>3, NextIdIsNew DEF PanelInv, Numbered
    <2>5. LoadIsShared'
        <3> SUFFICES ASSUME NEW a \in DOMAIN attempts', attempts'[a] = "pending"
                     PROVE  /\ loading' /\ promise' = a /\ session' = 0 /\ a \in DOMAIN refreshes'
                            /\ \A i \in DOMAIN refreshes' : i >= a =>
                                  refreshes'[i].at = "session" /\ refreshes'[i].of = a
            BY DEF LoadIsShared
        <3>1. a = id /\ indexed
            BY <2>2, <2>3
        <3>2. \A i \in DOMAIN refreshes : ~(i >= id)
            BY NextIdIsNew
        <3> QED BY <1>2, <2>1, <3>1, <3>2 DEF Waiting
    <2>6. FailedPromiseIsShown'
        BY <2>1, <2>2 DEF PanelInv, FailedPromiseIsShown
    <2>7. FailedLoadIsShown'
        BY <1>1, <1>2, <2>1, <2>2 DEF FailedLoadIsShown, Waiting
    <2> QED BY <1>3, <2>4, <2>5, <2>6, <2>7 DEF PanelInv
<1> QED BY <1>4, <1>5

-----------------------------------------------------------------------------
(* A load or a refresh settles. *)

LEMMA LoadSettlesKeepsInv ==
    ASSUME PanelInv, query = watched, NEW a \in DOMAIN attempts, LoadSettles(a) PROVE PanelInv'
<1>1. /\ attempts[a] = "pending"
      /\ \/ attempts' = [attempts EXCEPT ![a] = "ok"] /\ session' = a /\ UNCHANGED error
         \/ attempts' = [attempts EXCEPT ![a] = "failed"] /\ error' = "load" /\ UNCHANGED session
      /\ loading' = FALSE /\ promise' = 0
      /\ UNCHANGED <<indexed, query, watched, sequence, refreshes, results>>
    BY DEF LoadSettles
<1>2. /\ DOMAIN attempts' = DOMAIN attempts /\ attempts'[a] \in {"ok", "failed"}
      /\ \A b \in DOMAIN attempts : b # a => attempts'[b] = attempts[b]
    BY <1>1
<1>3. /\ promise = a /\ session = 0 /\ indexed
      /\ \A id \in DOMAIN refreshes : id >= a => refreshes[id].at = "session" /\ refreshes[id].of = a
    BY <1>1 DEF PanelInv, LoadIsShared, FailedPromiseIsShown
<1>4. sequence \in Nat /\ a \in 1..sequence /\ sequence >= a
    BY DEF PanelInv, Numbered
<1>5. Numbered'
    <2>1. attempts' \in [DOMAIN attempts' -> {"pending", "ok", "failed"}]
        BY <1>1, <1>2 DEF PanelInv, Numbered
    <2>2. session' # 0 => session' \in DOMAIN attempts' /\ attempts'[session'] = "ok"
        BY <1>1, <1>2, <1>3
    <2>3. Refreshing' = Refreshing
        BY <1>2 DEF Refreshing
    <2> QED BY <1>1, <1>2, <2>1, <2>2, <2>3 DEF PanelInv, Numbered
<1>6. LoadIsShared'
    BY <1>1, <1>2, <1>3 DEF PanelInv, LoadIsShared
<1>7. FailedPromiseIsShown'
    BY <1>1, <1>3 DEF FailedPromiseIsShown
<1>8. FailedLoadIsShown'
    BY <1>1, <1>2, <1>3, <1>4 DEF FailedLoadIsShown
<1>9. QueryIsAnswered'
    BY <1>1 DEF PanelInv, QueryIsAnswered, InFlight
<1>10. SearchSpins'
    BY <1>1, <1>3, <1>4 DEF SearchSpins
<1> QED BY <1>5, <1>6, <1>7, <1>8, <1>9, <1>10 DEF PanelInv

(* What a step of one refresh leaves of the others. *)
OnlyMoves(id) ==
    /\ DOMAIN refreshes' \subseteq DOMAIN refreshes
    /\ \A i \in DOMAIN refreshes : i # id => i \in DOMAIN refreshes' /\ refreshes'[i] = refreshes[i]
    /\ refreshes' \in [DOMAIN refreshes' -> Refreshing]

LEMMA LeaveMoves ==
    ASSUME Numbered, NEW id \in DOMAIN refreshes, Leave(id)
    PROVE  OnlyMoves(id) /\ (id \in DOMAIN refreshes' => refreshes'[id].at = "shared")
<1>1. refreshes[id] \in Refreshing /\ refreshes \in [DOMAIN refreshes -> Refreshing]
    BY DEF Numbered
<1>2. CASE refreshes[id].shared
    <2>1. refreshes' = [refreshes EXCEPT ![id].at = "shared"]
        BY <1>2 DEF Leave
    <2>2. refreshes'[id] = [refreshes[id] EXCEPT !.at = "shared"]
        BY <1>1, <2>1
    <2>3. refreshes'[id] \in Refreshing /\ refreshes'[id].at = "shared"
        BY <1>1, <2>2 DEF Refreshing
    <2> QED BY <1>1, <2>1, <2>3 DEF OnlyMoves
<1>3. CASE ~refreshes[id].shared
    BY <1>1, <1>3 DEF Leave, Restrict, OnlyMoves
<1> QED BY <1>2, <1>3

(* A refresh that waits for no load that is out moves: the loads are as    *)
(* they were, and a refresh that is not the latest changes nothing else.   *)
LEMMA MoveKeepsLoads ==
    ASSUME PanelInv, NEW id \in DOMAIN refreshes, OnlyMoves(id),
           refreshes[id].at = "session" => attempts[refreshes[id].of] # "pending",
           UNCHANGED <<indexed, query, watched, sequence, attempts, session, promise>>,
           loading' \in BOOLEAN, id # sequence => UNCHANGED loading
    PROVE  Numbered' /\ LoadIsShared'
<1>1. Numbered'
    BY DEF PanelInv, Numbered, Refreshing, OnlyMoves
<1>2. LoadIsShared'
    <2> SUFFICES ASSUME NEW a \in DOMAIN attempts, attempts[a] = "pending"
                 PROVE  /\ loading' /\ promise = a /\ session = 0 /\ a \in DOMAIN refreshes'
                        /\ \A i \in DOMAIN refreshes' : i >= a =>
                              refreshes'[i].at = "session" /\ refreshes'[i].of = a
        BY DEF LoadIsShared
    <2>1. /\ loading /\ promise = a /\ session = 0 /\ a \in DOMAIN refreshes
          /\ \A i \in DOMAIN refreshes : i >= a => refreshes[i].at = "session" /\ refreshes[i].of = a
        BY DEF PanelInv, LoadIsShared
    <2>2. ~(id >= a)
        BY <2>1
    <2>3. id # sequence /\ id # a
        BY <2>2, NextIdIsNew
    <2> QED BY <2>1, <2>2, <2>3 DEF OnlyMoves
<1> QED BY <1>1, <1>2

LEMMA ResumeKeepsInv ==
    ASSUME PanelInv, query = watched, NEW id \in DOMAIN refreshes, Resume(id) PROVE PanelInv'
<1>1. /\ refreshes[id].at = "session" /\ attempts[refreshes[id].of] # "pending"
      /\ UNCHANGED <<indexed, query, watched, sequence, attempts, session, promise>>
    BY DEF Resume
<1>2. CASE ~IsCurrent(id) \/ attempts[refreshes[id].of] = "failed"
    <2>1. Leave(id) /\ UNCHANGED <<loading, error>> /\ (~IsCurrent(id) => UNCHANGED results)
        BY <1>2 DEF Resume
    <2>2. OnlyMoves(id) /\ (id \in DOMAIN refreshes' => refreshes'[id].at = "shared")
        BY <2>1, LeaveMoves DEF PanelInv
    <2>3. Numbered' /\ LoadIsShared'
        BY <1>1, <2>1, <2>2, MoveKeepsLoads DEF PanelInv, Numbered
    <2>4. FailedPromiseIsShown'
        BY <1>1, <2>1 DEF PanelInv, FailedPromiseIsShown
    <2>5. FailedLoadIsShown' /\ SearchSpins'
        BY <1>1, <2>1, <2>2 DEF PanelInv, FailedLoadIsShown, SearchSpins, OnlyMoves
    <2>6. QueryIsAnswered'
        <3> SUFFICES ASSUME query # NoQuery
                     PROVE  InFlight' \/ (~loading /\ (error # "none" \/ results' = query))
            BY <1>1, <2>1 DEF QueryIsAnswered
        <3>1. CASE IsCurrent(id)
            BY <1>1, <1>2, <3>1 DEF PanelInv, FailedLoadIsShown, IsCurrent
        <3>2. CASE ~IsCurrent(id) /\ InFlight
            BY <1>1, <2>2, <3>2 DEF InFlight, IsCurrent, OnlyMoves
        <3>3. CASE ~IsCurrent(id) /\ ~InFlight
            BY <2>1, <3>3 DEF PanelInv, QueryIsAnswered
        <3> QED BY <3>1, <3>2, <3>3
    <2> QED BY <2>3, <2>4, <2>5, <2>6 DEF PanelInv
<1>3. CASE IsCurrent(id) /\ attempts[refreshes[id].of] # "failed"
    <2>1. /\ refreshes' = [refreshes EXCEPT ![id].at = "search"]
          /\ loading' = TRUE /\ id = sequence /\ refreshes[id].query = query
        BY <1>3 DEF Resume, IsCurrent
    <2>2. /\ DOMAIN refreshes' = DOMAIN refreshes
          /\ refreshes'[id] = [refreshes[id] EXCEPT !.at = "search"]
          /\ refreshes[id] \in Refreshing /\ refreshes \in [DOMAIN refreshes -> Refreshing]
        BY <2>1 DEF PanelInv, Numbered
    <2>3. /\ refreshes'[id].at = "search" /\ refreshes'[id].query = query
          /\ refreshes'[id] \in Refreshing
        BY <2>1, <2>2 DEF Refreshing
    <2>4. OnlyMoves(id)
        BY <2>1, <2>2, <2>3 DEF OnlyMoves
    <2>5. Numbered' /\ LoadIsShared'
        BY <1>1, <2>1, <2>4, MoveKeepsLoads
    <2>6. FailedPromiseIsShown'
        <3>1. refreshes[id].of \in DOMAIN attempts /\ attempts[refreshes[id].of] = "ok"
            BY <1>1, <1>3, <2>2 DEF PanelInv, Numbered, Refreshing
        <3> QED BY <1>1, <3>1 DEF PanelInv, FailedPromiseIsShown
    <2>7. FailedLoadIsShown' /\ SearchSpins' /\ QueryIsAnswered'
        BY <1>1, <2>1, <2>2, <2>3 DEF FailedLoadIsShown, SearchSpins, QueryIsAnswered, InFlight
    <2> QED BY <2>5, <2>6, <2>7 DEF PanelInv
<1> QED BY <1>2, <1>3

LEMMA SearchSettlesKeepsInv ==
    ASSUME PanelInv, query = watched, NEW id \in DOMAIN refreshes, SearchSettles(id) PROVE PanelInv'
<1>1. /\ refreshes[id].at = "search" /\ Leave(id)
      /\ UNCHANGED <<indexed, query, watched, sequence, attempts, session, promise>>
      /\ loading' = (loading /\ id # sequence)
      /\ \/ results' = (IF IsCurrent(id) THEN refreshes[id].query ELSE results) /\ UNCHANGED error
         \/ IF IsCurrent(id) THEN results' = Empty /\ error' = "search" ELSE UNCHANGED <<results, error>>
    BY DEF SearchSettles, SpinnerAfter
<1>2. OnlyMoves(id) /\ (id \in DOMAIN refreshes' => refreshes'[id].at = "shared")
    BY <1>1, LeaveMoves DEF PanelInv
<1>3. Numbered' /\ LoadIsShared'
    BY <1>1, <1>2, MoveKeepsLoads DEF PanelInv, Numbered
<1>4. FailedPromiseIsShown' /\ FailedLoadIsShown' /\ SearchSpins'
    BY <1>1, <1>2 DEF PanelInv, FailedPromiseIsShown, FailedLoadIsShown, SearchSpins, OnlyMoves
<1>5. QueryIsAnswered'
    <2> SUFFICES ASSUME query # NoQuery
                 PROVE  InFlight' \/ (~loading' /\ (error' # "none" \/ results' = query))
        BY <1>1 DEF QueryIsAnswered
    <2>1. CASE IsCurrent(id)
        BY <1>1, <2>1 DEF IsCurrent
    <2>2. CASE ~IsCurrent(id) /\ InFlight
        BY <1>1, <1>2, <2>2 DEF InFlight, IsCurrent, OnlyMoves
    <2>3. CASE ~IsCurrent(id) /\ ~InFlight
        BY <1>1, <2>3 DEF PanelInv, QueryIsAnswered
    <2> QED BY <2>1, <2>2, <2>3
<1> QED BY <1>3, <1>4, <1>5 DEF PanelInv

LEMMA SharedCaseKeepsInv ==
    ASSUME PanelInv, query = watched, NEW id \in DOMAIN refreshes, SharedCase(id) PROVE PanelInv'
<1>1. /\ refreshes[id].at = "shared"
      /\ refreshes' = Restrict(refreshes, DOMAIN refreshes \ {id})
      /\ error' \in {error, "case"}
      /\ UNCHANGED <<indexed, query, watched, sequence, attempts, session, promise, results, loading>>
    BY DEF SharedCase
<1>2. OnlyMoves(id) /\ id \notin DOMAIN refreshes'
    BY <1>1 DEF PanelInv, Numbered, Restrict, OnlyMoves
<1>3. Numbered' /\ LoadIsShared'
    BY <1>1, <1>2, MoveKeepsLoads DEF PanelInv, Numbered
<1>4. FailedPromiseIsShown' /\ FailedLoadIsShown' /\ SearchSpins'
    BY <1>1, <1>2 DEF PanelInv, FailedPromiseIsShown, FailedLoadIsShown, SearchSpins, OnlyMoves
<1>5. QueryIsAnswered'
    BY <1>1, <1>2 DEF PanelInv, QueryIsAnswered, InFlight, OnlyMoves
<1> QED BY <1>3, <1>4, <1>5 DEF PanelInv

-----------------------------------------------------------------------------
LEMMA PanelInvNext == PanelInv /\ [Next]_vars => PanelInv'
<1> SUFFICES ASSUME PanelInv, [Next]_vars PROVE PanelInv'
    OBVIOUS
<1>1. CASE Watch
    <2>1. query \in Queries \cup {NoQuery} /\ FALSE \in BOOLEAN
        BY DEF PanelInv, Numbered
    <2>2. watched' = query /\ UNCHANGED <<indexed, query>> /\ Refresh(query, FALSE, session, promise, error)
        BY <1>1 DEF Watch
    <2>3. CASE query = NoQuery
        BY <2>2, <2>3, EmptyRefreshKeepsInv
    <2>4. CASE query # NoQuery
        BY <2>1, <2>2, <2>4, RefreshKeepsInv
    <2> QED BY <2>3, <2>4
<1>2. CASE query = watched /\ IndexLoads
    BY <1>2 DEF IndexLoads, PanelInv, Numbered, Refreshing, LoadIsShared, FailedPromiseIsShown,
                FailedLoadIsShown, QueryIsAnswered, InFlight, SearchSpins
<1>3. CASE query = watched /\ \E q \in Queries \cup {NoQuery} : Type(q)
    BY <1>3 DEF Type, PanelInv, Numbered, Refreshing, LoadIsShared, FailedPromiseIsShown,
                FailedLoadIsShown, QueryIsAnswered, SearchSpins
<1>4. CASE query = watched /\ \E q \in Queries, shared \in BOOLEAN : ApplyUrl(q, shared)
    <2>1. PICK q \in Queries : \E shared \in BOOLEAN : ApplyUrl(q, shared)
        BY <1>4
    <2>2. PICK shared \in BOOLEAN : ApplyUrl(q, shared)
        BY <2>1
    <2>3. /\ query' = q /\ UNCHANGED <<indexed, watched>> /\ watched' \in Queries \cup {NoQuery}
          /\ Refresh(q, shared, session, promise, error)
        BY <2>2 DEF ApplyUrl, PanelInv, Numbered
    <2>4. CASE q = NoQuery
        BY <2>3, <2>4, EmptyRefreshKeepsInv
    <2>5. CASE q # NoQuery
        BY <2>3, <2>5, RefreshKeepsInv
    <2> QED BY <2>4, <2>5
<1>5. CASE query = watched /\ Clear
    BY <1>5 DEF Clear, PanelInv, Numbered, Refreshing, LoadIsShared, FailedPromiseIsShown,
                FailedLoadIsShown, QueryIsAnswered, SearchSpins
<1>6. CASE query = watched /\ Retry
    <2>1. /\ query \in Queries /\ query # NoQuery /\ ~loading
          /\ UNCHANGED <<indexed, query>> /\ watched' \in Queries \cup {NoQuery}
          /\ Refresh(query, FALSE, 0, 0, "none")
        BY <1>6 DEF Retry, ErrorShown, PanelInv, Numbered
    <2> QED BY <2>1, RefreshKeepsInv
<1>7. CASE query = watched /\ Settle
    BY <1>7, LoadSettlesKeepsInv, ResumeKeepsInv, SearchSettlesKeepsInv, SharedCaseKeepsInv DEF Settle
<1>8. CASE UNCHANGED vars
    BY <1>8 DEF vars, PanelInv, Numbered, Refreshing, LoadIsShared, FailedPromiseIsShown,
                FailedLoadIsShown, QueryIsAnswered, InFlight, SearchSpins
<1> QED BY <1>1, <1>2, <1>3, <1>4, <1>5, <1>6, <1>7, <1>8 DEF Next

LEMMA PanelInvariant == Spec => []PanelInv
BY PanelInvInit, PanelInvNext, PTL DEF Spec

-----------------------------------------------------------------------------
(* The panel of App.vue at rest shows an error, or the results of the      *)
(* query in the box: refreshSearchResults drops what is outdated, and      *)
(* never the answer to the query that is there.                            *)
THEOREM PanelRestsOnItsQuery == Spec => []SettledResultsAreCurrent
<1>1. PanelInv => SettledResultsAreCurrent
    BY DEF PanelInv, QueryIsAnswered, InFlight, SettledResultsAreCurrent, Busy
<1> QED BY <1>1, PanelInvariant, PTL

(* The spinner is shown for work in flight, and for the search of the      *)
(* query in the box while that is in flight.                               *)
THEOREM SpinnerStandsForWork == Spec => []SpinnerIsHonest
<1>1. PanelInv => SpinnerIsHonest
    BY DEF PanelInv, QueryIsAnswered, InFlight, SearchSpins, SpinnerIsHonest, Busy
<1> QED BY <1>1, PanelInvariant, PTL

=============================================================================
