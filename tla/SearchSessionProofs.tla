------------------------- MODULE SearchSessionProofs -------------------------
(***************************************************************************)
(* The search session for any number of searches and republications:       *)
(* however searches that reopen the index overlap, no answer is older than *)
(* one given before its search began; and without overlaps and failures    *)
(* one republication is not noticed.  And the URL of the page names what   *)
(* the panel shows, for any links, cases, moves and history.               *)
(***************************************************************************)
EXTENDS SearchSession, SharedUrl, SequenceFacts, SequenceTheorems

USE LastVersionIsPositive DEF NoVersion

-----------------------------------------------------------------------------
(* The clients as a sequence.                                              *)

LEMMA ClientIsUpdated ==
    ASSUME clients \in Seq(Client), NEW c \in DOMAIN clients, NEW e \in Client,
           clients' = [clients EXCEPT ![c] = e]
    PROVE  /\ clients' \in Seq(Client) /\ Len(clients') = Len(clients) /\ DOMAIN clients' = DOMAIN clients
           /\ DOMAIN clients = 1 .. Len(clients) /\ Len(clients) \in Nat
           /\ clients'[c] = e /\ \A d \in DOMAIN clients : d # c => clients'[d] = clients[d]
<1>1. c \in 1 .. Len(clients)
    OBVIOUS
<1>2. clients' \in Seq(Client) /\ Len(clients') = Len(clients)
    BY <1>1, ExceptSeq
<1> QED BY <1>2

LEMMA ClientIsAppended ==
    ASSUME clients \in Seq(Client), NEW e \in Client, clients' = Append(clients, e)
    PROVE  /\ clients' \in Seq(Client) /\ Len(clients') = Len(clients) + 1
           /\ DOMAIN clients = 1 .. Len(clients) /\ Len(clients) \in Nat
           /\ DOMAIN clients' = DOMAIN clients \cup {Len(clients) + 1}
           /\ clients'[Len(clients) + 1] = e /\ \A d \in DOMAIN clients : clients'[d] = clients[d]
<1>1. /\ clients' \in Seq(Client) /\ Len(clients') = Len(clients) + 1
      /\ \A d \in 1 .. Len(clients) : clients'[d] = clients[d]
      /\ clients'[Len(clients) + 1] = e
    BY AppendProperties
<1> QED BY <1>1

LEMMA EmptyHasNoClients ==
    ASSUME clients \in Seq(Client)
    PROVE  /\ Len(clients) \in Nat /\ DOMAIN clients = 1 .. Len(clients)
           /\ clients = << >> <=> Len(clients) = 0
           /\ \A c \in DOMAIN clients : /\ clients[c] \in Client /\ clients[c].mode \in {"default", "reload"}
                                        /\ clients[c].table \in BOOLEAN /\ clients[c].version \in 0 .. LastVersion
<1>1. \A c \in 1 .. Len(clients) : clients[c] \in Client
    BY ElementOfSeq
<1> QED BY <1>1, EmptySeq DEF Client

-----------------------------------------------------------------------------
LEMMA SessionInvInit == Init => SessionInv
<1> SUFFICES ASSUME Init PROVE SessionInv
    OBVIOUS
<1>1. clients = << >> /\ clients \in Seq(Client) /\ Len(clients) = 0 /\ DOMAIN clients = {}
    BY DEF Init
<1>2. TypeInv
    <2>1. failing \in BOOLEAN /\ overlap \in BOOLEAN /\ ready \in BOOLEAN
        BY FlagsAreBoolean DEF Init
    <2>2. result \in [Tasks -> [error : {"none", "failed", "stale", "no_table"}, version : 0 .. LastVersion]]
        BY DEF Init
    <2>3. /\ published \in Versions /\ newest \in 0 .. LastVersion /\ client = Len(clients)
          /\ pc \in [Tasks -> {"idle", "create", "register", "count", "query"}]
          /\ stage \in [Tasks -> {"first", "reopen", "rerun"}] /\ on \in [Tasks -> Nat]
          /\ since \in [Tasks -> 0 .. LastVersion] /\ noticed \in [Tasks -> 0 .. LastVersion]
          /\ \A t \in Tasks : ~OnClient(t)
        BY <1>1 DEF Init, OnClient
    <2> QED BY <1>1, <2>1, <2>2, <2>3 DEF TypeInv
<1>3. PhasesInv
    BY <1>1, OpenerIsNoSearch DEF Init, PhasesInv, Tasks
<1>4. ClientsInv /\ VersionsInv /\ CalmInv
    BY <1>1 DEF Init, ClientsInv, VersionsInv, CalmInv, OneAtATime, ReloadsAreLast, RunsAreOfTheClient,
                CountIsOfTheClient, OnClient, IsOpen, Tasks, Versions
<1> QED BY <1>2, <1>3, <1>4 DEF SessionInv

-----------------------------------------------------------------------------
LEMMA RepublishKeepsInv ==
    ASSUME SessionInv, Republish, UNCHANGED chosen
    PROVE  SessionInv'
<1> USE DEF SessionInv, Republish, chosen
<1>1. published \in Nat /\ published' = published + 1 /\ published' \in Versions
    BY DEF TypeInv, Versions
<1>2. TypeInv'
    BY <1>1 DEF TypeInv, OnClient, Tasks
<1>3. PhasesInv'
    BY DEF PhasesInv
<1>4. ClientsInv'
    BY <1>1, EmptyHasNoClients DEF TypeInv, ClientsInv, IsOpen
<1>5. VersionsInv'
    BY <1>1 DEF TypeInv, VersionsInv, OnClient, IsOpen
<1>6. CalmInv'
    BY <1>1 DEF CalmInv, Calm, OneAtATime, ReloadsAreLast, RunsAreOfTheClient, CountIsOfTheClient, OnClient
<1> QED BY <1>2, <1>3, <1>4, <1>5, <1>6

(* A store opened by the server's own answer is of what is published now;  *)
(* only the first client may open another version, and nothing was         *)
(* answered before.                                                        *)
LEMMA OpenStoreKeepsInv ==
    ASSUME SessionInv, NEW t \in Tasks, OpenStore(t), UNCHANGED chosen
    PROVE  SessionInv'
<1> USE DEF SessionInv
<1> DEFINE o == on[t]
<1>1. /\ pc[t] = "register" /\ OnClient(t) /\ o \in DOMAIN clients /\ ~IsOpen(o)
      /\ UNCHANGED <<published, client, rowCount, ready, pc, stage, on, result, newest, since, noticed, chosen>>
    BY DEF OpenStore, OnClient, TypeInv, IsOpen
<1>2. PICK v \in Reachable(clients[o].mode) : clients' = [clients EXCEPT ![o].version = v]
    BY DEF OpenStore
<1>3. /\ v \in 1 .. published /\ published \in 1 .. LastVersion
      /\ clients[o].mode = "reload" => v = published
    BY <1>2 DEF Reachable, TypeInv, Versions
<1> DEFINE e == [clients[o] EXCEPT !.version = v]
<1>4. e \in Client /\ e.version = v /\ e.table = clients[o].table /\ e.mode = clients[o].mode
    <2>1. clients[o] \in Client
        BY <1>1, EmptyHasNoClients DEF TypeInv
    <2>2. v \in 0 .. LastVersion
        BY <1>3
    <2> QED BY <2>1, <2>2 DEF Client
<1>5. clients' = [clients EXCEPT ![o] = e]
    BY <1>2
<1>6. /\ clients' \in Seq(Client) /\ Len(clients') = Len(clients) /\ DOMAIN clients' = DOMAIN clients
      /\ DOMAIN clients = 1 .. Len(clients) /\ Len(clients) \in Nat
      /\ clients'[o] = e /\ \A d \in DOMAIN clients : d # o => clients'[d] = clients[d]
    <2> HIDE DEF e, o
    <2> QED BY <1>1, <1>4, <1>5, ClientIsUpdated DEF TypeInv
<1>7. /\ clients # << >> /\ clients' # << >>
      /\ \A c \in DOMAIN clients : /\ clients'[c].mode = clients[c].mode /\ clients'[c].table = clients[c].table
                                   /\ clients'[c].version = IF c = o THEN v ELSE clients[c].version
    <2>1. \A c \in DOMAIN clients : /\ clients'[c].mode = clients[c].mode /\ clients'[c].table = clients[c].table
                                   /\ clients'[c].version = IF c = o THEN v ELSE clients[c].version
        BY <1>1, <1>4, <1>6
    <2>2. clients # << >> /\ Len(clients) # 0
        BY <1>1, EmptyHasNoClients DEF TypeInv
    <2>3. clients' # << >>
        BY <1>6, <2>2, EmptySeq
    <2> QED BY <2>1, <2>2, <2>3
<1>8. TypeInv'
    BY <1>1, <1>6 DEF TypeInv, OnClient, chosen
<1>9. PhasesInv'
    BY <1>1, <1>7 DEF PhasesInv
<1>10. \A c \in DOMAIN clients : (IsOpen(c))' <=> (c = o \/ IsOpen(c))
    BY <1>3, <1>7 DEF IsOpen
<1>11. o = 1 => Len(clients) = 1 /\ ~ready /\ newest = NoVersion
    BY <1>1, <1>7 DEF ClientsInv
<1>12. o # 1 => v = published
    BY <1>1, <1>3 DEF ClientsInv
<1>13. ClientsInv'
    <2>1. \A c \in DOMAIN clients' :
            /\ clients'[c].version <= published'
            /\ c # 1 => clients'[c].mode = "reload"
            /\ clients'[c].table => (IsOpen(c))'
        BY <1>1, <1>3, <1>6, <1>7, <1>10 DEF ClientsInv
    <2>2. ~(IsOpen(1))' => ~IsOpen(1) /\ o # 1
        BY <1>1, <1>6, <1>7, <1>10
    <2>3. (IsOpen(1))'
        BY <1>1, <1>6, <1>7, <2>2 DEF ClientsInv, TypeInv
    <2> QED BY <1>1, <1>7, <2>1, <2>3 DEF ClientsInv
<1>14. VersionsInv'
    <2>1. newest' <= published'
        BY <1>1 DEF VersionsInv
    <2>2. (IsOpen(client))' => newest <= clients'[client].version
        BY <1>1, <1>3, <1>6, <1>7, <1>10, <1>11, <1>12 DEF VersionsInv, TypeInv
    <2>3. ASSUME NEW q \in Tasks, pc[q] = "query"
          PROVE  /\ clients'[on[q]].table /\ since[q] <= clients'[on[q]].version
                 /\ \A c \in DOMAIN clients :
                      c > on[q] /\ (IsOpen(c))' => clients'[on[q]].version <= clients'[c].version
        <3>1. on[q] \in DOMAIN clients /\ IsOpen(on[q]) /\ on[q] # o
            BY <1>1, <2>3 DEF OnClient, TypeInv, VersionsInv, ClientsInv
        <3>2. clients[on[q]].version <= published
            BY <3>1 DEF ClientsInv
        <3>3. \A c \in DOMAIN clients : c > on[q] => c # 1
            BY <1>6, <3>1
        <3> QED BY <1>7, <1>10, <1>12, <2>3, <3>1, <3>2, <3>3 DEF VersionsInv
    <2>4. ASSUME NEW q \in Tasks, OnClient(q), stage[q] # "first"
          PROVE  /\ on[q] # 1
                 /\ \A c \in DOMAIN clients : c >= on[q] /\ (IsOpen(c))' => noticed[q] <= clients'[c].version
        <3>1. /\ on[q] \in DOMAIN clients /\ on[q] # 1 /\ noticed[q] <= published
              /\ \A c \in DOMAIN clients : c >= on[q] /\ IsOpen(c) => noticed[q] <= clients[c].version
            BY <2>4 DEF TypeInv, VersionsInv
        <3>2. \A c \in DOMAIN clients : c >= on[q] => c # 1
            BY <1>6, <3>1
        <3> QED BY <1>7, <1>10, <1>12, <3>1, <3>2
    <2>5. clients' # << >> /\ (IsOpen(client))' => newest' <= clients'[client'].version
        BY <1>1, <2>2
    <2> QED BY <1>1, <1>6, <2>1, <2>3, <2>4, <2>5 DEF VersionsInv, OnClient, IsOpen
<1>15. CalmInv'
    <2> SUFFICES ASSUME (~overlap /\ Calm)' PROVE CalmInv'
        BY DEF CalmInv
    <2>1. ~overlap /\ Calm
        BY <1>1 DEF chosen, Calm
    <2>2. ReloadsAreLast'
        BY <1>1, <1>3, <1>6, <1>7, <2>1 DEF CalmInv, ReloadsAreLast
    <2>3. CountIsOfTheClient'
        <3> SUFFICES ASSUME ready, \A q \in Searches : pc[q] \in {"idle", "query"}
                     PROVE  clients'[client].table /\ rowCount = clients'[client].version
            BY <1>1 DEF CountIsOfTheClient
        <3>1. clients[client].table /\ rowCount = clients[client].version /\ client \in DOMAIN clients
            BY <1>6, <1>7, <2>1, EmptyHasNoClients DEF CalmInv, CountIsOfTheClient, TypeInv
        <3>2. client # o
            BY <1>1, <3>1 DEF ClientsInv
        <3> QED BY <1>7, <3>1, <3>2
    <2>4. \A q \in Tasks : pc'[q] = "count" => clients'[client'].table
        <3> SUFFICES ASSUME NEW q \in Tasks, pc[q] = "count" PROVE clients'[client].table
            BY <1>1
        <3>1. clients[client].table /\ client \in DOMAIN clients
            BY <2>1 DEF CalmInv, RunsAreOfTheClient, OnClient, TypeInv
        <3> QED BY <1>7, <3>1
    <2>5. RunsAreOfTheClient' /\ OneAtATime'
        BY <1>1, <2>1, <2>4 DEF CalmInv, RunsAreOfTheClient, OneAtATime, OnClient
    <2> QED BY <2>2, <2>3, <2>5 DEF CalmInv
<1> QED BY <1>8, <1>9, <1>13, <1>14, <1>15

(* A rejection that the code can meet: of a failing request, or of an open *)
(* client that would read another version.                                 *)
CanBeRejected(t, error) ==
    /\ pc[t] # "idle"
    /\ \/ error = "failed" /\ failing
       \/ error = "stale" /\ OnClient(t) /\ IsOpen(on[t]) /\ MayBeStale(on[t])

LEMMA RejectedKeepsInv ==
    ASSUME SessionInv, NEW t \in Tasks, NEW error, CanBeRejected(t, error), Rejected(t, error),
           UNCHANGED <<published, client, since, chosen>>
    PROVE  SessionInv'
<1> USE DEF SessionInv
<1> DEFINE Reopens == error = "stale" /\ stage[t] = "first"
<1>1. /\ UNCHANGED <<published, client, clients, rowCount, ready, newest, since, failing, overlap>>
      /\ Reopens => /\ pc' = [pc EXCEPT ![t] = "create"] /\ stage' = [stage EXCEPT ![t] = "reopen"]
                     /\ noticed' = [noticed EXCEPT ![t] = published] /\ UNCHANGED <<on, result>>
      /\ ~Reopens => /\ pc' = [pc EXCEPT ![t] = "idle"] /\ stage' = [stage EXCEPT ![t] = "first"]
                      /\ on' = [on EXCEPT ![t] = 0] /\ UNCHANGED noticed
                      /\ result' = [result EXCEPT ![t] = [error |-> error, version |-> NoVersion]]
    BY DEF Rejected, End, chosen
<1>2. error \in {"failed", "stale"} /\ pc[t] # "idle"
    BY DEF CanBeRejected
<1>3. error = "stale" =>
        /\ OnClient(t) /\ on[t] \in DOMAIN clients /\ clients # << >> /\ IsOpen(on[t]) /\ published >= 2
        /\ clients[on[t]].mode = "reload" => clients[on[t]].version # published
    <2> SUFFICES ASSUME error = "stale" PROVE /\ OnClient(t) /\ on[t] \in DOMAIN clients /\ clients # << >>
                                              /\ IsOpen(on[t]) /\ published >= 2
                                              /\ clients[on[t]].mode = "reload" => clients[on[t]].version # published
        OBVIOUS
    <2>1. OnClient(t) /\ on[t] \in DOMAIN clients /\ IsOpen(on[t])
        BY DEF CanBeRejected, TypeInv
    <2>2. PICK v \in Reachable(clients[on[t]].mode) : v # clients[on[t]].version
        BY DEF CanBeRejected, MayBeStale
    <2>3. v \in 1 .. published /\ published \in Nat /\ (clients[on[t]].mode = "reload" => v = published)
        BY <2>2 DEF Reachable, TypeInv, Versions
    <2>4. clients[on[t]].version \in 1 .. published
        BY <2>1, EmptyHasNoClients DEF TypeInv, IsOpen, ClientsInv, Versions
    <2>5. clients # << >>
        BY <2>1, EmptyHasNoClients DEF TypeInv
    <2> QED BY <2>1, <2>2, <2>3, <2>4, <2>5
<1>4. /\ \A q \in Tasks : q # t => /\ pc'[q] = pc[q] /\ stage'[q] = stage[q] /\ on'[q] = on[q]
                                    /\ result'[q] = result[q] /\ noticed'[q] = noticed[q]
      /\ Reopens => pc'[t] = "create" /\ stage'[t] = "reopen" /\ noticed'[t] = published /\ result'[t] = result[t]
      /\ ~Reopens => pc'[t] = "idle" /\ stage'[t] = "first" /\ noticed'[t] = noticed[t]
    BY <1>1 DEF TypeInv
<1>5. TypeInv'
    <2>1. result' \in [Tasks -> [error : {"none", "failed", "stale", "no_table"}, version : 0 .. LastVersion]]
        <3>1. [error |-> error, version |-> NoVersion] \in [error : {"none", "failed", "stale", "no_table"}, version : 0 .. LastVersion]
            BY <1>2
        <3> QED BY <1>1, <3>1 DEF TypeInv
    <2>2. noticed' \in [Tasks -> 0 .. LastVersion]
        <3>1. published \in 0 .. LastVersion
            BY DEF TypeInv, Versions
        <3>2. CASE Reopens
            BY <1>1, <3>1, <3>2 DEF TypeInv
        <3>3. CASE ~Reopens
            BY <1>1, <3>3 DEF TypeInv
        <3> QED BY <3>2, <3>3
    <2>3. /\ pc' \in [Tasks -> {"idle", "create", "register", "count", "query"}]
          /\ stage' \in [Tasks -> {"first", "reopen", "rerun"}]
          /\ on' \in [Tasks -> Nat]
        <3>1. CASE Reopens
            BY <1>1, <3>1 DEF TypeInv
        <3>2. CASE ~Reopens
            <4>1. pc' \in [Tasks -> {"idle", "create", "register", "count", "query"}]
                BY <1>1, <3>2 DEF TypeInv
            <4>2. stage' \in [Tasks -> {"first", "reopen", "rerun"}]
                BY <1>1, <3>2 DEF TypeInv
            <4>3. on \in [Tasks -> Nat] /\ on' = [on EXCEPT ![t] = 0]
                BY <1>1, <3>2 DEF TypeInv
            <4> QED BY <4>1, <4>2, <4>3
        <3> QED BY <3>1, <3>2
    <2>4. \A q \in Tasks : (OnClient(q))' => on'[q] \in DOMAIN clients'
        BY <1>1, <1>4 DEF TypeInv, OnClient
    <2> QED BY <1>1, <2>1, <2>2, <2>3, <2>4 DEF TypeInv
<1>6. PhasesInv'
    <2>1. ~ready => \A q \in Searches : pc'[q] = "idle"
        BY <1>2, <1>4 DEF PhasesInv, Tasks
    <2>2. ready => pc'[Opener] = "idle" /\ clients # << >>
        BY <1>2, <1>4 DEF PhasesInv, Tasks
    <2>3. /\ pc'[Opener] # "query"
          /\ pc'[Opener] = "create" => (IF stage'[Opener] = "first" THEN clients = << >>
                                         ELSE stage'[Opener] = "reopen" /\ clients # << >>)
        BY <1>3, <1>4 DEF PhasesInv, Tasks
    <2>4. \A q \in Searches : /\ pc'[q] \in {"create", "register", "count"} => stage'[q] = "reopen"
                              /\ pc'[q] = "query" => stage'[q] # "reopen"
        BY <1>4 DEF PhasesInv, Tasks
    <2> QED BY <1>1, <2>1, <2>2, <2>3, <2>4 DEF PhasesInv
<1>7. ClientsInv'
    <2>1. clients # << >> /\ ~IsOpen(1) =>
            pc'[Opener] = "idle" \/ (pc'[Opener] = "register" /\ stage'[Opener] = "first")
        <3> SUFFICES ASSUME clients # << >>, ~IsOpen(1), t = Opener
                     PROVE  pc'[Opener] = "idle" \/ (pc'[Opener] = "register" /\ stage'[Opener] = "first")
            BY <1>4 DEF ClientsInv, Tasks
        <3>1. Len(clients) = 1 /\ (OnClient(t) => on[t] = 1)
            BY EmptyHasNoClients DEF ClientsInv, TypeInv
        <3>2. error # "stale"
            BY <1>3, <3>1
        <3> QED BY <1>4, <3>2
    <2> QED BY <1>1, <2>1 DEF ClientsInv, IsOpen
<1>8. VersionsInv'
    <2>1. \A q \in Tasks : since[q] <= newest /\ noticed'[q] <= published
        <3>1. \A q \in Tasks : noticed'[q] = noticed[q] \/ noticed'[q] = published
            BY <1>4
        <3>2. published \in Nat
            BY DEF TypeInv, Versions
        <3> QED BY <3>1, <3>2 DEF VersionsInv
    <2>2. \A q \in Tasks : (OnClient(q))' => OnClient(q) /\ q # t
        BY <1>4 DEF OnClient
    <2>3. \A q \in Tasks : pc'[q] = "query" => q # t
        BY <1>4
    <2> QED BY <1>1, <1>4, <2>1, <2>2, <2>3 DEF VersionsInv, IsOpen
<1>9. CalmInv'
    <2> SUFFICES ASSUME (~overlap /\ Calm)' PROVE CalmInv'
        BY DEF CalmInv
    <2> HIDE DEF Reopens
    <2>1. ~overlap /\ Calm /\ published <= 2 /\ ~failing
        BY <1>1 DEF Calm
    <2>2. error = "stale" /\ published = 2
        BY <1>2, <1>3, <2>1 DEF CanBeRejected, TypeInv, Versions
    <2>3. Reopens
        <3> USE DEF Reopens
        <3> SUFFICES ASSUME stage[t] # "first" PROVE FALSE
            BY <2>2
        <3>1. on[t] # 1 /\ on[t] \in DOMAIN clients /\ IsOpen(on[t])
            BY <1>3, <2>2 DEF VersionsInv
        <3>2. clients[on[t]].mode = "reload"
            BY <3>1 DEF ClientsInv
        <3>3. clients[on[t]].version = 2
            BY <2>1, <3>1, <3>2 DEF CalmInv, ReloadsAreLast, IsOpen
        <3> QED BY <1>3, <2>2, <3>2, <3>3
    <2>4. OneAtATime'
        BY <1>2, <1>4, <2>1 DEF CalmInv, OneAtATime, Tasks
    <2>5. ReloadsAreLast'
        BY <1>1, <2>1 DEF CalmInv, ReloadsAreLast
    <2>6. RunsAreOfTheClient'
        BY <1>1, <1>4, <2>1, <2>2, <2>3 DEF CalmInv, RunsAreOfTheClient, OnClient
    <2>7. CountIsOfTheClient'
        <3>1. ready => ~\A q \in Searches : pc'[q] \in {"idle", "query"}
            BY <1>2, <1>4, <2>3 DEF PhasesInv, Tasks
        <3> QED BY <1>1, <3>1 DEF CountIsOfTheClient
    <2> QED BY <2>4, <2>5, <2>6, <2>7 DEF CalmInv
<1> QED BY <1>5, <1>6, <1>7, <1>8, <1>9

-----------------------------------------------------------------------------
(* A run ends, or never starts. *)
LEMMA EndKeepsTypes ==
    ASSUME TypeInv, NEW t \in Tasks, NEW error \in {"none", "failed", "stale", "no_table"},
           NEW v \in 0 .. LastVersion, End(t, error, v)
    PROVE  /\ pc' \in [Tasks -> {"idle", "create", "register", "count", "query"}]
           /\ stage' \in [Tasks -> {"first", "reopen", "rerun"}] /\ on' \in [Tasks -> Nat]
           /\ result' \in [Tasks -> [error : {"none", "failed", "stale", "no_table"}, version : 0 .. LastVersion]]
           /\ pc'[t] = "idle" /\ stage'[t] = "first" /\ result'[t] = [error |-> error, version |-> v]
           /\ \A q \in Tasks : q # t => /\ pc'[q] = pc[q] /\ stage'[q] = stage[q] /\ on'[q] = on[q]
                                         /\ result'[q] = result[q]
<1>1. [error |-> error, version |-> v] \in [error : {"none", "failed", "stale", "no_table"}, version : 0 .. LastVersion]
    OBVIOUS
<1>2. result' \in [Tasks -> [error : {"none", "failed", "stale", "no_table"}, version : 0 .. LastVersion]]
    BY <1>1 DEF End, TypeInv
<1>3. on \in [Tasks -> Nat] /\ on' = [on EXCEPT ![t] = 0]
    BY DEF End, TypeInv
<1> QED BY <1>2, <1>3 DEF End, TypeInv

(* A query starts on the session's client, or has no table there: that is  *)
(* so only if another search is replacing it.                              *)
LEMMA QueryRuns ==
    ASSUME SessionInv, NEW t \in Searches, NEW s \in {"first", "rerun"}, ready, Run(t, s, client),
           OnClient(t) /\ stage[t] = "reopen" <=> s = "rerun",
           s = "rerun" => pc[t] = "count", s = "first" => pc[t] = "idle" /\ \A q \in Searches : overlap \/ pc[q] = "idle",
           UNCHANGED <<published, client, ready, chosen, newest, noticed>>,
           rowCount' = IF s = "rerun" THEN clients[on[t]].version ELSE rowCount,
           since' = IF s = "first" THEN [since EXCEPT ![t] = newest] ELSE since
    PROVE  SessionInv'
<1> USE DEF SessionInv
<1> DEFINE Has == clients[client].table
<1>1. /\ t \in Tasks /\ t # Opener /\ UNCHANGED clients /\ clients # << >> /\ client \in DOMAIN clients
      /\ client = Len(clients) /\ DOMAIN clients = 1 .. Len(clients) /\ Len(clients) \in Nat
    BY OpenerIsNoSearch, EmptyHasNoClients DEF Run, Tasks, TypeInv, PhasesInv
<1>2. Has => /\ pc' = [pc EXCEPT ![t] = "query"] /\ stage' = [stage EXCEPT ![t] = s]
             /\ on' = [on EXCEPT ![t] = client] /\ UNCHANGED result
    BY <1>1 DEF Run
<1>3. ~Has => End(t, "no_table", NoVersion)
    BY <1>1 DEF Run
<1>4. /\ pc' \in [Tasks -> {"idle", "create", "register", "count", "query"}]
      /\ stage' \in [Tasks -> {"first", "reopen", "rerun"}] /\ on' \in [Tasks -> Nat]
      /\ result' \in [Tasks -> [error : {"none", "failed", "stale", "no_table"}, version : 0 .. LastVersion]]
      /\ Has => pc'[t] = "query" /\ stage'[t] = s /\ on'[t] = client /\ result'[t] = result[t]
      /\ ~Has => pc'[t] = "idle" /\ stage'[t] = "first"
      /\ \A q \in Tasks : q # t => /\ pc'[q] = pc[q] /\ stage'[q] = stage[q] /\ on'[q] = on[q]
                                    /\ result'[q] = result[q]
    <2>1. CASE Has
        <3>1. /\ pc \in [Tasks -> {"idle", "create", "register", "count", "query"}]
              /\ stage \in [Tasks -> {"first", "reopen", "rerun"}] /\ on \in [Tasks -> Nat]
              /\ result \in [Tasks -> [error : {"none", "failed", "stale", "no_table"}, version : 0 .. LastVersion]]
            BY DEF TypeInv
        <3>2. /\ pc' = [pc EXCEPT ![t] = "query"] /\ stage' = [stage EXCEPT ![t] = s]
              /\ on' = [on EXCEPT ![t] = client] /\ result' = result /\ client \in Nat
            BY <1>1, <1>2, <2>1
        <3> HIDE DEF Has
        <3>3. /\ pc' \in [Tasks -> {"idle", "create", "register", "count", "query"}]
              /\ pc'[t] = "query" /\ \A q \in Tasks : q # t => pc'[q] = pc[q]
            BY <1>1, <3>1, <3>2
        <3>4. /\ stage' \in [Tasks -> {"first", "reopen", "rerun"}]
              /\ stage'[t] = s /\ \A q \in Tasks : q # t => stage'[q] = stage[q]
            BY <1>1, <3>1, <3>2
        <3>5. on' \in [Tasks -> Nat] /\ on'[t] = client /\ \A q \in Tasks : q # t => on'[q] = on[q]
            BY <1>1, <3>1, <3>2
        <3> QED BY <2>1, <3>1, <3>2, <3>3, <3>4, <3>5
    <2>2. CASE ~Has
        <3>1. NoVersion \in 0 .. LastVersion
            OBVIOUS
        <3> QED BY <1>1, <1>3, <2>2, <3>1, EndKeepsTypes
    <2> QED BY <2>1, <2>2
<1>5. since' \in [Tasks -> 0 .. LastVersion] /\ \A q \in Tasks : since'[q] \in {since[q], newest}
    BY DEF TypeInv
<1> HIDE DEF Has
<1>6. TypeInv'
    <2>1. \A q \in Tasks : (OnClient(q))' => on'[q] \in DOMAIN clients
        BY <1>1, <1>4 DEF TypeInv, OnClient
    <2> QED BY <1>1, <1>4, <1>5, <2>1 DEF TypeInv, chosen
<1>7. PhasesInv'
    BY <1>1, <1>4 DEF PhasesInv, Tasks
<1>8. ClientsInv'
    BY <1>1, <1>4 DEF ClientsInv, IsOpen
<1>9. VersionsInv'
    <2>1. \A q \in Tasks : since'[q] <= newest
        BY <1>5 DEF VersionsInv, TypeInv
    <2>2. Has => IsOpen(client) /\ newest <= clients[client].version
        BY <1>1 DEF Has, ClientsInv, VersionsInv
    <2>3. Has => since'[t] <= clients[client].version
        BY <1>1, <2>1, <2>2, <1>6, EmptyHasNoClients DEF TypeInv
    <2>4. Has /\ s = "rerun" => /\ client # 1
                               /\ \A c \in DOMAIN clients : c >= client /\ IsOpen(c) => noticed[t] <= clients[c].version
        <3> SUFFICES ASSUME s = "rerun"
                     PROVE  /\ client # 1
                            /\ \A c \in DOMAIN clients : c >= client /\ IsOpen(c) => noticed[t] <= clients[c].version
            OBVIOUS
        <3>1. on[t] \in DOMAIN clients /\ on[t] # 1
            BY <1>1 DEF TypeInv, VersionsInv, OnClient
        <3>2. \A c \in DOMAIN clients : c >= client => c >= on[t]
            BY <1>1, <3>1
        <3> QED BY <1>1, <3>1, <3>2 DEF VersionsInv, OnClient
    <2>5. \A q \in Tasks \ {t} : pc[q] = "query" => s = "first" \/ since'[q] = since[q]
        OBVIOUS
    <2>6. \A q \in Tasks \ {t} : since'[q] = since[q]
        BY DEF TypeInv
    <2>7. \A c \in DOMAIN clients : ~(c > client)
        BY <1>1
    <2>8. \A q \in Tasks \ {t} :
            /\ pc'[q] = "query" =>
                  /\ clients[on'[q]].table /\ since'[q] <= clients[on'[q]].version
                  /\ \A c \in DOMAIN clients :
                        c > on'[q] /\ IsOpen(c) => clients[on'[q]].version <= clients[c].version
            /\ (OnClient(q))' /\ stage'[q] # "first" =>
                  /\ on'[q] # 1
                  /\ \A c \in DOMAIN clients : c >= on'[q] /\ IsOpen(c) => noticed[q] <= clients[c].version
        <3> TAKE q \in Tasks \ {t}
        <3>1. /\ pc[q] = "query" =>
                    /\ clients[on[q]].table /\ since[q] <= clients[on[q]].version
                    /\ \A c \in DOMAIN clients :
                          c > on[q] /\ IsOpen(c) => clients[on[q]].version <= clients[c].version
              /\ OnClient(q) /\ stage[q] # "first" =>
                    /\ on[q] # 1
                    /\ \A c \in DOMAIN clients : c >= on[q] /\ IsOpen(c) => noticed[q] <= clients[c].version
            BY DEF VersionsInv
        <3>2. pc'[q] = pc[q] /\ stage'[q] = stage[q] /\ on'[q] = on[q] /\ since'[q] = since[q]
            BY <1>4, <2>6
        <3>3. (OnClient(q))' <=> OnClient(q)
            BY <3>2 DEF OnClient
        <3> QED BY ONLY <3>1, <3>2, <3>3
    <2>9. /\ pc'[t] = "query" =>
                /\ clients[on'[t]].table /\ since'[t] <= clients[on'[t]].version
                /\ \A c \in DOMAIN clients :
                      c > on'[t] /\ IsOpen(c) => clients[on'[t]].version <= clients[c].version
          /\ (OnClient(t))' /\ stage'[t] # "first" =>
                /\ on'[t] # 1
                /\ \A c \in DOMAIN clients : c >= on'[t] /\ IsOpen(c) => noticed[t] <= clients[c].version
        <3>1. CASE Has
            BY <1>4, <2>3, <2>4, <2>7, <3>1 DEF OnClient, Has
        <3>2. CASE ~Has
            BY <1>4, <3>2 DEF OnClient
        <3> QED BY <3>1, <3>2
    <2> QED BY <1>1, <2>1, <2>8, <2>9 DEF VersionsInv, IsOpen
<1>10. CalmInv'
    <2> SUFFICES ASSUME (~overlap /\ Calm)' PROVE CalmInv'
        BY DEF CalmInv
    <2>1. ~overlap /\ Calm
        BY DEF chosen, Calm
    <2>2. \A q \in Searches : q # t => pc[q] = "idle"
        BY <2>1 DEF CalmInv, OneAtATime
    <2>3. Has /\ rowCount' = clients[client].version
        <3>1. CASE s = "first"
            BY <2>1, <2>2, <3>1 DEF CalmInv, CountIsOfTheClient, Has
        <3>2. CASE s = "rerun"
            BY <1>1, <2>1, <3>2 DEF CalmInv, RunsAreOfTheClient, Has, OnClient
        <3> QED BY <3>1, <3>2
    <2>4. s = "rerun" => published = 2
        BY <1>1, <2>1 DEF CalmInv, RunsAreOfTheClient
    <2>5. OneAtATime'
        BY <1>1, <1>4, <2>2 DEF OneAtATime, Tasks
    <2>6. ReloadsAreLast'
        BY <1>1, <2>1 DEF CalmInv, ReloadsAreLast
    <2>7. RunsAreOfTheClient'
        <3>1. s = "first" \/ published = 2
            BY <2>4
        <3>2. /\ result'[t].error = "none" /\ (stage'[t] # "first" => published' = 2)
              /\ on'[t] = client' /\ pc'[t] # "count"
            BY <1>1, <1>4, <2>1, <2>3, <3>1 DEF CalmInv, RunsAreOfTheClient
        <3>3. \A q \in Tasks \ {t} :
                /\ q \in Searches => result'[q].error = "none"
                /\ stage'[q] # "first" => published' = 2
                /\ (OnClient(q))' => on'[q] = client'
                /\ pc'[q] = "count" => clients'[client'].table
            <4> TAKE q \in Tasks \ {t}
            <4>1. /\ q \in Searches => result[q].error = "none"
                  /\ stage[q] # "first" => published = 2
                  /\ OnClient(q) => on[q] = client
                  /\ pc[q] = "count" => clients[client].table
                BY <2>1 DEF CalmInv, RunsAreOfTheClient
            <4>2. /\ pc'[q] = pc[q] /\ stage'[q] = stage[q] /\ on'[q] = on[q] /\ result'[q] = result[q]
                  /\ UNCHANGED <<published, client, clients>>
                BY <1>1, <1>4
            <4> QED BY <4>1, <4>2 DEF OnClient
        <3> QED BY <3>2, <3>3 DEF RunsAreOfTheClient
    <2>8. CountIsOfTheClient'
        BY <1>1, <2>3 DEF CountIsOfTheClient, Has
    <2> QED BY <2>5, <2>6, <2>7, <2>8 DEF CalmInv
<1> QED BY <1>6, <1>7, <1>8, <1>9, <1>10

LEMMA StartSearchKeepsInv ==
    ASSUME SessionInv, NEW t \in Tasks, StartSearch(t), UNCHANGED chosen
    PROVE  SessionInv'
<1>1. t \in Searches /\ ready /\ pc[t] = "idle" /\ Run(t, "first", client)
    BY DEF StartSearch, Tasks
<1>2. ~OnClient(t) /\ \A q \in Searches : overlap \/ pc[q] = "idle"
    BY <1>1 DEF StartSearch, OnClient
<1> QED BY <1>1, <1>2, QueryRuns DEF StartSearch

-----------------------------------------------------------------------------
LEMMA CreateClientKeepsInv ==
    ASSUME SessionInv, NEW t \in Tasks, CreateClient(t), UNCHANGED chosen
    PROVE  SessionInv'
<1> USE DEF SessionInv
<1>1. CASE ~loaded /\ failing /\ Rejected(t, "failed") /\ UNCHANGED <<client, loaded>>
    <2>1. CanBeRejected(t, "failed")
        BY <1>1 DEF CanBeRejected, CreateClient
    <2> QED BY <1>1, <2>1, RejectedKeepsInv DEF CreateClient
<1>2. CASE ~(~loaded /\ failing /\ Rejected(t, "failed") /\ UNCHANGED <<client, loaded>>)
    <2> DEFINE e == NewClient(IF stage[t] = "first" THEN "default" ELSE "reload")
               n == Len(clients) + 1
    <2>1. /\ pc[t] = "create" /\ clients' = Append(clients, e) /\ client' = n
          /\ pc' = [pc EXCEPT ![t] = "register"] /\ on' = [on EXCEPT ![t] = n]
          /\ UNCHANGED <<published, rowCount, ready, stage, result, newest, noticed, since, failing, overlap>>
        BY <1>2 DEF CreateClient, chosen
    <2>2. /\ e \in Client /\ e.version = NoVersion /\ e.table = FALSE
          /\ e.mode = (IF stage[t] = "first" THEN "default" ELSE "reload")
        BY DEF NewClient, Client
    <2>3. /\ clients' \in Seq(Client) /\ Len(clients') = n /\ n \in Nat /\ n >= 1
          /\ DOMAIN clients = 1 .. Len(clients) /\ Len(clients) \in Nat
          /\ DOMAIN clients' = DOMAIN clients \cup {n}
          /\ clients'[n] = e /\ \A d \in DOMAIN clients : clients'[d] = clients[d] /\ d # n
        <3> HIDE DEF e
        <3>1. clients' = Append(clients, e)
            BY <2>1
        <3> QED BY <2>2, <3>1, ClientIsAppended DEF TypeInv
    <2> HIDE DEF e
    <2>4. clients' # << >>
        BY <2>3, EmptySeq
    <2>5. /\ \A q \in Tasks : q # t => pc'[q] = pc[q] /\ on'[q] = on[q]
          /\ pc'[t] = "register" /\ on'[t] = n /\ (OnClient(t))'
        BY <2>1 DEF TypeInv, OnClient
    <2>6. stage[t] = "first" => t = Opener /\ clients = << >>
        BY <2>1 DEF PhasesInv, Tasks
    <2>7. stage[t] # "first" => stage[t] = "reopen" /\ clients # << >> /\ n # 1 /\ IsOpen(1)
        <3> SUFFICES ASSUME stage[t] # "first" PROVE stage[t] = "reopen" /\ clients # << >> /\ n # 1 /\ IsOpen(1)
            OBVIOUS
        <3>1. stage[t] = "reopen" /\ clients # << >>
            BY <2>1 DEF PhasesInv, Tasks
        <3>2. IsOpen(1)
            <4>1. t \in Searches => ready
                BY <2>1 DEF PhasesInv
            <4> QED BY <2>1, <3>1, <4>1 DEF ClientsInv, Tasks
        <3> QED BY <2>3, <3>1, <3>2, EmptyHasNoClients DEF TypeInv
    <2>8. TypeInv'
        <3>1. pc' \in [Tasks -> {"idle", "create", "register", "count", "query"}] /\ on' \in [Tasks -> Nat]
            BY <2>1, <2>3 DEF TypeInv
        <3>2. \A q \in Tasks : (OnClient(q))' => on'[q] \in DOMAIN clients'
            BY <2>3, <2>5 DEF TypeInv, OnClient
        <3> QED BY <2>1, <2>3, <3>1, <3>2 DEF TypeInv
    <2>9. PhasesInv'
        BY <2>1, <2>4, <2>5, <2>6, <2>7 DEF PhasesInv, Tasks
    <2>10. \A c \in DOMAIN clients : (IsOpen(c))' <=> IsOpen(c)
        BY <2>3 DEF IsOpen
    <2>11. \A c \in DOMAIN clients' : c = n => ~(IsOpen(c))'
        BY <2>2, <2>3 DEF IsOpen
    <2>12. ClientsInv'
        <3>1. \A c \in DOMAIN clients' :
                /\ clients'[c].version <= published'
                /\ c # 1 => clients'[c].mode = "reload"
                /\ clients'[c].table => (IsOpen(c))'
            <4>1. \A c \in DOMAIN clients :
                    /\ clients'[c].version <= published'
                    /\ c # 1 => clients'[c].mode = "reload"
                    /\ clients'[c].table => (IsOpen(c))'
                BY <2>1, <2>3, <2>10 DEF ClientsInv
            <4>2. /\ clients'[n].version <= published' /\ clients'[n].table = FALSE
                  /\ n # 1 => clients'[n].mode = "reload"
                BY <2>1, <2>2, <2>3, <2>6, EmptyHasNoClients DEF TypeInv, Versions
            <4> QED BY <2>3, <4>1, <4>2
        <3>2. CASE stage[t] = "first"
            <4>1. n = 1 /\ newest = NoVersion /\ t = Opener
                BY <2>6, <3>2, EmptyHasNoClients DEF ClientsInv, TypeInv
            <4>2. ~ready
                BY <2>1, <4>1 DEF PhasesInv
            <4> QED BY <2>1, <2>3, <2>4, <2>5, <3>1, <3>2, <4>1, <4>2 DEF ClientsInv
        <3>3. CASE stage[t] # "first"
            <4>1. (IsOpen(1))'
                <5>1. IsOpen(1) /\ 1 \in DOMAIN clients
                    BY <2>7, <3>3, EmptyHasNoClients DEF TypeInv
                <5> QED BY <2>3, <5>1 DEF IsOpen
            <4> QED BY <2>4, <3>1, <4>1 DEF ClientsInv
        <3> QED BY <3>2, <3>3
    <2>13. VersionsInv'
        <3>1. ~(IsOpen(client))'
            BY <2>1, <2>2, <2>3 DEF IsOpen
        <3>2. \A q \in Tasks \ {t} :
                /\ pc'[q] = "query" =>
                      /\ clients'[on'[q]].table /\ since'[q] <= clients'[on'[q]].version
                      /\ \A c \in DOMAIN clients' :
                            c > on'[q] /\ (IsOpen(c))' => clients'[on'[q]].version <= clients'[c].version
                /\ (OnClient(q))' /\ stage'[q] # "first" =>
                      /\ on'[q] # 1
                      /\ \A c \in DOMAIN clients' : c >= on'[q] /\ (IsOpen(c))' => noticed'[q] <= clients'[c].version
            <4> TAKE q \in Tasks \ {t}
            <4>1. OnClient(q) => on[q] \in DOMAIN clients
                BY DEF TypeInv
            <4>2. pc'[q] = pc[q] /\ on'[q] = on[q] /\ stage'[q] = stage[q] /\ since'[q] = since[q] /\ noticed'[q] = noticed[q]
                BY <2>1, <2>5
            <4>3. \A c \in DOMAIN clients' : (IsOpen(c))' => c \in DOMAIN clients /\ IsOpen(c) /\ clients'[c] = clients[c]
                BY <2>3, <2>10, <2>11
            <4>4. CASE pc[q] = "query"
                <5>1. /\ on[q] \in DOMAIN clients /\ clients[on[q]].table /\ since[q] <= clients[on[q]].version
                      /\ \A c \in DOMAIN clients : c > on[q] /\ IsOpen(c) => clients[on[q]].version <= clients[c].version
                    BY <4>1, <4>4 DEF VersionsInv, OnClient
                <5>2. clients'[on[q]] = clients[on[q]]
                    BY <2>3, <5>1
                <5>3. OnClient(q) /\ stage[q] # "first" =>
                        /\ on[q] # 1
                        /\ \A c \in DOMAIN clients : c >= on[q] /\ IsOpen(c) => noticed[q] <= clients[c].version
                    BY DEF VersionsInv
                <5> QED BY <4>2, <4>3, <5>1, <5>2, <5>3 DEF OnClient
            <4>5. CASE pc[q] # "query"
                BY <4>2, <4>3, <4>5 DEF VersionsInv, OnClient
            <4> QED BY <4>4, <4>5
        <3>3. /\ pc'[t] # "query"
              /\ stage'[t] # "first" =>
                    /\ on'[t] # 1
                    /\ \A c \in DOMAIN clients' : c >= on'[t] /\ (IsOpen(c))' => noticed'[t] <= clients'[c].version
            <4>1. \A c \in DOMAIN clients' : c >= n => c = n
                BY <2>3
            <4>2. \A c \in DOMAIN clients' : c >= n => ~(IsOpen(c))'
                BY <2>11, <4>1
            <4>3. stage'[t] # "first" => n # 1
                BY <2>1, <2>7
            <4> QED BY <2>5, <4>2, <4>3
        <3>4. newest' <= published' /\ \A q \in Tasks : since'[q] <= newest' /\ noticed'[q] <= published'
            BY <2>1 DEF VersionsInv
        <3> QED BY <3>1, <3>2, <3>3, <3>4 DEF VersionsInv
    <2>14. CalmInv'
        <3> SUFFICES ASSUME (~overlap /\ Calm)' PROVE CalmInv'
            BY DEF CalmInv
        <3>1. ~overlap /\ Calm
            BY <2>1 DEF Calm
        <3>2. OneAtATime'
            BY <2>1, <2>5, <3>1 DEF CalmInv, OneAtATime, Tasks
        <3>3. ReloadsAreLast'
            <4>1. stage[t] # "first" => published = 2
                BY <3>1 DEF CalmInv, RunsAreOfTheClient
            <4> QED BY <2>1, <2>2, <2>3, <3>1, <4>1 DEF CalmInv, ReloadsAreLast
        <3>4. \A q \in Tasks \ {t} : pc[q] = "idle"
            BY <2>1, <3>1 DEF CalmInv, OneAtATime, PhasesInv, Tasks
        <3>5. RunsAreOfTheClient'
            BY <2>1, <2>5, <3>1, <3>4 DEF CalmInv, RunsAreOfTheClient, OnClient
        <3>6. CountIsOfTheClient'
            BY <2>1, <2>5 DEF CountIsOfTheClient, PhasesInv, Tasks
        <3> QED BY <3>2, <3>3, <3>5, <3>6 DEF CalmInv
    <2> QED BY <2>8, <2>9, <2>12, <2>13, <2>14
<1> QED BY <1>1, <1>2

-----------------------------------------------------------------------------
(* A client whose table alone changes is as open as it was. *)
LEMMA TableChanges ==
    ASSUME TypeInv, NEW c \in DOMAIN clients, NEW b \in BOOLEAN, clients' = [clients EXCEPT ![c].table = b]
    PROVE  /\ clients' \in Seq(Client) /\ Len(clients') = Len(clients) /\ DOMAIN clients' = DOMAIN clients
           /\ clients # << >> /\ clients' # << >> /\ DOMAIN clients = 1 .. Len(clients) /\ Len(clients) \in Nat
           /\ \A d \in DOMAIN clients : /\ clients'[d].mode = clients[d].mode
                                        /\ clients'[d].version = clients[d].version
                                        /\ clients'[d].table = IF d = c THEN b ELSE clients[d].table
<1> DEFINE e == [clients[c] EXCEPT !.table = b]
<1>1. clients[c] \in Client
    BY EmptyHasNoClients DEF TypeInv
<1>2. e \in Client /\ e.mode = clients[c].mode /\ e.version = clients[c].version /\ e.table = b
    BY <1>1 DEF Client
<1>3. clients' = [clients EXCEPT ![c] = e]
    OBVIOUS
<1> HIDE DEF e
<1>4. /\ clients' \in Seq(Client) /\ Len(clients') = Len(clients) /\ DOMAIN clients' = DOMAIN clients
      /\ DOMAIN clients = 1 .. Len(clients) /\ Len(clients) \in Nat
      /\ clients'[c] = e /\ \A d \in DOMAIN clients : d # c => clients'[d] = clients[d]
    BY <1>2, <1>3, ClientIsUpdated DEF TypeInv
<1>5. clients # << >> /\ Len(clients) # 0
    BY EmptyHasNoClients DEF TypeInv
<1>6. clients' # << >>
    BY <1>4, <1>5, EmptySeq
<1> QED BY <1>2, <1>4, <1>5, <1>6

(* In a calm session, what is in flight is alone. *)
LEMMA CalmIsAlone ==
    ASSUME SessionInv, ~overlap, Calm, NEW t \in Tasks, pc[t] # "idle"
    PROVE  \A q \in Tasks \ {t} : pc[q] = "idle"
BY DEF SessionInv, CalmInv, OneAtATime, PhasesInv, Tasks

LEMMA RegisterKeepsInv ==
    ASSUME SessionInv, NEW t \in Tasks, Register(t), UNCHANGED chosen
    PROVE  SessionInv'
<1> USE DEF SessionInv
<1> DEFINE o == on[t]
<1>1. pc[t] = "register" /\ OnClient(t) /\ o \in DOMAIN clients
    BY DEF Register, OnClient, TypeInv
<1>2. CASE \E error \in Errors(o) : Rejected(t, error)
    <2>1. PICK error \in Errors(o) : Rejected(t, error)
        BY <1>2
    <2>2. CanBeRejected(t, error)
        BY <1>1, <2>1 DEF CanBeRejected, Errors, IsOpen
    <2> QED BY <2>1, <2>2, RejectedKeepsInv DEF Register
<1>3. CASE ~\E error \in Errors(o) : Rejected(t, error)
    <2>1. /\ IsOpen(o) /\ clients' = [clients EXCEPT ![o].table = TRUE]
          /\ pc' = [pc EXCEPT ![t] = "count"]
          /\ UNCHANGED <<published, client, rowCount, ready, stage, on, result, newest, noticed, since, failing, overlap>>
        BY <1>3 DEF Register, IsOpen, chosen
    <2>2. /\ clients' \in Seq(Client) /\ Len(clients') = Len(clients) /\ DOMAIN clients' = DOMAIN clients
          /\ clients # << >> /\ clients' # << >> /\ DOMAIN clients = 1 .. Len(clients) /\ Len(clients) \in Nat
          /\ \A d \in DOMAIN clients : /\ clients'[d].mode = clients[d].mode
                                       /\ clients'[d].version = clients[d].version
                                       /\ clients'[d].table = IF d = o THEN TRUE ELSE clients[d].table
        <3> HIDE DEF o
        <3> QED BY <1>1, <2>1, TableChanges
    <2>3. pc'[t] = "count" /\ \A q \in Tasks : q # t => pc'[q] = pc[q]
        BY <2>1 DEF TypeInv
    <2>4. \A c \in DOMAIN clients : (IsOpen(c))' <=> IsOpen(c)
        BY <2>2 DEF IsOpen
    <2>5. TypeInv'
        BY <1>1, <2>1, <2>2, <2>3 DEF TypeInv, OnClient
    <2>6. PhasesInv'
        BY <1>1, <2>1, <2>2, <2>3 DEF PhasesInv, Tasks
    <2>7. ClientsInv'
        <3>1. \A c \in DOMAIN clients' :
                /\ clients'[c].version <= published'
                /\ c # 1 => clients'[c].mode = "reload"
                /\ clients'[c].table => (IsOpen(c))'
            BY <2>1, <2>2, <2>4 DEF ClientsInv
        <3>2. ~(IsOpen(1))' => ~IsOpen(1) /\ o # 1
            BY <2>1, <2>2, <2>4
        <3>3. (IsOpen(1))'
            BY <1>1, <2>2, <3>2 DEF ClientsInv
        <3> QED BY <2>2, <3>1, <3>3 DEF ClientsInv
    <2>8. VersionsInv'
        <3>1. client \in DOMAIN clients
            BY <2>2 DEF TypeInv
        <3>2. (IsOpen(client))' => newest' <= clients'[client'].version
            BY <2>1, <2>2, <3>1 DEF VersionsInv, IsOpen
        <3>3. ASSUME NEW q \in Tasks
              PROVE  /\ pc'[q] = "query" =>
                           /\ clients'[on'[q]].table /\ since'[q] <= clients'[on'[q]].version
                           /\ \A c \in DOMAIN clients' :
                                 c > on'[q] /\ (IsOpen(c))' => clients'[on'[q]].version <= clients'[c].version
                     /\ (OnClient(q))' /\ stage'[q] # "first" =>
                           /\ on'[q] # 1
                           /\ \A c \in DOMAIN clients' : c >= on'[q] /\ (IsOpen(c))' => noticed'[q] <= clients'[c].version
            <4>1. (OnClient(q))' => OnClient(q) /\ on[q] \in DOMAIN clients
                BY <1>1, <2>3 DEF TypeInv, OnClient
            <4>2. pc'[q] = "query" => pc[q] = "query" /\ OnClient(q)
                BY <2>3 DEF OnClient
            <4>3. pc'[q] = "query" => clients'[on'[q]].table
                BY <2>1, <2>2, <4>1, <4>2 DEF VersionsInv, TypeInv
            <4> QED BY <2>1, <2>2, <2>4, <4>1, <4>2, <4>3 DEF VersionsInv, TypeInv
        <3> QED BY <2>1, <3>2, <3>3 DEF VersionsInv
    <2>9. CalmInv'
        <3> SUFFICES ASSUME (~overlap /\ Calm)' PROVE CalmInv'
            BY DEF CalmInv
        <3>1. ~overlap /\ Calm /\ \A q \in Tasks \ {t} : pc[q] = "idle"
            BY <1>1, <2>1, CalmIsAlone DEF Calm
        <3>2. OneAtATime'
            BY <2>3, <3>1 DEF OneAtATime, Tasks
        <3>3. ReloadsAreLast'
            BY <2>1, <2>2, <3>1 DEF CalmInv, ReloadsAreLast
        <3>4. o = client
            BY <1>1, <3>1 DEF CalmInv, RunsAreOfTheClient
        <3>5. clients'[client'].table
            BY <1>1, <2>1, <2>2, <3>4
        <3>6. RunsAreOfTheClient'
            BY <1>1, <2>1, <2>3, <3>1, <3>5 DEF CalmInv, RunsAreOfTheClient, OnClient
        <3>7. CountIsOfTheClient'
            BY <1>1, <2>1, <2>3 DEF CountIsOfTheClient, PhasesInv, Tasks
        <3> QED BY <3>2, <3>3, <3>6, <3>7 DEF CalmInv
    <2> QED BY <2>5, <2>6, <2>7, <2>8, <2>9
<1> QED BY <1>2, <1>3

-----------------------------------------------------------------------------
(* The opener is done, and the session goes to the page. *)
LEMMA ReturnKeepsInv ==
    ASSUME SessionInv, pc[Opener] = "count", stage[Opener] # "reopen", Opened(Opener),
           UNCHANGED <<newest, noticed, published, since, chosen>>
    PROVE  SessionInv'
<1> USE DEF SessionInv
<1>1. /\ Opener \in Tasks /\ OnClient(Opener) /\ on[Opener] \in DOMAIN clients /\ clients # << >>
      /\ ~ready /\ \A q \in Searches : pc[q] = "idle"
    BY EmptyHasNoClients DEF Tasks, OnClient, TypeInv, PhasesInv
<1>2. /\ rowCount' = clients[on[Opener]].version /\ ready' = TRUE /\ End(Opener, "none", NoVersion)
      /\ UNCHANGED <<client, clients, newest, noticed, published, since, failing, overlap>>
    BY DEF Opened, chosen
<1>3. /\ pc' \in [Tasks -> {"idle", "create", "register", "count", "query"}]
      /\ stage' \in [Tasks -> {"first", "reopen", "rerun"}] /\ on' \in [Tasks -> Nat]
      /\ result' \in [Tasks -> [error : {"none", "failed", "stale", "no_table"}, version : 0 .. LastVersion]]
      /\ pc'[Opener] = "idle" /\ stage'[Opener] = "first"
      /\ \A q \in Tasks : q # Opener => pc'[q] = pc[q] /\ stage'[q] = stage[q] /\ on'[q] = on[q] /\ result'[q] = result[q]
    <2>1. NoVersion \in 0 .. LastVersion /\ "none" \in {"none", "failed", "stale", "no_table"}
        OBVIOUS
    <2> QED BY <1>1, <1>2, <2>1, EndKeepsTypes
<1>4. \A q \in Tasks : pc'[q] = "idle" /\ ~(OnClient(q))'
    BY <1>1, <1>3 DEF Tasks, OnClient
<1>5. TypeInv'
    BY <1>2, <1>3, <1>4 DEF TypeInv
<1>6. PhasesInv'
    BY <1>1, <1>2, <1>4 DEF PhasesInv, Tasks
<1>7. ClientsInv'
    <2>1. IsOpen(1)
        BY <1>1 DEF ClientsInv
    <2> QED BY <1>1, <1>2, <2>1 DEF ClientsInv, IsOpen
<1>8. VersionsInv'
    BY <1>2, <1>4 DEF VersionsInv, IsOpen
<1>9. CalmInv'
    <2> SUFFICES ASSUME (~overlap /\ Calm)' PROVE CalmInv'
        BY DEF CalmInv
    <2>1. ~overlap /\ Calm
        BY <1>2 DEF Calm
    <2>2. clients[client].table /\ on[Opener] = client
        BY <1>1, <2>1 DEF CalmInv, RunsAreOfTheClient
    <2>3. OneAtATime' /\ CountIsOfTheClient'
        BY <1>2, <1>4, <2>2 DEF OneAtATime, CountIsOfTheClient, Tasks
    <2>4. ReloadsAreLast'
        BY <1>2, <2>1 DEF CalmInv, ReloadsAreLast
    <2>5. RunsAreOfTheClient'
        BY <1>2, <1>3, <1>4, <2>1, OpenerIsNoSearch DEF CalmInv, RunsAreOfTheClient
    <2> QED BY <2>3, <2>4, <2>5 DEF CalmInv
<1> QED BY <1>5, <1>6, <1>7, <1>8, <1>9

(* The opener registers the table on its second client once more. *)
LEMMA RegisterAgainKeepsInv ==
    ASSUME SessionInv, pc[Opener] = "count", stage[Opener] = "reopen", Opened(Opener),
           UNCHANGED <<newest, noticed, published, since, chosen>>
    PROVE  SessionInv'
<1> USE DEF SessionInv
<1> DEFINE o == on[Opener]
<1>1. /\ Opener \in Tasks /\ OnClient(Opener) /\ o \in DOMAIN clients /\ clients # << >>
      /\ ~ready /\ \A q \in Searches : pc[q] = "idle"
    BY EmptyHasNoClients DEF Tasks, OnClient, TypeInv, PhasesInv
<1>2. /\ client = Len(clients) /\ client \in DOMAIN clients /\ client >= o /\ client \in Nat
    BY <1>1, EmptyHasNoClients DEF TypeInv
<1>3. /\ pc' = [pc EXCEPT ![Opener] = "register"] /\ stage' = [stage EXCEPT ![Opener] = "rerun"]
      /\ on' = [on EXCEPT ![Opener] = client] /\ clients' = [clients EXCEPT ![client].table = FALSE]
      /\ UNCHANGED <<client, ready, result, newest, noticed, published, since, failing, overlap>>
    BY DEF Opened, Run, chosen
<1>4. /\ clients' \in Seq(Client) /\ Len(clients') = Len(clients) /\ DOMAIN clients' = DOMAIN clients
      /\ clients # << >> /\ clients' # << >> /\ DOMAIN clients = 1 .. Len(clients) /\ Len(clients) \in Nat
      /\ \A d \in DOMAIN clients : /\ clients'[d].mode = clients[d].mode
                                   /\ clients'[d].version = clients[d].version
                                   /\ clients'[d].table = IF d = client THEN FALSE ELSE clients[d].table
    BY <1>2, <1>3, TableChanges
<1>5. /\ pc'[Opener] = "register" /\ stage'[Opener] = "rerun" /\ on'[Opener] = client
      /\ \A q \in Tasks : q # Opener => pc'[q] = pc[q] /\ stage'[q] = stage[q] /\ on'[q] = on[q]
    BY <1>1, <1>3 DEF TypeInv
<1>6. TypeInv'
    <2>1. /\ pc' \in [Tasks -> {"idle", "create", "register", "count", "query"}]
          /\ stage' \in [Tasks -> {"first", "reopen", "rerun"}]
        BY <1>3 DEF TypeInv
    <2>2. on' \in [Tasks -> Nat]
        BY <1>2, <1>3 DEF TypeInv
    <2>3. \A q \in Tasks : (OnClient(q))' => on'[q] \in DOMAIN clients'
        BY <1>1, <1>2, <1>4, <1>5 DEF OnClient, Tasks
    <2> QED BY <1>3, <1>4, <2>1, <2>2, <2>3 DEF TypeInv
<1>7. PhasesInv'
    BY <1>1, <1>3, <1>4, <1>5 DEF PhasesInv, Tasks
<1>8. \A c \in DOMAIN clients : (IsOpen(c))' <=> IsOpen(c)
    BY <1>4 DEF IsOpen
<1>9. IsOpen(1) /\ (IsOpen(1))'
    <2>1. IsOpen(1)
        BY <1>1 DEF ClientsInv
    <2>2. 1 \in DOMAIN clients
        BY <1>1, <1>4
    <2> QED BY <1>8, <2>1, <2>2
<1>10. ClientsInv'
    <2>1. \A c \in DOMAIN clients' :
            /\ clients'[c].version <= published'
            /\ c # 1 => clients'[c].mode = "reload"
            /\ clients'[c].table => (IsOpen(c))'
        BY <1>3, <1>4, <1>8 DEF ClientsInv
    <2> QED BY <1>4, <1>9, <2>1 DEF ClientsInv
<1>11. VersionsInv'
    <2>1. (IsOpen(client))' => newest' <= clients'[client'].version
        BY <1>1, <1>2, <1>3, <1>4 DEF VersionsInv, IsOpen
    <2>2. /\ on'[Opener] # 1
          /\ \A c \in DOMAIN clients' : c >= on'[Opener] /\ (IsOpen(c))' => noticed'[Opener] <= clients'[c].version
        <3>1. /\ o # 1
              /\ \A c \in DOMAIN clients : c >= o /\ IsOpen(c) => noticed[Opener] <= clients[c].version
            BY <1>1 DEF VersionsInv
        <3>2. \A c \in DOMAIN clients : c >= client => c >= o
            BY <1>1, <1>2, <1>4
        <3> QED BY <1>1, <1>2, <1>3, <1>4, <1>5, <1>8, <3>1, <3>2
    <2>3. \A q \in Tasks : pc'[q] # "query" /\ ((OnClient(q))' => q = Opener)
        BY <1>1, <1>5 DEF OnClient, Tasks
    <2>4. newest' <= published' /\ \A q \in Tasks : since'[q] <= newest' /\ noticed'[q] <= published'
        BY <1>3 DEF VersionsInv
    <2> QED BY <2>1, <2>2, <2>3, <2>4 DEF VersionsInv
<1>12. CalmInv'
    <2> SUFFICES ASSUME (~overlap /\ Calm)' PROVE CalmInv'
        BY DEF CalmInv
    <2>1. ~overlap /\ Calm
        BY <1>3 DEF Calm
    <2>2. OneAtATime' /\ CountIsOfTheClient'
        BY <1>1, <1>3, <1>5 DEF OneAtATime, CountIsOfTheClient, Tasks
    <2>3. ReloadsAreLast'
        BY <1>3, <1>4, <2>1 DEF CalmInv, ReloadsAreLast
    <2>4. \A q \in Tasks : pc'[q] # "count" /\ ((OnClient(q))' => q = Opener)
        BY <1>1, <1>5 DEF OnClient, Tasks
    <2>5. published = 2
        BY <1>1, <2>1 DEF CalmInv, RunsAreOfTheClient
    <2>6. RunsAreOfTheClient'
        BY <1>3, <1>5, <2>1, <2>4, <2>5 DEF CalmInv, RunsAreOfTheClient
    <2> QED BY <2>2, <2>3, <2>6 DEF CalmInv
<1> QED BY <1>6, <1>7, <1>10, <1>11, <1>12

LEMMA CountKeepsInv ==
    ASSUME SessionInv, NEW t \in Tasks, Count(t), UNCHANGED chosen
    PROVE  SessionInv'
<1>1. pc[t] = "count" /\ OnClient(t)
    BY DEF Count, OnClient
<1>2. CASE \E error \in Errors(on[t]) : Rejected(t, error) /\ UNCHANGED client
    <2>1. PICK error \in Errors(on[t]) : Rejected(t, error) /\ UNCHANGED client
        BY <1>2
    <2>2. CanBeRejected(t, error)
        BY <1>1, <2>1 DEF CanBeRejected, Errors, IsOpen
    <2> QED BY <2>1, <2>2, RejectedKeepsInv DEF Count
<1>3. CASE Opened(t) /\ UNCHANGED <<newest, noticed>>
    <2>1. CASE t = Opener
        BY <1>1, <1>3, <2>1, ReturnKeepsInv, RegisterAgainKeepsInv DEF Count
    <2>2. CASE t # Opener
        <3>1. t \in Searches /\ stage[t] = "reopen" /\ ready
            BY <1>1, <2>2 DEF SessionInv, PhasesInv, Tasks
        <3>2. /\ Run(t, "rerun", client) /\ UNCHANGED <<published, client, ready, newest, noticed, since>>
              /\ rowCount' = clients[on[t]].version
            BY <1>3, <3>1 DEF Opened, Count
        <3> QED BY <1>1, <3>1, <3>2, QueryRuns
    <2> QED BY <2>1, <2>2
<1> QED BY <1>2, <1>3 DEF Count

-----------------------------------------------------------------------------
LEMMA AnswerKeepsInv ==
    ASSUME SessionInv, NEW t \in Tasks, pc[t] = "query", End(t, "none", clients[on[t]].version),
           newest' = (IF clients[on[t]].version > newest THEN clients[on[t]].version ELSE newest),
           UNCHANGED <<published, clients, client, rowCount, ready, since, noticed, chosen>>
    PROVE  SessionInv'
<1> USE DEF SessionInv
<1> DEFINE v == clients[on[t]].version
<1>1. /\ t \in Searches /\ OnClient(t) /\ on[t] \in DOMAIN clients /\ IsOpen(on[t]) /\ v \in 0 .. LastVersion
      /\ client = Len(clients) /\ DOMAIN clients = 1 .. Len(clients) /\ Len(clients) \in Nat
      /\ v <= published /\ clients # << >> /\ ready
    BY EmptyHasNoClients DEF PhasesInv, Tasks, OnClient, TypeInv, VersionsInv, ClientsInv
<1>2. UNCHANGED <<published, clients, client, rowCount, ready, since, noticed, failing, overlap>>
    BY DEF chosen
<1>3. /\ pc' \in [Tasks -> {"idle", "create", "register", "count", "query"}]
      /\ stage' \in [Tasks -> {"first", "reopen", "rerun"}] /\ on' \in [Tasks -> Nat]
      /\ result' \in [Tasks -> [error : {"none", "failed", "stale", "no_table"}, version : 0 .. LastVersion]]
      /\ pc'[t] = "idle" /\ stage'[t] = "first" /\ result'[t].error = "none"
      /\ \A q \in Tasks : q # t => pc'[q] = pc[q] /\ stage'[q] = stage[q] /\ on'[q] = on[q] /\ result'[q] = result[q]
    <2>1. "none" \in {"none", "failed", "stale", "no_table"}
        OBVIOUS
    <2> HIDE DEF v
    <2>2. End(t, "none", v)
        BY DEF v
    <2>3. result'[t] = [error |-> "none", version |-> v]
        BY <1>1, <2>1, <2>2, EndKeepsTypes
    <2>4. result'[t].error = "none"
        BY <2>3
    <2> QED BY <1>1, <2>1, <2>2, <2>4, EndKeepsTypes
<1>4. newest' \in 0 .. LastVersion /\ newest' \in {newest, v} /\ newest <= newest'
    BY <1>1 DEF TypeInv
<1>5. TypeInv'
    <2>1. \A q \in Tasks : (OnClient(q))' => on'[q] \in DOMAIN clients'
        BY <1>2, <1>3 DEF TypeInv, OnClient
    <2> QED BY <1>2, <1>3, <1>4, <2>1 DEF TypeInv
<1>6. PhasesInv'
    <2>1. pc'[Opener] = "idle"
        BY <1>1, <1>3 DEF PhasesInv, Tasks
    <2>2. \A q \in Searches : /\ pc'[q] \in {"create", "register", "count"} => stage'[q] = "reopen"
                              /\ pc'[q] = "query" => stage'[q] # "reopen"
        BY <1>3 DEF PhasesInv, Tasks
    <2> QED BY <1>1, <1>2, <2>1, <2>2 DEF PhasesInv
<1>7. ClientsInv'
    <2>1. IsOpen(1)
        BY <1>1 DEF ClientsInv
    <2> QED BY <1>1, <1>2, <2>1 DEF ClientsInv, IsOpen
<1>8. VersionsInv'
    <2>1. IsOpen(client) => v <= clients[client].version
        BY <1>1 DEF VersionsInv
    <2>2. (IsOpen(client))' => newest' <= clients'[client'].version
        BY <1>1, <1>2, <1>4, <2>1 DEF VersionsInv, IsOpen
    <2>3. newest' <= published' /\ \A q \in Tasks : since'[q] <= newest' /\ noticed'[q] <= published'
        BY <1>1, <1>2, <1>4 DEF VersionsInv, TypeInv
    <2>4. \A q \in Tasks : pc'[q] = "query" \/ (OnClient(q))' => q # t
        BY <1>3 DEF OnClient
    <2>5. ASSUME NEW q \in Tasks
          PROVE  /\ pc'[q] = "query" =>
                       /\ clients'[on'[q]].table /\ since'[q] <= clients'[on'[q]].version
                       /\ \A c \in DOMAIN clients' :
                             c > on'[q] /\ (IsOpen(c))' => clients'[on'[q]].version <= clients'[c].version
                 /\ (OnClient(q))' /\ stage'[q] # "first" =>
                       /\ on'[q] # 1
                       /\ \A c \in DOMAIN clients' : c >= on'[q] /\ (IsOpen(c))' => noticed'[q] <= clients'[c].version
        <3>1. CASE q = t
            BY <2>4, <3>1
        <3>2. CASE q # t
            <4>1. pc'[q] = pc[q] /\ stage'[q] = stage[q] /\ on'[q] = on[q]
                BY <1>3, <3>2
            <4>2. \A c : (IsOpen(c))' <=> IsOpen(c)
                BY <1>2 DEF IsOpen
            <4> QED BY <1>2, <4>1, <4>2 DEF VersionsInv, OnClient
        <3> QED BY <3>1, <3>2
    <2> QED BY <1>2, <2>2, <2>3, <2>5 DEF VersionsInv
<1>9. CalmInv'
    <2> SUFFICES ASSUME (~overlap /\ Calm)' PROVE CalmInv'
        BY DEF CalmInv
    <2>1. ~overlap /\ Calm
        BY <1>2 DEF Calm
    <2>2. \A q \in Tasks \ {t} : pc[q] = "idle"
        BY <2>1, CalmIsAlone
    <2>3. OneAtATime'
        BY <1>3, <2>2 DEF OneAtATime, Tasks
    <2>4. ReloadsAreLast'
        BY <1>2, <2>1 DEF CalmInv, ReloadsAreLast
    <2>5. RunsAreOfTheClient'
        BY <1>2, <1>3, <2>1, <2>2 DEF CalmInv, RunsAreOfTheClient, OnClient
    <2>6. \A q \in Searches : pc[q] \in {"idle", "query"}
        BY <2>2 DEF Tasks
    <2>7. CountIsOfTheClient'
        BY <1>1, <1>2, <2>1, <2>6 DEF CalmInv, CountIsOfTheClient
    <2> QED BY <2>3, <2>4, <2>5, <2>7 DEF CalmInv
<1> QED BY <1>5, <1>6, <1>7, <1>8, <1>9

LEMMA QueryKeepsInv ==
    ASSUME SessionInv, NEW t \in Tasks, Query(t), UNCHANGED chosen
    PROVE  SessionInv'
<1>1. pc[t] = "query" /\ OnClient(t)
    BY DEF Query, OnClient
<1>2. CASE \E error \in Errors(on[t]) : Rejected(t, error)
    <2>1. PICK error \in Errors(on[t]) : Rejected(t, error)
        BY <1>2
    <2>2. CanBeRejected(t, error)
        BY <1>1, <2>1 DEF CanBeRejected, Errors, IsOpen
    <2> QED BY <2>1, <2>2, RejectedKeepsInv DEF Query
<1>3. CASE ~\E error \in Errors(on[t]) : Rejected(t, error)
    BY <1>1, <1>3, AnswerKeepsInv DEF Query
<1> QED BY <1>2, <1>3

LEMMA SessionInvNext == SessionInv /\ [Next]_vars => SessionInv'
<1> SUFFICES ASSUME SessionInv, [Next]_vars
             PROVE  SessionInv'
    OBVIOUS
<1>1. CASE Republish /\ UNCHANGED chosen
    BY <1>1, RepublishKeepsInv
<1>2. CASE \E t \in Tasks : StartSearch(t) /\ UNCHANGED chosen
    BY <1>2, StartSearchKeepsInv
<1>3. CASE \E t \in Tasks : Step(t)
    BY <1>3, CreateClientKeepsInv, OpenStoreKeepsInv, RegisterKeepsInv, CountKeepsInv, QueryKeepsInv DEF Step
<1>4. CASE UNCHANGED vars
    BY <1>4 DEF vars, chosen, SessionInv, TypeInv, PhasesInv, ClientsInv, VersionsInv, CalmInv, Calm, OneAtATime,
                ReloadsAreLast, RunsAreOfTheClient, CountIsOfTheClient, OnClient, IsOpen
<1> QED BY <1>1, <1>2, <1>3, <1>4 DEF Next

-----------------------------------------------------------------------------
(* With no failure and no overlap the page never sees that the file was    *)
(* republished once: withFreshIndexOnChange answers every search, and      *)
(* session.rowCount follows the client it leaves.                          *)
THEOREM OneRepublicationIsInvisible == Spec => []RepublicationIsInvisible
<1>1. SessionInv => RepublicationIsInvisible
    <2> SUFFICES ASSUME SessionInv, ~overlap, Calm
                 PROVE  /\ \A t \in Searches : result[t].error = "none"
                        /\ ready /\ (\A t \in Tasks : pc[t] = "idle") => rowCount = clients[client].version
        BY DEF RepublicationIsInvisible
    <2>1. RunsAreOfTheClient /\ CountIsOfTheClient
        BY DEF SessionInv, CalmInv
    <2> QED BY <2>1 DEF RunsAreOfTheClient, CountIsOfTheClient, Tasks
<1> QED BY <1>1, SessionInvInit, SessionInvNext, PTL DEF Spec

(* Only its own query answers a search. *)
LEMMA OthersLeaveTheSearch ==
    ASSUME TypeInv, NEW t \in Searches, NEW q \in Tasks, Step(q) \/ StartSearch(q), pc[t] = "query", pc'[t] = "idle"
    PROVE  Query(t)
<1>1. \A s, c : Run(q, s, c) => \A r \in Tasks \ {q} : pc'[r] = pc[r]
    BY DEF Run, End, TypeInv
<1>2. \A error : Rejected(q, error) => \A r \in Tasks \ {q} : pc'[r] = pc[r]
    BY DEF Rejected, End, TypeInv
<1>3. t \in Tasks
    BY DEF Tasks
<1>4. q = t
    <2> SUFFICES ASSUME q # t PROVE FALSE
        OBVIOUS
    <2>1. CASE StartSearch(q)
        BY <1>1, <1>3, <2>1 DEF StartSearch
    <2>2. CASE CreateClient(q)
        BY <1>2, <1>3, <2>2 DEF CreateClient, TypeInv
    <2>3. CASE OpenStore(q)
        BY <2>3 DEF OpenStore
    <2>4. CASE Register(q)
        BY <1>2, <1>3, <2>4 DEF Register, TypeInv
    <2>5. CASE Count(q)
        <3>1. Opened(q) => \A r \in Tasks \ {q} : pc'[r] = pc[r]
            BY <1>1 DEF Opened, End, TypeInv
        <3> QED BY <1>2, <1>3, <2>5, <3>1 DEF Count
    <2>6. CASE Query(q)
        BY <1>2, <1>3, <2>6 DEF Query, End, TypeInv
    <2> QED BY <2>1, <2>2, <2>3, <2>4, <2>5, <2>6 DEF Step
<1> QED BY <1>4 DEF Step, StartSearch, CreateClient, OpenStore, Register, Count

(* However searches that reopen the index overlap, no search is answered   *)
(* from an index older than an answer given before it began, or than the   *)
(* file it found republished: the session's client is the last created,    *)
(* and a client that a query runs on was opened before any later one.      *)
THEOREM AnswersNeverGoBack == Spec => SearchesNeverGoBack
<1>1. SessionInv /\ [Next]_vars =>
        [\A t \in Searches : Answered(t) =>
            /\ result'[t].version >= since[t]
            /\ stage[t] = "rerun" => result'[t].version >= noticed[t]]_vars
    <2> SUFFICES ASSUME SessionInv, [Next]_vars, NEW t \in Searches, Answered(t)
                 PROVE  /\ result'[t].version >= since[t]
                        /\ stage[t] = "rerun" => result'[t].version >= noticed[t]
        OBVIOUS
    <2> USE DEF SessionInv
    <2>1. t \in Tasks /\ pc[t] = "query" /\ pc'[t] = "idle" /\ result'[t].error = "none" /\ OnClient(t)
        BY DEF Answered, Tasks, OnClient
    <2>2. Query(t)
        <3>1. \E q \in Tasks : Step(q) \/ StartSearch(q)
            BY <2>1 DEF Next, Republish, vars
        <3> QED BY <2>1, <3>1, OthersLeaveTheSearch
    <2>3. End(t, "none", clients[on[t]].version)
        <3> SUFFICES ASSUME NEW error \in Errors(on[t]), Rejected(t, error) PROVE FALSE
            BY <2>2 DEF Query
        <3>1. error \in {"failed", "stale"}
            BY DEF Errors
        <3>2. CASE error = "stale" /\ stage[t] = "first"
            BY <2>1, <3>2 DEF Rejected, TypeInv
        <3>3. CASE ~(error = "stale" /\ stage[t] = "first")
            <4>1. result'[t] = [error |-> error, version |-> NoVersion]
                BY <2>1, <3>3 DEF Rejected, End, TypeInv
            <4> QED BY <2>1, <3>1, <4>1
        <3> QED BY <3>2, <3>3
    <2>4. result'[t].version = clients[on[t]].version
        <3>1. result'[t] = [error |-> "none", version |-> clients[on[t]].version]
            BY <2>1, <2>3 DEF End, TypeInv
        <3> QED BY <3>1
    <2>5. /\ on[t] \in DOMAIN clients /\ IsOpen(on[t]) /\ since[t] <= clients[on[t]].version
          /\ on[t] \in Nat
          /\ stage[t] # "first" => noticed[t] <= clients[on[t]].version
        BY <2>1 DEF TypeInv, VersionsInv, ClientsInv
    <2>6. since[t] \in Nat /\ noticed[t] \in Nat /\ clients[on[t]].version \in Nat
        BY <2>1, <2>5, EmptyHasNoClients DEF TypeInv
    <2> QED BY <2>4, <2>5, <2>6
<1> QED BY <1>1, SessionInvInit, SessionInvNext, PTL DEF Spec, SearchesNeverGoBack
-----------------------------------------------------------------------------
(* The URL of the panel (SharedUrl).                                       *)

LEMMA UrlOf ==
    ASSUME NEW q \in Queries \cup {NoQuery}, NEW c \in Cases \cup {NoCase}
    PROVE  Url(q, c) \in Urls
BY DEF Urls

LEMMA ApplicationOf ==
    ASSUME NEW u \in Urls, NEW before
    PROVE  /\ Application(u, before) \in Applications
           /\ u.query \in Queries \cup {NoQuery} /\ u.case \in Cases \cup {NoCase}
           /\ u = Url(u.query, u.case)
BY DEF Urls, Url, Application, Applications

LEMMA PageInvInit == UrlInit => UrlInv
<1> SUFFICES ASSUME UrlInit PROVE UrlInv
    OBVIOUS
<1>1. PICK u \in Links :
        /\ entries = <<u>>
        /\ query = IF IsSearchUrl(u) THEN u.query ELSE NoQuery
        /\ applied = IF IsSearchUrl(u) THEN <<Application(u, NoQuery)>> ELSE << >>
    BY DEF UrlInit
<1>2. u \in Urls
    BY LinksAreUrls DEF Urls
<1>3. /\ Application(u, NoQuery) \in Applications
      /\ u.query \in Queries \cup {NoQuery}
    BY <1>2, ApplicationOf
<1>4. applied \in Seq(Applications)
  <2>1. <<Application(u, NoQuery)>> \in Seq(Applications)
      BY <1>3
  <2> QED BY <1>1, <2>1
<1>5. entries \in Seq(Urls) /\ position \in DOMAIN entries /\ entries[position] = u
    BY <1>1, <1>2 DEF UrlInit
<1>6. UrlTypeInv
    BY <1>1, <1>3, <1>4, <1>5 DEF UrlInit, UrlTypeInv
<1>7. ASSUME u.case = NoCase PROVE FirstUrlIsApplied /\ UrlIsWritten
  <2>1. CASE IsSearchUrl(u)
    <3>1. u.query # NoQuery
        BY <1>7, <2>1 DEF IsSearchUrl
    <3>2. DOMAIN applied = {1} /\ applied[1] = Application(u, NoQuery)
        BY <1>1, <2>1
    <3>3. LET a == Application(u, NoQuery)
          IN  a.at = "refresh" /\ a.case = NoCase /\ a.hides /\ ~a.same
        BY <1>7, <3>1 DEF Application
    <3>4. FirstUrlIsApplied
        BY <3>2, <3>3 DEF UrlInit, FirstUrlIsApplied
    <3>5. UrlIsWritten
        BY <1>1, <2>1, <3>1 DEF UrlInit, UrlIsWritten
    <3> QED BY <3>4, <3>5
  <2>2. CASE ~IsSearchUrl(u)
    <3>1. u = Url(NoQuery, NoCase)
        BY <1>2, <2>2, ApplicationOf DEF IsSearchUrl
    <3>2. applied = << >> /\ DOMAIN applied = {}
        BY <1>1, <2>2
    <3> QED BY <1>1, <1>5, <2>2, <3>1, <3>2
               DEF UrlInit, FirstUrlIsApplied, UrlIsWritten, Current
  <2> QED BY <2>1, <2>2
<1> QED BY <1>6, <1>7 DEF UrlInv, LinksHaveNoCase

(* syncSearchUrl leaves the other entries and writes the current one. *)
LEMMA Replaced ==
    ASSUME UrlTypeInv, NEW q \in Queries \cup {NoQuery},
           NEW c \in Cases \cup {NoCase}, Replace(q, c)
    PROVE  /\ entries' \in Seq(Urls) /\ position' = position /\ position' \in DOMAIN entries'
           /\ Len(entries') = Len(entries) /\ Current' = Url(q, c)
           /\ \A p \in DOMAIN entries \ {position} : entries'[p] = entries[p]
<1>1. Url(q, c) \in Urls
    BY UrlOf
<1>2. entries \in Seq(Urls) /\ position \in DOMAIN entries
    BY DEF UrlTypeInv
<1>3. position' = position /\ entries' = [entries EXCEPT ![position] = Url(q, c)]
    BY DEF Replace
<1> QED BY <1>1, <1>2, <1>3, Exchanged DEF Current

LEMMA WatchKeepsPage == ASSUME UrlInv, Watch PROVE UrlInv'
<1>1. UrlTypeInv /\ query \in Queries \cup {NoQuery} /\ selected \in Cases \cup {NoCase}
    BY DEF UrlInv, UrlTypeInv
<1>2. /\ entries' \in Seq(Urls) /\ position' = position /\ position' \in DOMAIN entries'
      /\ Current' = Url(query, selected)
    BY <1>1, Replaced DEF Watch
<1>3. UrlTypeInv'
    BY <1>1, <1>2 DEF UrlTypeInv, Watch
<1>4. LinksHaveNoCase => FirstUrlIsApplied' /\ UrlIsWritten'
    BY <1>2 DEF UrlInv, FirstUrlIsApplied, UrlIsWritten, Watch
<1> QED BY <1>3, <1>4 DEF UrlInv, LinksHaveNoCase

LEMMA TypeKeepsPage ==
    ASSUME UrlInv, query = watched, NEW q \in Queries \cup {NoQuery}, Type(q)
    PROVE  UrlInv'
<1> DEFINE after(i) == [applied[i] EXCEPT !.hides = @ /\ ~applied[i].same]
<1>1. applied \in Seq(Applications) /\ DOMAIN applied = 1..Len(applied) /\ Len(applied) \in Nat
    BY DEF UrlInv, UrlTypeInv
<1>2. applied' = [i \in DOMAIN applied |-> after(i)]
    BY DEF Type
<1>3. ASSUME NEW i \in DOMAIN applied PROVE after(i) \in Applications
  <2>1. applied[i] \in Applications /\ (applied[i].hides /\ ~applied[i].same) \in BOOLEAN
      BY <1>1
  <2> QED BY <2>1 DEF Applications
<1>4. applied' \in Seq(Applications) /\ DOMAIN applied' = DOMAIN applied
  <2>1. applied' \in [1..Len(applied) -> Applications]
      BY <1>1, <1>2, <1>3
  <2> QED BY <1>1, <1>2, <2>1, SeqDef
<1>5. UrlTypeInv'
    BY <1>4 DEF UrlInv, UrlTypeInv, Type
<1>6. \A i \in DOMAIN applied : /\ after(i).at = applied[i].at /\ after(i).case = applied[i].case
                                /\ after(i).same = applied[i].same
                                /\ after(i).hides = (applied[i].hides /\ ~applied[i].same)
    BY <1>1 DEF Applications
<1>7. LinksHaveNoCase => FirstUrlIsApplied'
  <2>1. \A i \in DOMAIN applied' : i \in DOMAIN applied /\ applied'[i] = after(i)
      BY <1>2, <1>4
  <2> HIDE DEF after
  <2> SUFFICES ASSUME LinksHaveNoCase, moves = 0, NEW i \in DOMAIN applied'
               PROVE  /\ applied'[i].at = "refresh" /\ applied'[i].case = NoCase
                      /\ applied'[i].hides /\ ~applied'[i].same
      BY DEF FirstUrlIsApplied, Type
  <2>2. /\ applied[i].at = "refresh" /\ applied[i].case = NoCase
        /\ applied[i].hides /\ ~applied[i].same
      BY <2>1 DEF UrlInv, FirstUrlIsApplied
  <2> QED BY <1>6, <2>1, <2>2
<1>8. UrlIsWritten'
    BY DEF Type, UrlIsWritten
<1> QED BY <1>5, <1>7, <1>8 DEF UrlInv, LinksHaveNoCase

LEMMA ClearKeepsPage == ASSUME UrlInv, query = watched, Clear PROVE UrlInv'
<1>1. /\ UrlTypeInv /\ NoQuery \in Queries \cup {NoQuery}
      /\ NoCase \in Cases \cup {NoCase}
    BY DEF UrlInv
<1>2. entries' \in Seq(Urls) /\ position' = position /\ position' \in DOMAIN entries'
    BY <1>1, Replaced DEF Clear
<1>3. UrlTypeInv'
    BY <1>1, <1>2 DEF UrlTypeInv, Clear
<1>4. LinksHaveNoCase => FirstUrlIsApplied' /\ UrlIsWritten'
    BY DEF UrlInv, FirstUrlIsApplied, UrlIsWritten, Clear
<1> QED BY <1>3, <1>4 DEF UrlInv, LinksHaveNoCase

(* syncSearchUrl adds an entry after the current one, unless the URL is    *)
(* that entry's.                                                           *)
LEMMA Pushed ==
    ASSUME UrlTypeInv, NEW q \in Queries \cup {NoQuery},
           NEW c \in Cases \cup {NoCase}, Push(q, c)
    PROVE  /\ entries' \in Seq(Urls) /\ position' \in DOMAIN entries' /\ Current' = Url(q, c)
           /\ \/ UNCHANGED entries
              \/ /\ position' = position + 1 /\ Len(entries') = position'
                 /\ SubSeq(entries', 1, position) = SubSeq(entries, 1, position)
<1>1. /\ entries \in Seq(Urls) /\ position \in DOMAIN entries
      /\ Url(q, c) \in Urls
    BY UrlOf DEF UrlTypeInv
<1>2. CASE Url(q, c) = Current /\ UNCHANGED <<entries, position>>
    BY <1>1, <1>2 DEF Current
<1>3. CASE ~(Url(q, c) = Current /\ UNCHANGED <<entries, position>>)
  <2>1. /\ position' = position + 1
        /\ entries' = Append(SubSeq(entries, 1, position), Url(q, c))
      BY <1>3 DEF Push
  <2> QED BY <1>1, <2>1, Continued DEF Current
<1> QED BY <1>2, <1>3

(* A case is opened below no application, which would hide it. *)
LEMMA OpenKeepsPage ==
    ASSUME UrlInv, query = watched, NEW c \in Cases, OpenCase(c)
    PROVE  UrlInv'
<1>1. UrlTypeInv /\ query \in Queries \cup {NoQuery} /\ c \in Cases \cup {NoCase}
    BY DEF UrlInv, UrlTypeInv
<1>2. /\ entries' \in Seq(Urls) /\ position' \in DOMAIN entries'
      /\ Current' = Url(query, c)
    BY <1>1, Pushed DEF OpenCase
<1>3. UrlTypeInv'
    BY <1>2 DEF UrlInv, UrlTypeInv, OpenCase
<1>4. LinksHaveNoCase => FirstUrlIsApplied'
    BY DEF UrlInv, FirstUrlIsApplied, OpenCase
<1>5. UrlIsWritten'
    BY <1>2 DEF UrlIsWritten, OpenCase
<1> QED BY <1>3, <1>4, <1>5 DEF UrlInv, LinksHaveNoCase

LEMMA CloseKeepsPage == ASSUME UrlInv, query = watched, CloseCase PROVE UrlInv'
<1>1. /\ UrlTypeInv /\ query \in Queries \cup {NoQuery}
      /\ NoCase \in Cases \cup {NoCase}
    BY DEF UrlInv, UrlTypeInv
<1>2. /\ entries' \in Seq(Urls) /\ position' = position /\ position' \in DOMAIN entries'
      /\ Current' = Url(query, NoCase)
    BY <1>1, Replaced DEF CloseCase
<1>3. UrlTypeInv'
    BY <1>1, <1>2 DEF UrlTypeInv, CloseCase
<1>4. LinksHaveNoCase => FirstUrlIsApplied' /\ UrlIsWritten'
    BY <1>2 DEF UrlInv, FirstUrlIsApplied, UrlIsWritten, CloseCase
<1> QED BY <1>3, <1>4 DEF UrlInv, LinksHaveNoCase

LEMMA MoveKeepsPage == ASSUME UrlInv, NEW p \in DOMAIN entries, Move(p) PROVE UrlInv'
<1> DEFINE u == entries[p]
<1>1. u \in Urls
    BY DEF UrlInv, UrlTypeInv
<1>2. /\ Application(u, query) \in Applications /\ u.query \in Queries \cup {NoQuery}
    BY <1>1, ApplicationOf
<1>3. applied' \in Seq(Applications)
  <2>1. /\ applied \in Seq(Applications)
        /\ (applied' = applied \/ applied' = Append(applied, Application(u, query)))
      BY DEF UrlInv, UrlTypeInv, Move, Apply
  <2> HIDE DEF u
  <2> QED BY <1>2, <2>1, AppendProperties
<1>4. query' \in Queries \cup {NoQuery} /\ selected' \in Cases \cup {NoCase}
    BY <1>2 DEF UrlInv, UrlTypeInv, Move, Apply
<1>5. moves' \in Nat /\ moves' # 0
    BY DEF UrlInv, UrlTypeInv, Move
<1>6. UrlTypeInv'
    BY <1>3, <1>4, <1>5 DEF UrlInv, UrlTypeInv, Move
<1> QED BY <1>5, <1>6 DEF UrlInv, FirstUrlIsApplied, UrlIsWritten

LEMMA RefreshedKeepsPage ==
    ASSUME UrlInv, query = watched, NEW i \in DOMAIN applied, Refreshed(i)
    PROVE  UrlInv'
<1>1. applied \in Seq(Applications) /\ applied[i] \in Applications
    BY DEF UrlInv, UrlTypeInv
<1>2. CASE applied[i].case = NoCase
  <2>1. selected' = NoCase /\ applied' = RemoveAt(applied, i)
      BY <1>2 DEF Refreshed
  <2>2. /\ applied' \in Seq(Applications)
        /\ \A k \in DOMAIN applied' : \E m \in DOMAIN applied : applied'[k] = applied[m]
      BY <1>1, <2>1, RemoveAtOf
  <2>3. UrlTypeInv'
      BY <2>1, <2>2 DEF UrlInv, UrlTypeInv, Refreshed
  <2>4. LinksHaveNoCase => FirstUrlIsApplied' /\ UrlIsWritten'
      BY <2>1, <2>2
         DEF UrlInv, FirstUrlIsApplied, UrlIsWritten, Refreshed, Current
  <2> QED BY <2>3, <2>4 DEF UrlInv, LinksHaveNoCase
<1>3. CASE applied[i].case # NoCase
  <2> DEFINE e == [applied[i] EXCEPT !.at = "run", !.hides = FALSE]
  <2>1. applied' = [applied EXCEPT ![i] = e] /\ selected' = selected
      BY <1>3 DEF Refreshed
  <2>2. e \in Applications
      BY <1>1 DEF Applications
  <2>3. applied' \in Seq(Applications)
    <3> HIDE DEF e
    <3> QED BY <1>1, <2>1, <2>2, Exchanged
  <2>4. UrlTypeInv'
      BY <2>1, <2>3 DEF UrlInv, UrlTypeInv, Refreshed
  <2>5. LinksHaveNoCase => moves' # 0
      BY <1>3 DEF UrlInv, FirstUrlIsApplied, Refreshed
  <2> QED BY <2>4, <2>5
             DEF UrlInv, FirstUrlIsApplied, UrlIsWritten, LinksHaveNoCase
<1> QED BY <1>2, <1>3

LEMMA OpenSharedKeepsPage ==
    ASSUME UrlInv, query = watched, NEW i \in DOMAIN applied, OpenShared(i)
    PROVE  UrlInv'
<1>1. applied \in Seq(Applications) /\ applied[i] \in Applications
    BY DEF UrlInv, UrlTypeInv
<1>2. applied' \in Seq(Applications)
    BY <1>1, RemoveAtOf DEF OpenShared
<1>3. applied[i].case \in Cases \cup {NoCase}
    BY <1>1 DEF Applications
<1>4. UrlTypeInv'
    BY <1>2, <1>3 DEF UrlInv, UrlTypeInv, OpenShared
<1>5. LinksHaveNoCase => moves' # 0
    BY DEF UrlInv, FirstUrlIsApplied, OpenShared
<1> QED BY <1>4, <1>5
           DEF UrlInv, FirstUrlIsApplied, UrlIsWritten, LinksHaveNoCase

LEMMA PageInvNext == ASSUME UrlInv, [UrlNext]_urlVars PROVE UrlInv'
<1>1. CASE UNCHANGED urlVars
    BY <1>1
       DEF urlVars, UrlInv, UrlTypeInv, FirstUrlIsApplied,
           UrlIsWritten, Current, LinksHaveNoCase
<1> QED BY <1>1, WatchKeepsPage, TypeKeepsPage, ClearKeepsPage, OpenKeepsPage, CloseKeepsPage, MoveKeepsPage,
           RefreshedKeepsPage, OpenSharedKeepsPage DEF UrlNext

LEMMA PageInvariant == UrlSpec => []UrlInv
BY PageInvInit, PageInvNext, PTL DEF UrlSpec, urlVars

(* Once the query was watched and no application of a URL is under way,    *)
(* the URL names the query and the open case, until the user goes back or  *)
(* forward, for any links without a case, queries and cases.               *)
THEOREM UrlsNameThePanel ==
    ASSUME LinksHaveNoCase
    PROVE  UrlSpec => []UrlNamesThePanel
<1>1. UrlInv => UrlNamesThePanel
    BY DEF UrlInv, LinksHaveNoCase, UrlIsWritten, UrlNamesThePanel, AtRest
<1> QED BY <1>1, PageInvariant, PTL

(* What a step may do to the history. *)
Kept ==
    \/ /\ selected = NoCase /\ selected' # NoCase
       /\ position' = position + 1 /\ Len(entries') = position'
       /\ SubSeq(entries', 1, position) = SubSeq(entries, 1, position)
    \/ /\ Len(entries') = Len(entries)
       /\ \A p \in DOMAIN entries \ {position} : entries'[p] = entries[p]

(* Only opening a case adds an entry to the history, after the current     *)
(* one; all else leaves the others, whatever links, moves and overlapping  *)
(* applications there are.                                                 *)
THEOREM EntriesAreKept == UrlSpec => HistoryIsKept
<1>1. ASSUME UrlInv, [UrlNext]_urlVars PROVE [Kept]_urlVars
  <2>1. /\ UrlTypeInv /\ query \in Queries \cup {NoQuery}
        /\ selected \in Cases \cup {NoCase}
      BY <1>1 DEF UrlInv, UrlTypeInv
  <2>2. CASE UNCHANGED entries
      BY <2>2 DEF Kept
  <2>3. ASSUME NEW q \in Queries \cup {NoQuery}, NEW c \in Cases \cup {NoCase},
               Replace(q, c)
        PROVE Kept
      BY <2>1, <2>3, Replaced DEF Kept
  <2>4. ASSUME NEW c \in Cases, OpenCase(c) PROVE Kept
    <3>1. \/ UNCHANGED entries
          \/ /\ position' = position + 1 /\ Len(entries') = position'
             /\ SubSeq(entries', 1, position) = SubSeq(entries, 1, position)
        BY <2>1, <2>4, Pushed DEF OpenCase
    <3> QED BY <2>2, <2>4, <3>1, NoCaseIsNone DEF Kept, OpenCase
  <2>5. CASE UNCHANGED urlVars
      BY <2>5 DEF urlVars
  <2>6. CASE Watch
      BY <2>1, <2>3, <2>6 DEF Watch
  <2>7. CASE Clear
      BY <2>3, <2>7 DEF Clear
  <2>8. CASE CloseCase
      BY <2>1, <2>3, <2>8 DEF CloseCase
  <2> QED BY <1>1, <2>2, <2>4, <2>5, <2>6, <2>7, <2>8
             DEF UrlNext, Type, Move, Refreshed, OpenShared
<1>2. UrlSpec => []UrlInv
    BY PageInvariant
<1> QED BY <1>1, <1>2, PTL DEF UrlSpec, urlVars, HistoryIsKept, Kept
=============================================================================
