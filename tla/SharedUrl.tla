------------------------------ MODULE SharedUrl ------------------------------
(***************************************************************************)
(* How the report page keeps the query and the open test case of the       *)
(* search panel in its URL (site/src/App.vue, site/src/lib/shareState.ts): *)
(* the panel rewrites the current history entry as it changes, opening a   *)
(* case adds one, and going back or following a link applies the URL.      *)
(*                                                                         *)
(* As in SearchView the watcher of the query runs right after the code     *)
(* that changed it.  A URL is the query and the case it names; the suite   *)
(* filter goes with the query.                                             *)
(***************************************************************************)
EXTENDS Integers, Sequences, SequencesExt

CONSTANTS
    Queries, Cases,
    Links,      \* the URLs the page can be entered with
    MaxEntries, \* bound: the history entries of the page
    MaxMoves    \* bound: how often the user goes back or forward

NoQuery == ""
NoCase == "none"
Url(q, c) == [query |-> q, case |-> c]

ASSUME LinksAreUrls ==
    Links # {} /\ Links \subseteq {Url(q, c) : q \in Queries \cup {NoQuery}, c \in Cases \cup {NoCase}}
ASSUME NoCaseIsNone == NoCase \notin Cases
ASSUME BoundsAreNat == MaxEntries \in Nat \ {0} /\ MaxMoves \in Nat

VARIABLES
    entries,  \* the page's entries in the history of the browser
    position, \* the current one
    moves,    \* counts towards MaxMoves
    query,    \* trimmedSearchQuery
    watched,  \* the query the watcher has seen last
    selected, \* selectedSearchResult
    applied   \* the calls of applySearchUrlState that are not over

urlVars == <<entries, position, moves, query, watched, selected, applied>>

-----------------------------------------------------------------------------
Current == entries[position]

(* syncSearchUrl for the case c: nothing is pushed when the URL is the     *)
(* current one.                                                            *)
Replace(q, c) == entries' = [entries EXCEPT ![position] = Url(q, c)] /\ UNCHANGED position
Push(q, c) ==
    \/ Url(q, c) = Current /\ UNCHANGED <<entries, position>>
    \/ /\ Url(q, c) # Current
       /\ position < MaxEntries
       /\ entries' = Append(SubSeq(entries, 1, position), Url(q, c))
       /\ position' = position + 1

(* applySearchUrlState up to its first await, at the URL u. *)
IsSearchUrl(u) == u.query # NoQuery \/ u.case # NoCase

(* An application waits for its refresh of the results, then for the run   *)
(* of the case it names.  While `hides`, the panel shows no results: a     *)
(* refresh with another query is overtaken by the watcher's and only waits *)
(* for the session, which comes before any result; one with the same query *)
(* hides them until other results are typed for.                           *)
Application(u, before) == [case |-> u.case, at |-> "refresh", hides |-> TRUE, same |-> u.query = before]

Apply(u) ==
    IF IsSearchUrl(u)
    THEN /\ query' = u.query
         /\ applied' = Append(applied, Application(u, query))
         /\ UNCHANGED selected
    ELSE selected' = NoCase /\ UNCHANGED <<query, applied>>

(* The page is loaded with a link and applies it. *)
UrlInit ==
    /\ \E u \in Links :
        /\ entries = <<u>>
        /\ query = IF IsSearchUrl(u) THEN u.query ELSE NoQuery
        /\ applied = IF IsSearchUrl(u) THEN <<Application(u, NoQuery)>> ELSE << >>
    /\ position = 1 /\ moves = 0 /\ watched = NoQuery /\ selected = NoCase

-----------------------------------------------------------------------------
(* Mutant: every query typed becomes a history entry. *)
WatchPushing ==
    /\ query # watched
    /\ watched' = query
    /\ entries' = Append(entries, Url(query, selected)) /\ position' = position + 1
    /\ UNCHANGED <<moves, query, selected, applied>>

(* The watcher of the query. *)
Watch ==
    /\ query # watched
    /\ watched' = query
    /\ Replace(query, selected)
    /\ UNCHANGED <<moves, query, selected, applied>>

(* Below the open case nothing of the panel can be used. *)
Type(q) ==
    /\ selected = NoCase /\ q # query
    /\ query' = q
    /\ applied' = [i \in DOMAIN applied |-> [applied[i] EXCEPT !.hides = @ /\ ~applied[i].same]]
    /\ UNCHANGED <<entries, position, moves, watched, selected>>

Clear ==
    /\ selected = NoCase /\ query # NoQuery
    /\ query' = NoQuery
    /\ Replace(NoQuery, NoCase)
    /\ UNCHANGED <<moves, watched, selected, applied>>

(* openSearchResultModal from the results. *)
OpenCase(c) ==
    /\ selected = NoCase /\ query # NoQuery
    /\ \A i \in DOMAIN applied : ~applied[i].hides
    /\ selected' = c
    /\ Push(query, c)
    /\ UNCHANGED <<moves, query, watched, applied>>

(* Mutant: closing does not touch the URL. *)
CloseSilently ==
    /\ selected # NoCase
    /\ selected' = NoCase
    /\ UNCHANGED <<entries, position, moves, query, watched, applied>>

(* closeSearchResultModal *)
CloseCase ==
    /\ selected # NoCase
    /\ selected' = NoCase
    /\ Replace(query, NoCase)
    /\ UNCHANGED <<moves, query, watched, applied>>

(* handleWindowPopstate *)
Move(p) ==
    /\ moves < MaxMoves /\ p # position
    /\ moves' = moves + 1
    /\ position' = p
    /\ Apply(entries[p])
    /\ UNCHANGED <<entries, watched>>

(* The refresh of an application is over: a URL without a case closes the  *)
(* case that is open.                                                      *)
Refreshed(i) ==
    /\ applied[i].at = "refresh"
    /\ IF applied[i].case = NoCase
       THEN selected' = NoCase /\ applied' = RemoveAt(applied, i)
       ELSE /\ applied' = [applied EXCEPT ![i].at = "run", ![i].hides = FALSE]
            /\ UNCHANGED selected
    /\ UNCHANGED <<entries, position, moves, query, watched>>

(* openSharedSearchCase has its run: the case is opened, the URL is left   *)
(* alone, or it is not found.                                              *)
OpenShared(i) ==
    /\ applied[i].at = "run"
    /\ selected' \in {applied[i].case, selected}
    /\ applied' = RemoveAt(applied, i)
    /\ UNCHANGED <<entries, position, moves, query, watched>>

UrlNext ==
    \/ Watch
    \/ /\ query = watched
       /\ \/ \E q \in Queries \cup {NoQuery} : Type(q)
          \/ \E c \in Cases : OpenCase(c)
          \/ \E p \in DOMAIN entries : Move(p)
          \/ \E i \in DOMAIN applied : Refreshed(i) \/ OpenShared(i)
          \/ Clear \/ CloseCase

UrlSpec == UrlInit /\ [][UrlNext]_urlVars

-----------------------------------------------------------------------------
(* Properties.                                                             *)

AtRest == query = watched /\ applied = << >>

(* The URL the user can copy names what is on the screen, the query and    *)
(* the open case, until the user goes back or forward: typing, clearing,   *)
(* opening and closing keep it so, whatever the page's own application of  *)
(* its first URL does in between.                                          *)
UrlNamesThePanel == AtRest /\ moves = 0 => Current = Url(query, selected)

(* Going back and forward loses nothing: only opening a case adds an       *)
(* entry, after the current one, and all else rewrites the current entry,  *)
(* the one moved to included.                                              *)
HistoryIsKept ==
    [][\/ /\ selected = NoCase /\ selected' # NoCase
          /\ position' = position + 1 /\ Len(entries') = position'
          /\ SubSeq(entries', 1, position) = SubSeq(entries, 1, position)
       \/ /\ Len(entries') = Len(entries)
          /\ \A p \in DOMAIN entries \ {position} : entries'[p] = entries[p]]_urlVars

-----------------------------------------------------------------------------
(* Why the URL names the panel, the inductive invariant of the proof.  It  *)
(* is that of links without a case, before the user goes back or forward:  *)
(* the one application there is hides the results until it is over.        *)

Urls == {Url(q, c) : q \in Queries \cup {NoQuery}, c \in Cases \cup {NoCase}}

Applications ==
    [case : Cases \cup {NoCase}, at : {"refresh", "run"}, hides : BOOLEAN, same : BOOLEAN]

UrlTypeInv ==
    /\ entries \in Seq(Urls) /\ position \in DOMAIN entries /\ moves \in Nat
    /\ query \in Queries \cup {NoQuery} /\ watched \in Queries \cup {NoQuery}
    /\ selected \in Cases \cup {NoCase} /\ applied \in Seq(Applications)

LinksHaveNoCase == \A u \in Links : u.case = NoCase

(* The page came with a query: nothing is open below it. *)
FirstUrlIsApplied ==
    moves = 0 => \A i \in DOMAIN applied :
        /\ applied[i].at = "refresh" /\ applied[i].case = NoCase
        /\ applied[i].hides /\ ~applied[i].same
        /\ selected = NoCase

UrlIsWritten == moves = 0 /\ query = watched => Current = Url(query, selected)

UrlInv == UrlTypeInv /\ (LinksHaveNoCase => FirstUrlIsApplied /\ UrlIsWritten)
=============================================================================
