--------------------------- MODULE ParquetViewer ----------------------------
(***************************************************************************)
(* The page of the Parquet viewer (views/main_layout.rs) and its reader    *)
(* (views/parquet_reader.rs, storage/readers.rs): files are opened from    *)
(* the disk, a URL, a bucket or VS Code, their tables are registered with  *)
(* the one DataFusion session of the page, and queries are submitted.      *)
(*                                                                         *)
(* A load is a task of two awaits: it reads the footer through the store   *)
(* it was made with, then registers the table, whose schema DataFusion     *)
(* reads through the store that is registered under the key.  Loads run    *)
(* side by side, and the page goes on meanwhile, also when one of them     *)
(* panics: each is a task of its own (spawn_local).  The hash of a store   *)
(* URL in a table name is taken to be without collisions; the four digits  *)
(* of the random id of a dropped file are not.                             *)
(***************************************************************************)
EXTENDS Integers, Sequences, FiniteSets, SequencesExt

CONSTANTS
    Sources,     \* what can be opened
    Endpoints,   \* the S3 endpoints that can be set, with their keys
    Tags,        \* the first four digits of a random id
    Object,      \* Object[endpoint][source]: the contents there, 0 where no Parquet file is
    Contents,    \* the contents, by their number
    Queries,     \* what can be typed
    MaxOpens, MaxAsks, MaxMoves, MaxEndpoints \* bounds

ASSUME SourcesAreKnown ==
    \A s \in Sources : /\ s.kind \in {"file", "url", "s3", "vscode"} /\ s.accepted \in {"no", "named", "yes"}
                       /\ s.short \in BOOLEAN \* fewer bytes than a footer has
ASSUME EndpointsAreThere == Endpoints # {}
ASSUME ObjectsAreNumbered ==
    /\ Object \in [Endpoints -> [Sources -> Nat]]
    /\ \A e \in Endpoints, s \in Sources : s.short => Object[e][s] = 0
ASSUME OpensIsNat == {MaxOpens, MaxAsks, MaxMoves, MaxEndpoints} \subseteq Nat

DefaultQuery == [form |-> "default"]

VARIABLES
    in_vscode, \* the page runs in VS Code
    route,     \* "viewer" or "rewriter"
    linked,    \* the source of the URL the page was opened with, or none
    endpoint,  \* the endpoint and the keys in the settings
    loads,     \* the loads in flight
    stores,    \* the object stores of the session: the endpoint of each key
    tables,    \* its tables: the key and the path of each name
    files,     \* loaded_files
    results,   \* query_results
    input,     \* query_input
    error,     \* error_message: the source it is of, or none
    opened, asks, moves, endpoints \* how often: opened, typed or submitted or hidden, left, set

bounds == <<opened, asks, moves, endpoints>>
session == <<stores, tables>>
page == <<files, results, input, error>>
viewerVars == <<in_vscode, route, linked, endpoint, loads, session, page, bounds>>

-----------------------------------------------------------------------------
(* The readers. *)

(* The key of a store: a random id for a file, the origin of a URL, the    *)
(* name of a bucket.  Only a bucket is reached by way of the endpoint, and *)
(* its key does not tell which.                                            *)
StoreKey(s, n) == IF s.kind = "file" THEN <<"webfile", ToString(n)>> ELSE s.key

(* short_object_store_tag *)
Tag(s, tag) == IF s.kind = "file" THEN <<tag>> ELSE s.key

(* read_from_url, read_from_s3, read_web_file and read_from_vscode of a    *)
(* source that can be opened: a ParquetUnresolved, in the task that        *)
(* resolves it.                                                            *)
Load(s, n, tag) ==
    [source |-> s, key |-> StoreKey(s, n), endpoint |-> endpoint, at |-> "footer",
     name |-> <<s.table, Tag(s, tag)>>]

(* on_parquet_read.  A file whose name has another extension is refused in *)
(* a toast; a name that ends otherwise than in ".parquet", an address that *)
(* is none and an empty field are errors.                                  *)
Opens(s, tag) ==
    /\ opened < MaxOpens /\ opened' = opened + 1
    /\ loads' = IF s.accepted = "yes" THEN Append(loads, Load(s, opened', tag)) ELSE loads
    /\ error' = IF s.accepted = "named" THEN <<s>> ELSE error

OpenSource(s, tag) ==
    /\ route = "viewer"
    /\ (s.kind = "vscode") = in_vscode
    /\ Opens(s, tag)
    /\ UNCHANGED <<in_vscode, route, linked, endpoint, session, files, results, input, asks, moves, endpoints>>

OpenAny == \E s \in Sources, tag \in Tags : (s.kind = "file" \/ tag = CHOOSE t \in Tags : TRUE) /\ OpenSource(s, tag)

(* An input of the settings: saved when it is typed. *)
SetEndpoint ==
    /\ endpoints < MaxEndpoints /\ endpoints' = endpoints + 1
    /\ \E e \in Endpoints \ {endpoint} : endpoint' = e
    /\ UNCHANGED <<in_vscode, route, linked, loads, session, page, opened, asks, moves>>

-----------------------------------------------------------------------------
(* try_into_resolved. *)

ContentsAt(e, s) == Object[e][s]

(* A store or a table is registered with the session under its key. *)
Registered(map, key, value) == [k \in DOMAIN map \cup {key} |-> IF k = key THEN value ELSE map[k]]

EndLoad(i) == loads' = RemoveAt(loads, i)

(* The eight bytes before the end are asked for and cut from the answer    *)
(* unchecked, and the store of a dropped file unwraps what a read gives.   *)
LoadPanics(i) ==
    /\ loads[i].source.kind = "file" \/ loads[i].source.short
    /\ EndLoad(i)
    /\ UNCHANGED <<in_vscode, route, linked, endpoint, session, page, bounds>>

(* Mutant: a load whose file is gone ends without a word. *)
LoadFailsQuietly(i) ==
    /\ EndLoad(i)
    /\ UNCHANGED <<in_vscode, route, linked, endpoint, session, page, bounds>>

(* Any of its requests may fail, and so may what it makes of the answers;  *)
(* a dropped file that is too short does not get so far.                   *)
LoadFails(i) ==
    /\ ~(loads[i].source.kind = "file" /\ loads[i].source.short)
    /\ EndLoad(i) /\ error' = <<loads[i].source>>
    /\ UNCHANGED <<in_vscode, route, linked, endpoint, session, files, results, input, bounds>>

(* The footer and the metadata are read; the store is registered, unless   *)
(* one is under its key.                                                   *)
ReadsFooter(i) ==
    LET load == loads[i]
    IN /\ load.at = "footer" /\ ContentsAt(load.endpoint, load.source) # 0
       /\ stores' = IF load.key \in DOMAIN stores THEN stores ELSE Registered(stores, load.key, load.endpoint)
       /\ loads' = [loads EXCEPT ![i].at = "table"]
       /\ UNCHANGED <<in_vscode, route, linked, endpoint, tables, page, bounds>>

(* The file as the page keeps it: ParquetResolved. *)
Resolved(load) ==
    [table_name |-> load.source.table, registered |-> load.name, key |-> load.key,
     source |-> load.source, contents |-> ContentsAt(load.endpoint, load.source)]

Entry(id, query, file) == [id |-> id, query |-> query, display |-> TRUE, file |-> file]

(* Mutant: a table takes the place of the one that has its name. *)
CanRegisterOver(load) == ContentsAt(stores[load.key], load.source) # 0

(* register_parquet: the schema can be read through the registered store,  *)
(* and no table has the name.                                              *)
CanRegister(load) ==
    /\ ContentsAt(stores[load.key], load.source) # 0
    /\ load.name \notin DOMAIN tables

(* The file joins those of then, and so does its first query.              *)
RegistersTable(i) ==
    LET load == loads[i]
    IN /\ load.at = "table" /\ CanRegister(load)
       /\ tables' = Registered(tables, load.name, [key |-> load.key, source |-> load.source])
       /\ files' = Append(files, Resolved(load))
       /\ input' = DefaultQuery
       /\ results' = Append(results, Entry(Len(results), DefaultQuery, Resolved(load)))
       /\ EndLoad(i)
       /\ UNCHANGED <<in_vscode, route, linked, endpoint, stores, error, bounds>>

-----------------------------------------------------------------------------
(* Queries. *)

(* Mutant: only the quoted name is replaced. *)
SqlTableQuotedOnly(query, file) ==
    CASE query.form = "quoted" -> IF query.table = file.table_name THEN file.registered ELSE <<query.table>>
      [] query.form \in {"spaced", "last"} -> <<query.table>>
      [] query.form \in {"default", "prose"} -> file.registered

(* user_input_to_sql: the table the SQL reads.  The name of the file is    *)
(* replaced where it is quoted, or has a blank on either side; the first   *)
(* query is known; prose goes to a service that is told the name.          *)
SqlTable(query, file) ==
    CASE query.form \in {"quoted", "spaced"} ->
            IF query.table = file.table_name THEN file.registered ELSE <<query.table>>
      [] query.form = "last" -> <<query.table>>
      [] query.form \in {"default", "prose"} -> file.registered

HasGroups(n) == Contents[n].groups # <<>>

(* QueryInput is there when the last file has a row group. *)
QueryInputShown ==
    route = "viewer" /\ files # <<>> /\ HasGroups(Last(files).contents)

TypeQuery ==
    /\ QueryInputShown
    /\ asks < MaxAsks /\ asks' = asks + 1
    /\ \E q \in Queries : input' = q
    /\ UNCHANGED <<in_vscode, route, linked, endpoint, loads, session, files, results, error, opened, moves, endpoints>>

(* on_submit_query, of the file that was loaded last. *)
SubmitQuery ==
    /\ QueryInputShown
    /\ asks < MaxAsks /\ asks' = asks + 1
    /\ results' = Append(results, Entry(Len(results), input, Last(files)))
    /\ UNCHANGED <<in_vscode, route, linked, endpoint, loads, session, files, input, error, opened, moves, endpoints>>

(* on_hide: the first entry of that id. *)
Hide(id) ==
    LET i == SelectInSeq(results, LAMBDA entry : entry.id = id)
    IN /\ i # 0 /\ results[i].display
       /\ asks < MaxAsks /\ asks' = asks + 1
       /\ results' = [results EXCEPT ![i].display = FALSE]
       /\ UNCHANGED <<in_vscode, route, linked, endpoint, loads, session, files, input, error, opened, moves, endpoints>>

-----------------------------------------------------------------------------
(* Pages. *)

(* The sidebar, which VS Code does not have.  The reader, the results and  *)
(* the panel of the viewer go away; the files and the entries stay.        *)
ToRewriter ==
    /\ ~in_vscode /\ route = "viewer"
    /\ moves < MaxMoves /\ moves' = moves + 1
    /\ route' = "rewriter"
    /\ UNCHANGED <<in_vscode, linked, endpoint, loads, session, page, opened, asks, endpoints>>

(* Back by the sidebar, to a viewer without a URL. *)
ToViewer ==
    /\ route = "rewriter"
    /\ route' = "viewer"
    /\ UNCHANGED <<in_vscode, linked, endpoint, loads, session, page, bounds>>

(* Back through the history: a new reader opens the URL again. *)
BackToLink ==
    /\ route = "rewriter" /\ linked # <<>>
    /\ route' = "viewer"
    /\ Opens(linked[1], CHOOSE t \in Tags : TRUE)
    /\ UNCHANGED <<in_vscode, linked, endpoint, session, files, results, input, asks, moves, endpoints>>

ViewerInit ==
    /\ in_vscode \in BOOLEAN
    /\ linked \in IF in_vscode THEN {<<>>}
                  ELSE {<<>>} \cup {<<s>> : s \in {t \in Sources : t.kind = "url" /\ t.accepted = "yes"}}
    /\ endpoint = CHOOSE e \in Endpoints : TRUE
    /\ route = "viewer"
    /\ opened = Len(linked)
    /\ loads = IF linked = <<>> THEN <<>> ELSE <<Load(linked[1], 1, CHOOSE t \in Tags : TRUE)>>
    /\ stores = <<>> /\ tables = <<>>
    /\ files = <<>> /\ results = <<>> /\ input = DefaultQuery /\ error = <<>>
    /\ asks = 0 /\ moves = 0 /\ endpoints = 0

ViewerNext ==
    \/ OpenAny \/ SetEndpoint
    \/ \E i \in DOMAIN loads : LoadPanics(i) \/ LoadFails(i) \/ ReadsFooter(i) \/ RegistersTable(i)
    \/ TypeQuery \/ SubmitQuery
    \/ \E i \in DOMAIN results : Hide(results[i].id)
    \/ ToRewriter \/ ToViewer \/ BackToLink
=============================================================================
