# Verification of ozone-s3-compatibility

TLA+ specifications of the S3 compatibility report of Apache Ozone: the nightly run that produces
it, the workflows that publish it, the page that reads it, and the Parquet viewer beside that page. TLC checks the
specifications on small instances; TLAPS proves, for every instance, all their safety: every invariant and every action
property that a run checks, and the refinement of what the object store promises. Liveness is checked by TLC only.
`PROJECT.json` lists every run, the source lines every definition stands for, the hazards the properties are for, and the
theorems.

## 1. The system and its parts

The repository has four layers. *Producers*: shell scripts (driven by `scripts/run-nightly.sh` or
`.github/workflows/nightly.yml`) clone and build Ozone, start a cluster, run the suites s3-tests and Mint
against it and normalize the outcome into one run of the report. *Publishers*: two GitHub workflows build the page
from the runs on the `gh-pages` branch and push it back. *Readers*: a Vue page
(`site/src/App.vue`) that loads Parquet files, searches all test cases with DataFusion compiled to
WebAssembly (`case-search/`), and keeps what it shows in its URL. The *viewer* (`parquet-viewer/`) is a Dioxus
application, compiled to WebAssembly and embedded in the page (or run on its own, or in VS Code), that opens Parquet files, describes
them, queries them with DataFusion and rewrites them.

| Part | State | Operations | Interacts with | What is hard | What makes it correct |
|---|---|---|---|---|---|
| HTTP range store (`case-search/src/store.rs`) | per object: size, version, cached segments; statistics | `head`, `get_opts`, `get_ranges` | DataFusion's concurrent reads; the server through a fetcher | awaits between planning and inserting; republication between any two requests; coalescing and merging of ranges | answers are exactly the bytes of one version; segments never overlap or touch; no byte cached is asked for again; every call ends |
| Engine and bindings (`engine.rs`, `wasm.rs`) | registered tables, one store per origin | `register_parquet`, `query_json`, `stats` | store, session | the first read of a file opens it | a table is queried only when registered |
| Client (`caseSearchEngine.ts`) | the loaded module | `createCaseSearchClient`, fetcher with cache mode | browser HTTP cache | the browser may answer with an older version | a reopened index bypasses the cache |
| Search session (`search.ts`) | shared `client`, `rowCount` | `createCaseSearchSession`, `search`, `withFreshIndexOnChange` | client, page | all searches share `client`, replaced before it is usable | a republication is invisible to the user; answers never go back in time; every search ends |
| Search panel (`App.vue`) | query, results, spinner, error, session, its promise, request id | typing, clearing, applying a URL, retrying, settling | session, URL | searches and session loads share spinner and error; answers out of order | at rest the results are those of the query in the box; the spinner is honest |
| Shareable URL (`shareState.ts`, `App.vue`) | history of the browser, applied URL | replace, push, apply | panel, browser | watcher, popstate and pending applications | the URL names what is shown; going back loses nothing |
| Run details and dialogs (`App.vue`, components) | loaded details, open dialog, sequence guards | load, open, close | data clients | shared loads, late snippets | planned |
| Data clients (`duckdbParquetQueryClient.ts`, `parquetReport.ts`) | shared promises, file aliases | open, register, query | DuckDB | promises kept after a rejection | planned |
| Nightly run (`scripts/nightly`, `nightly.yml`) | `.work`, `out/run/state/exports.env`, the cluster | clone, build, start, two suites, stop, normalize | machine, drivers | a step fails or is killed before it saved its state; signals and cancellation | the cluster is stopped; a report does not claim what was not run |
| Publication (`nightly.yml`, `refresh-pages-ui.yml`, `build_pages.py`) | `gh-pages`, clones | clone, build, push | GitHub | two workflows overlap, one pushes by force | no run is lost |
| Report data (`normalize_run.py`, `build_pages.py`, `parquet_run.py`) | the files of a run, the catalog, the search rows | normalize, recover, write, read back, fold | nightly run, workflows, page | every build rewrites every run from what it reads back; most cases are not kept | rates, failures and logs of a run stay what its raw results say |
| Comparison (`compare_runs.py`) | none | choose a baseline, compare | report data, pull request | a pass and an unlisted test look alike | the comment is true of the two runs |
| Viewer page and reader (`views/main_layout.rs`, `views/parquet_reader.rs`, `storage/readers.rs`, `nl_to_sql.rs`) | loaded files, query results, error; the session's object stores and tables | open from disk, URL, bucket, VS Code; submit and hide queries; other pages | one DataFusion session; panel, results | loads run side by side; stores and tables outlive the settings they were made with | each file has its own table, a query reads the file it names, a load adds its file or shows an error, unless it panics |
| Viewer file panel (`views/metadata.rs`, `views/schema.rs`, `components/page_info.rs`, `parquet_ctx.rs`) | selected row group and column, pages shown, cells asked | select, show, retry | the last file | kept when another file is shown; fields against leaves | what is shown adds up and is of the selection |
| Viewer query results (`views/query_results.rs`, `utils.rs`) | batches, the rest of the stream, rows shown, error | first batch, next batch, more rows, CSV and Parquet export | range cache | a poll takes the stream away while other buttons work | no batch is lost or doubled, the file of an export is complete, the button comes back |
| Viewer range cache (`storage/object_store_cache.rs`) | bytes by exact range | `get_ranges` | server | lock given back during requests; one request of several fails | every range gets bytes of its own |
| Viewer rewriter (`views/parquet_rewriter/tool.rs`) | list of files, settings, flag | add, remove, clear, edit, rewrite | browser | the rewrite runs while list and settings are edited | one schema, the output is what was shown when it was asked for |
| Viewer file store, statistics, plan tree, theme, toasts | - | - | - | - | not modelled: reads of a local file, rendering |
| Presentation of the report, build scripts, patches | - | - | - | - | not modelled: rendering or textual edits |

## 2. Modules

| Module | Models | Extends or instantiates |
|---|---|---|
| `ByteRanges` | ranges and the options of a read | |
| `SegmentMap` | `CachedObject` as a function from start to segment, its lookups and `insert`, `ranges_to_fetch` as sets of offsets | `ByteRanges` |
| `Lists` | sums, filters and sorting of lists as the code's iterators do them | |
| `SegmentScan` | the scanning loops of the source, compared with `SegmentMap` | `SegmentMap`, `Lists` |
| `HttpRangeStore` | the store, its readers, the server | `SegmentMap`, `VersionedRead` (as `Promise`) |
| `VersionedRead` | what the store promises its callers | `ByteRanges` |
| `HttpRangeStoreProofs` | lemmas on the cache; theorems of the store and of `SegmentScan` | `HttpRangeStore`, `SegmentScan`, `SequenceFacts` |
| `SearchSession` | `createCaseSearchSession` over its clients, each as `VersionedRead` promises | |
| `SearchView` | the search panel, session loads and searches | |
| `SharedUrl` | the URL and history of the search panel | |
| `NightlyRun` | the steps of one run under both drivers | |
| `PagesPublish` | the two publishing workflows | |
| `RunReports` | the data of the report: raw results to a run, a run to Parquet and back, catalog, search rows, comparison | `Lists` |
| `ReportData` | the published data across nightly runs, refreshes and comparisons | `RunReports` |
| `ParquetFile` | what the viewer computes from the footer of a file | `Lists` |
| `FilePanel` | the panel of one file: selections, pages, cells | `ParquetFile` |
| `ParquetViewer` | the viewer's page: loads, session, files, queries | |
| `ViewerPage` | page and panel composed | `ParquetViewer`, `FilePanel` |
| `RangeCache` | the viewer's cache of ranges of one remote file | |
| `QueryResults` | one result of a query, reading through the cache beside another reader | `RangeCache` |
| `Rewriter` | the rewriter | `Lists` |
| `SequenceFacts` | lemmas on sequences of any elements, on folds and flattening, and on `Lists` | `Lists`, `TLAPS` |
| `SearchSessionProofs` | theorems of the session and of `SharedUrl` | `SearchSession`, `SharedUrl`, `SequenceFacts` |
| `ReportProofs` | theorems of the run, of `PagesPublish` and of `ReportData` | `NightlyRun`, `PagesPublish`, `ReportData`, `SequenceFacts` |
| `SearchViewProofs`, `RewriterProofs`, `ViewerPageProofs`, `QueryResultsProofs` | theorems | the four modules, `SequenceFacts` |
| `MCHttpRangeStore`, `MCSharedUrl`, `MCReportData`, `MCViewerPage`, `MCQueryResults`, `MCRewriter` | values of constants for TLC | |

Operators marked "Mutant" in comments are faulty variants kept beside the definition they vary; no
specification uses them. They show that each property notices such a fault.

### HttpRangeStore and SegmentMap

The page has one thread, so an action is what runs between two awaits. `Begin` is a call up to its
first request, `DeliverTail`/`DeliverHead`/`DeliverRange` continue when an answer is delivered, and
`Drop` is DataFusion abandoning a future. `wire[r]` holds the outstanding requests of reader `r` and
the server's answers; `Respond` answers with the version published at that moment (or fails),
`Republish` deploys another version at any time. A byte is the pair of its version and its
offset, so both mixtures and misplaced bytes are visible. `Exposed` is the set of response headers
CORS lets the page read; `MayIgnoreRanges` lets the server answer 200 with the whole body.
Statistics, failing write methods and the formatting of headers are left out; one object of one
origin is modelled, as objects share nothing. ETag and Last-Modified are one version id, seen when either is exposed.

`OpenFirst` says callers make a first read alone: `register_parquet` reads the file's footer
before any query is planned. With it FALSE, two first reads can overlap a republication and
`object_meta` inserts the tail of one version into the entry of the other, so the store alone does
not keep `NeverMixesVersions`.

`SegmentMap` states `missing` and `ranges_to_fetch` as the maximal runs of a set of offsets;
`SegmentScan` has the loops of the source and TLC compares the two for all caches and pairs of ranges in an
object of 6 offsets. The state machine and the proofs use the set form.

### SearchSession

`Opener` is `createCaseSearchSession`, `Searches` are the calls of `session.search` in flight. A
task is at `create` (awaiting the module), `register` (registering the table), `count` or `query`; `stage` tells
its first run, its reopening and its second run apart. A client's version is fixed by its
first answer (`OpenStore`) and any later request may find another one: that is what
`VersionedRead` promises. `Reachable` is the browser cache: mode `default` may
answer with any earlier version, `reload` only with the current one. The ghosts `newest`, `since` and
`noticed` are read by properties only. How the SQL is built and rows are ranked is not modelled.
Whether requests fail and whether searches overlap is chosen in the initial state (`failing`, `overlap`,
from the constants `Failures` and `Overlaps`), so that one run answers for every combination: properties
of calm sequential use name the condition.

### SearchView and SharedUrl

The query stands for the trimmed text with the suite filter. The watcher is a
microtask, so `Watch` precedes everything else (`query = watched` guards the rest). In `SearchView` a
refresh waits for its session load and then for its search; loads and searches settle in any order,
with success or failure; `ApplyUrl` is `popstate` (also before the index is loaded) and a link. In
`SharedUrl` the history is a sequence of URLs; pending calls of `applySearchUrlState` are the
sequence `applied`. Run-detail URLs are not modelled.

### NightlyRun and PagesPublish

`NightlyRun` keeps the machine (checkouts, whether containers are up, results) and the saved state
file apart: a step killed by an interruption changes the first and not the second. The driver is
chosen at the start; one interruption (a signal to the script, or the cancellation of the workflow) may
fall in any step before stopping. Stopping the containers is taken to succeed, although its failure is ignored
(`common.sh:248-251`). Not modelled: an interruption while stopping or normalizing, failures of `docker cp`, and what earlier runs left in `.work`. `PagesPublish` has two jobs, each alone in its
concurrency group with at most one pending refresh; a failing clone counts as a failing build. A page is its set of
runs and the commit of its interface.

### RunReports and ReportData

`RunReports` has no state: its operators are the functions of the four Python scripts. A test's name
stands for classname and name, a message for message and detail; `Comparable` is the
text that is left when addresses and line numbers are taken out. A rate is the pair of its
numerator and denominator. A raw result is what a nightly run leaves: per suite an exit code and
the lines of its result file, exit codes of build and cluster, log files. Run ids are
timestamps, so the order of ids is the order of starts and of ends.

`ReportData` applies them as the workflows do, one whole workflow an action: `Nightly` (with a
normalized run, or one that `build_pages.py` recovers), `Refresh` (which passes a published run as
the new one) and `Compare` (for a pull request). `ReportInit` has the branches that earlier versions of the scripts
left: only JSON, both formats, an emptied log index, today's. How two workflows overlap is
the subject of `PagesPublish`. Not modelled: words and ids of search rows, the catalog of files, the JSON index
that a build writes and removes, the social preview, the summary of Mint's console, and the rendering of the comment.

### ParquetViewer, FilePanel, ParquetFile and ViewerPage

A load is two awaits: `ReadsFooter` reads the metadata through the store the reader made and registers that store
unless its key is taken; `RegistersTable` registers the table, whose schema DataFusion reads through the
*registered* store, and adds the file, the default query and its entry to the lists as they are then.
`LoadFails` is any request that fails, and says so on the page. `LoadPanics` is a load that does not: the last eight bytes
are cut from whatever the store gives for them (`parquet_reader.rs:100-105`), so something shorter than a footer (`short`) panics,
and the store of a dropped file unwraps a failed read (`web_file_store.rs:181`). The load is a task of its own (`spawn_local`),
so such a panic ends it and leaves the page as it was. `error` holds the source of the load the message is of.
A key is a random id for a dropped file, the origin of a URL, and the
bucket's name alone for S3, so `stores` says which endpoint a key was first registered with. `Object` gives the
contents at each endpoint. `accepted` tells the sources that are refused in a toast or as an error from those that are
opened. A query is abstracted to how it names a table (quoted, between blanks, at its end, the default, or prose): that
is what `user_input_to_sql` looks at; the service behind prose is told the file's table and is trusted to use it.
`BackToLink` is the browser's history, which brings up a reader that opens the URL again.

`FilePanel` keeps its state when it is given another file, as Dioxus does: components are kept, a resource runs again
only when a signal it reads is set. `chunk` has the chunk whose pages are shown and the one that is being read; a cell has its value, the
file it was asked of among it, and the file being asked. `panicked` is an index out of bounds, which stops the page.
`ParquetFile` has no state: a file is a record of its fields, each with the paths of its leaves, and its row groups, each with a
chunk per leaf. The rows of the file and the rows and size of a group are fields of their own, as in the footer: nothing makes
them agree with each other or with the chunks. Ratios are pairs, a null count is cut to `U32`. Statistics of a chunk,
formatting and sorting of the table are left out. `ViewerPage` composes the two: after each step of the page
`PanelFollows` gives the panel the last file, or takes it away.

### RangeCache and QueryResults

`Call` is `get_ranges` up to its requests, with what the cache held then; `FetchAnswers` answers or fails one of them;
`Return` is what follows: the answers before the first failure are kept, and given to the results that have none. Bytes
are the version of the file they are of. `QueryResults` is one view of one query: a task polls the stream after
taking it from its signal (`Polls`), and `BatchComes`, `BatchFails` or `StreamEnds` end the poll. An export drains the
stream batch by batch, and ends with a file, an error that is shown, or a panic (`Save`, `Ended`): the writers' results are unwrapped
(`utils.rs:161`, `174-182`), and the CSV writer refuses nested columns. `Unwritable` has the batches the writer of each format refuses. An
export is a task of the page's own runtime (`spawn`), so its panic stops the page (`panicked`). The download of what was
written (`download_data`) is taken to succeed. Bytes of two versions may or may not decode, both are allowed. The view goes away with
its tasks (`Unmount`) and comes up anew. The *other reader* stands for the panel and other results on the same cache.
`alone` and `failed` are read by properties only.

### Rewriter

`reads` are the files being read, each added to the list (`AddFile`) when its own read ends. `DoRewrite` is the
handler, which takes files and settings along and spawns the task; `RewriteEnds` is that task. Between the two anything
may be edited, removed or cleared. `RewriteParquetFiles` abstracts pages to rows: it says which rows are in which row
group and which codec a leaf gets. `Asked` also keeps what the page showed at the click, for the property that compares it with the
download. Sizes of pages are copied to the writer and have no effect in the model; widths, encodings and file names are left out.

## 3. Runs

| Run | Question | Bounds |
|---|---|---|
| `segment_scan` | do the loops compute what the sets say, is the cache the last byte written | 6 offsets, gap 2, 2 stamps: every segment shape with one, two and three segments and gaps below, at and above the limit |
| `store_open` | safety and the promise under interleaving | 2 readers, 2 versions of 6 bytes, tail 2, gap 1; three calls with coalesced ranges, empty ranges, ranges into the tail and past the end |
| `store_options` | every form of `get_opts`; Content-Range hidden (HEAD fallback), ranges ignored, the file grown; every call ends | 1 reader, 8 calls, sizes 6 and 8 |
| `session` | order, freshness and ends of searches; without failures and overlap, one republication is invisible | 2 searches, 3 versions: the file changes again during a reopening; with and without failures and overlap |
| `view` | results, spinner, load, rest | 2 queries, 4 refreshes: an answer can be overtaken by two others and a retry |
| `url` | the URL and history | 2 queries, 2 cases, 3 entries, 2 moves |
| `nightly` | stopping, results and reports under both drivers | three repositories, two suites, one interruption |
| `report` | rates, failures, logs and comments say what the raw results say, refreshing changes nothing | 3 runs out of 7 raw results (several lines for a test, unparsable lines, no file, failed build), 3 tests, 4 candidates: a failure can repeat, change, vanish and come back |
| `pages` | history under overlapping workflows | 2 nightly runs, 2 pushes to main, failing lookups |
| `viewer` | files, tables and queries agree; the panel describes its file and shows its selection | 3 contents (nested with two row groups and a chunk that cannot be fetched; plain, with a footer whose rows and sizes do not agree; without row groups), 8 sources (two shorter than a footer), 2 endpoints, one tag (so that random ids collide), 2 opens, 2 queries or hides, one click, one change of endpoint and of page; `U32` = 4, so that a null count is cut |
| `results` | the stream, exports, answers of the cache, the end of polls | 3 batches of 2, 1 and 2 rows over 2 ranges, one of them asked for twice, 2 versions, 4 clicks, 2 appearances, another reader; the CSV writer refuses the third batch, the Parquet writer none |
| `rewriter` | one schema, the output, the list, the button | 5 inputs (a nested column, another schema, unreadable, no Parquet, undecodable), 2 codecs, 2 reads, 3 edits (so that a codec is chosen for a column and the toggle of the overrides put off again), one clearing |

Two readers (searches, jobs) suffice for the interactions of interest because they meet in
one shared variable (`object`, `client`, `branch`) and a third would repeat what the second does; for the store the
proofs remove the bound. Deadlock is not checked where the system or its bounds end: the nightly
run, the bounded panel, publication, the report before its first run, a session that was never created,
the bounded rewriter, and the viewer's page and results, which a panic stops.

In the viewer two files suffice for what goes wrong between files (a name, a key, a selection left
by another one); the theorems remove the bound. Two reads and three edits let the rewriter's list be one, two or no
files with a rewrite under way, and settings be combined.

### What the runs show

- The store, opened by a first read, cannot be told from reading one version (`ImplementsPromise`),
  and its cache is well formed whatever the interleaving.
- The session survives a republication when searches do not overlap (section 4 has the other case), and answers
  never go back to an older version.
- The panel always comes to rest with the right results, also with failing loads and an early `popstate`.
- The URL follows the panel until the user goes back or forward. After that, an entry without
  search state leaves the query of the later entry in the box; and a link with a query *and* a case
  loses the case, since `applyingSharedUrlState` is reset before the watcher runs. `UrlNamesThePanel`
  is stated for the rest.
- The workflow stops its cluster in all cases, the script unless a signal used up its only stop.
  A workflow cancelled in a suite reports `completed`, because `init.sh` saves exit code 0 for suites that have not run: the exception
  in `UncutReportsAreComplete`.
- Reading a run back from Parquet and writing it again loses nothing of it, in any number of rounds, and restores
  an emptied log index. A run that is published as JSON as well is read from there: its directory is not
  copied, and its logs are lost (the exception in `LogsStayFindable`).
- The comment on a pull request is true of the two runs it compares (of several lines for one test, the last
  counts). `latest_run_from_dir` does not look at a run's status: after a nightly
  run that failed to build, the baseline has no failures and all of the candidate's are new.
- The forced push of the nightly never drops a run unless its `git ls-remote` failed (the exception
  in `HistoryIsKept`); it may replace the interface a refresh has just published by an older one.
- In the viewer every file has a table of its own, and a query that names its file reads that table, however loads
  overlap. The exceptions are in the properties: after the S3 endpoint was changed, a bucket of the same name is read
  through the store of the first one, whose bytes need not be those the metadata is of; a table name that ends the
  text is not replaced; going back through the history opens the URL again and ends in an error, beside a
  file that is shown well; and an error, once shown, stays, whatever is loaded after it.
- Every load ends with its own file or its own error, except that a dropped file that cannot be read and anything shorter
  than a footer may end in a panic, with neither; the page and the other loads go on.
- In the panel every leaf has its line in the row of its field, and compressed sizes add up alike by columns, by row groups and in the
  summary. Uncompressed sizes need not: a column's is that of its chunks, a row group's and the summary's are `total_byte_size` of the footer;
  they add up where the footer gives each group the size of its chunks. The summary's rows are the footer's `num_rows`, which need not be
  those of the row groups, and nothing is claimed of it. The options of the column selection carry the index of the *field*, which then picks
  a *leaf*: with nested fields a chunk of another column is shown. The selection is kept when another file
  is loaded, and panics when that one is smaller; cells keep the values of the earlier file where both have the line.
- No batch of a query is lost or doubled, and the file of an export made while nothing else is going on is complete. Without a
  file an export shows an error, or stops the page because its writer refuses a batch that has come (a CSV of nested columns). An export
  clicked while *Load next batch* is out, or after a poll has failed, writes what has come so far and says nothing.
- The range cache gives every range bytes of its own, of some version; it notices no republication, so the ranges of one batch may be of two.
- A rewrite writes what was shown when it was clicked, whatever is edited meanwhile. The codec chosen for a nested
  column has no effect, as its leaves have longer paths. After *Clear all* during a rewrite a second can be
  started, and the end of the first ends its spinner.

## 4. Where code and docs disagree

The models follow the code; the properties except these cases.

- `case-search/src/store.rs:11-13` says that a file that has been republished fails with `STALE_OBJECT_MESSAGE`, for the
  caller to reopen it. A file that became *shorter* answers a range past its end with 416, and `request`
  (`store.rs:283`) makes that a generic HTTP error before versions are compared: the session does not reopen the index.
- `site/tests/search.test.mjs:255` expects the session to reopen the index and answer. `withFreshIndexOnChange`
  (`search.ts:501`) assigns the new client before `open()` has registered its table, so a second search started meanwhile runs on an
  engine without the table and is rejected. `SearchSession` claims invisibility for searches that do not overlap.
- `scripts/run-nightly.sh:47-49` ends with `infra_status` when a step has failed. `if ! step; then infra_status=$?`
  (line 24) reads the status of the negation, which is 0: after a failed clone, build or start the script goes on and
  ends with 0 (`normalize_status` likewise).

## 5. Fairness

`HttpRangeStore`: weak fairness of `Respond(r)` and of the delivery actions of each reader: a browser request settles
with an answer or an error, and the event loop runs every ready task. `SearchSession`: weak
fairness of each task's step, for the same reason. `SearchView`: weak fairness of settling while no
watcher is queued, and of the watcher, a microtask. `Rewriter`: weak fairness of the end of some spawned rewrite: the executor polls
the tasks it was given. `QueryResults`: weak fairness of some task's step and of the answers to the view's own requests (not the other
reader's): requests end and their tasks run on, as long as no export has stopped the page. None of the users' actions, `Republish`, `Drop` or
failures is fair. The other modules state safety only.

## 6. Proofs

A theorem holds for every value of the constants that meets its module's named ASSUMEs and what is said here.
Those marked with a dagger take `OpenFirst` and `VersionIsExposed` (the first read is made alone, and an ETag or
Last-Modified can be read by the page) as hypotheses.

| Theorem | Module | States |
|---|---|---|
| `CacheInvariant` | `HttpRangeStoreProofs` | `[]CacheInv` |
| `SegmentsNeverTouch` | | `[]SegmentsStayApart` |
| `OneVersionIsCached` † | | `[]NeverMixesVersions` |
| `AnswersAreOfOneVersion` † | | `[]AnswersAreExact` |
| `CachedBytesStay` † | | `CacheOnlyGrows` |
| `StoreImplementsPromise` † | | `ImplementsPromise`: the store implements `VersionedRead` |
| `CacheIsTheLastWrite` | | `[]CacheIsLastWritten` of `SegmentScan` |
| `PlansWasteOnlyShortGaps` | | `[]PlansAreTight` of `SegmentScan` |
| `LoopsComputeTheirSets` | | `[]ScansAreExact` of `SegmentScan` |
| `OneRepublicationIsInvisible` | `SearchSessionProofs` | `[]RepublicationIsInvisible` |
| `AnswersNeverGoBack` | | `SearchesNeverGoBack` |
| `UrlsNameThePanel` | | `[]UrlNamesThePanel` of `SharedUrl`, for links without a case |
| `EntriesAreKept` | | `HistoryIsKept` of `SharedUrl` |
| `PanelRestsOnItsQuery` | `SearchViewProofs` | `[]SettledResultsAreCurrent` |
| `SpinnerStandsForWork` | | `[]SpinnerIsHonest` |
| `RunsLeaveNoCluster` | `ReportProofs` | `[]ClusterIsStopped` |
| `WorkflowResultsAreOfItsCluster` | | `[]ResultsAreOfACluster` |
| `CompletedReportsHaveCases` | | `[]UncutReportsAreComplete` |
| `PublishedRunsStay` | | `HistoryIsKept` of `PagesPublish` |
| `RoundTrip` | | `ReadRun(WriteRun(run, dir, raw)) = run`, of every run (no run of TLC checks it by itself) |
| `RefreshesChangeNothing` | | `RefreshKeepsReport` of `ReportData` |
| `LogsAreFound` | | `LogsStayFindable` |
| `RatesAreOfTheResults` | | `[]RatesAreTrue` |
| `FailuresAreSearchable` | | `[]FailuresAreFound` |
| `CommentsAreTrue` | | `[]CommentIsTrue` |
| `FilesHaveTheirTables` | `ViewerPageProofs` | `[]TablesAreOfTheirFiles` |
| `QueriesReadTheirTables` | | `[]QueriesReadTheirFile` |
| `LoadsEndWithAWord` | | `LoadsEndInTheOpen` |
| `PanelsDescribeTheirFiles` | | `[]PanelDescribesItsFile` |
| `PanelsShowTheirSelection` | | `[]PanelShowsItsSelection` |
| `StreamIsNeverShared` | `QueryResultsProofs` | `[]StreamIsInOnePlace` |
| `LoneExportsAreComplete` | | `[]ExportsAreComplete` |
| `EveryRangeIsAnswered` | | `[]AnswersAreOfTheirRanges` |
| `ListsHaveOneSchema` | `RewriterProofs` | `[]SchemasAgree` |
| `RewritesLeaveFiles` | | `RewritesLeaveTheList` |
| `OutputWasShown` | | `[]OutputIsWhatWasShown` |

The specifications of `SegmentScan`, `SharedUrl`, `PagesPublish` and `ReportData` are named `ScanSpec`, `UrlSpec`, `PagesSpec` and
`ReportSpec`, so that one module can hold their theorems next to those of another component. A link with a case opens that case late, and
until then the watcher has rewritten the URL: `UrlNamesThePanel` is stated for links without a case, those of the run; the theorem on `HistoryIsKept`
is for all links.
Each inductive invariant below was also checked by TLC, under the constants of the module's run (with its unbounded quantifiers
bounded, where it has one).

### Sums, filters and loops

Much of what is proved is about what the code computes with loops, which the models write as the folds of the community modules.
The library's induction theorems cannot be used here, so an induction is a statement about a set of
numbers: `InductionUpTo` says that a part of `0..n` that has 0, and the successor of each of its elements below
`n`, is all of it (of the numbers left out, one would be the least). `FoldRuns` uses it once for all folds: a fold has a history, a
function that starts with the base and goes on by the step, and its value is the last of it. A lemma on a fold then states an invariant of that
history, as one would of the loop. `SequenceFacts` has those for totals (`TotalOfFlatten`, `TotalsExchange`: a table adds up alike
by rows and by columns), for filters, flattening and sorting, and for sets counted by parts (`CountByParts`).

### The store

*CacheInv* is inductive as it stands: `TypeOK`, `AwaitsMatch` (the requests a reader waits for are
those of the await it is at, and a fetching reader holds the entry's size and version) and
`SegmentsStayApart`. `AwaitsMatch` says that the bytes delivered are a non-empty answer
to a non-empty range, which the last part needs. The lemmas on `Insert` show that it keeps segments well formed and
separated and changes exactly the offsets of the new bytes (`Content`). Of constants they assume that
versions exist, that sizes and the tail length are positive, that calls are well typed and flags Boolean; nothing of the
number of readers, the calls, the server's modes or (for the first two theorems) the headers.

*VersionInv* is inductive together with *CacheInv*. `FirstReadOpens` says that before registration at
most one reader is active and afterwards nobody waits for a tail, so the entry's version is settled
once. A delivered range then passed `IsStale`, hence carries the entry's version, and `FetchIsPlaced`
puts its bytes where that version has them. `CachedBytesStay` follows: an overwritten byte is the
same byte.

*ReadInv*, inductive together with both, carries the refinement. `RepliesAreRecent`: an answer on the wire is of a version
between the opened and the published one, so a refusal of it has a reason the promise knows.
`PlansCoverTheCall`: each byte a suspended read asks for is cached, by whichever reader, or requested, also
after other readers' inserts; so a read whose fetches succeed finds each range in one segment
(`CachedRangeHasSlice`), and the error "range is missing after fetching" cannot be met.
`CacheIsWithinTheFile`: no request reaches past the end. Each step then is one of the promise or leaves
its variables alone (`NextIsPromised`, one lemma per action).

*Records* (`SegmentScan`) says that the cache's content is the last byte written at each offset. That the lookups, which look at
one segment, decide for the whole range is `CachedRangeHasSlice` again. `PlansAreTight` is no matter of
steps: it is proved of all separated caches and any two ranges from lemmas on the maximal runs of a
set of offsets. `RangesHaveALimit` and `UncachedRangesAreEmpty`, where a run of offsets is extended until it ends, use
that a non-empty set of naturals has a least element, in place of an induction.

`LoopsComputeTheirSets` has an invariant for each loop. *WalkInv*, of `missing`: the segments passed end before the
cursor, the gaps found are maximal runs of the set and end before it, and what is uncached below it is in one of them.
*MergeInv*, of `ranges_to_fetch`: what was merged is sorted and apart, starts and ends where ranges of the sorted list do, and has nothing
that need not be fetched; no two neighbours could be joined, and every range seen is inside one. That makes the merged ranges the maximal
runs. Two ranges meet in `ScansAreExact`; the lemmas (`ScanMissingIsExact` and that on the merge) are for any list.

### Page and session

*SessionInv* has the phases of a task (what it may await, and on which client), `ClientsInv` (only the last client can be
unopened while it is awaited), and `VersionsInv`: a query is on a client as new as every answer before its start, later clients
are no older, and what runs again after a stale file runs on a client opened after it was met. `AnswersNeverGoBack`
follows from these for overlapping searches, failing requests and a browser cache that answers with old files. `CalmInv`
adds, for calm use alone, that the reloaded client is of the last version, which `OneRepublicationIsInvisible` needs.

*PanelInv* numbers loads and refreshes by `sequence`. `LoadIsShared`: a load that is out is the only one, its promise is kept and
every refresh since waits for it. `FailedPromiseIsShown`: a failed promise is kept only on a page whose index was not loaded, with
its error shown. `QueryIsAnswered`: the query in the box is in flight as the last refresh, or the error or its results are shown.
The step that matters is a late answer: it belongs to a lower number and leaves results alone.

*UrlInv* is a type invariant and, where no link has a case, `FirstUrlIsApplied` (the application of the URL the page came with is
the only one, with nothing open below it) and `UrlIsWritten` (the URL names query and case while no application is under way).

*RunInv* relates what is up on the machine to what was saved. `UpCanBeStopped`: what is up has a saved
distribution to stop it with; before the start nothing is up, after the stop nothing is, except for the script's stop
that was interrupted. `StartedRunsSuites`: when the start was saved as done, both suites run unless the workflow was
cancelled, and a suite saved as successful has cases. *PagesInv* says that a clone with the branch's head is the branch
(`HeadsAreOfTheBranch`), that a nightly run at work knows all published runs or has found no branch, and that trees were built
from their clone.

*ReportInv* ties the published data to the ghost of raw results. `RunsInv`: the runs read back from the branch are the recorded ones, and each
is what normalizing (or recovering) its raw result gives, with the cases that are kept. `SiteInv`: catalog and search rows are
those of the runs. `LogInv`: an index was emptied or is complete. `CommentInv`: a comment is the comparison of the two runs it
names. `JsonsInv` says that the JSON runs are a function. It is inductive because of `RoundTrip`: a build reads every run back and writes it again, so
whatever the format had dropped would be lost at the next push. `RefreshesChangeNothing` follows from it.
`RatesAreOfTheResults` counts cases by status over the lines of the result files, `CommentsAreTrue` finds the last
line of each test, and `FailuresAreSearchable` the one row of each key. Their assumptions: the lines of a result file are a
list (`ResultsAreRaw`), and a test has a second line in an s3-tests file only when neither line is a pass
(`FailuresAreRepeated`: pytest writes the second one for a teardown that failed after a failed call). Without the latter the
baseline, which keeps only the non-passing cases, can tell another ending than the file.

### Viewer

*ViewerInv* strengthens the first two viewer theorems. `LoadsInv` says that a load about to register its table has
its store in the session: stores are never dropped. `StoresInv` says that until the endpoint is changed all stores are
at the one there is. `FilesInv` adds to `TablesAreOfTheirFiles` that a file's store is there and gives what was there
when the file was loaded; `ResultsInv` says an entry's file is of the list. The step that matters is
`RegistersTable`: the name it takes is no table's, hence no file's. The panel's steps change none of this. These
theorems use no assumption on constants; `LoadsEndWithAWord` needs only `ResultsInv`, that lists are sequences: each end
of a load is then one of three (its file, its error, its panic), and the third is left to dropped and short files.

*PageInv* adds the panel. `PlacesInv`: what was loaded is one of the contents. `ChunkInv`: what is read, and
with nothing to read what is shown, is of the selected row group and column, of whatever file. `CellsInv`: the cells are
those of the file, and a cell has asked a file of the list and has its value from one. `SelectionInv`: with one file only, a selection is in it. `PanelsShowTheirSelection` combines
them with what a cell's value is (`CellShows`): the row of a cell is that of its field, and the encodings counted are those
of every sound page that can be fetched.
`PanelsDescribeTheirFiles` is a matter of the data: `PanelsDescribe` proves it of any file that is Parquet. The columns are the leaves of
the fields, flattened; the rows divide them, since names of fields differ; the chunks are added up by row
groups and by columns (`ChunkTotals`); the uncompressed sizes are compared where `SizesAgree` holds of the footer. The assumptions:
`ContentsAreParquet` (`IsParquet` is what the footer reader and `register_parquet` accept; it says nothing of the footer's own sums), `ObjectsAreContents` and `EndpointsAreThere`, that objects and the setting exist. The conjunct
on nulls speaks of columns with at most one null a row in each group; a repeated column may have more.

*StreamInv* says that at most one task exists, because each poll takes the one stream along, and where the stream then is. That is
why an export clicked during a poll finds nothing to drain, and one clicked alone drains the rest. `SaveIsComplete` is the end of an
export: file, error or panic, by what has come and what its writer refuses.

*BytesInv* is about the range cache. For a call there is a function from the ranges it misses to
the places that have no bytes yet (`Places`), increasing and onto: the second loop of `get_ranges`, which fills the first empty
place of an equal range, therefore fills each place with a fetch of its own range, and leaves none empty when all
fetches succeeded. `OtherReadsAreRanges` says that the other reader asks for lists of ranges.

*SchemaInv* (rewriter) is `SchemasAgree` with the fact that the three lists are sequences. Adding compares with the
first file, and in a list of one schema that is to compare with all; removing leaves a part of such a list, so the check
in `remove_file` never fails; a rewrite takes the list along as it is. The first two theorems hold for any inputs,
with or without readable files, and any bounds. *AskedInv* has the types of list and settings and says of every rewrite under way, and of
the download, that list and settings it took along were those shown at the click (`WasShown`). What is written of them is
then computed: the rows in their order (`RowsAreThoseOfTheFiles`), in groups of at most the size chosen
(`GroupsHoldTheRows`, by the division that cuts them), and the codec a plain column showed (`CodecIsTheOneShown`). `InputsAreFiles` says that a file has
lists of rows.

### Only model-checked

Liveness, which is out of the prover's reach: `EverySearchEnds`, `PanelSettles`, `EveryCallEnds`, `PollsEnd`,
`ButtonComesBack`. `UrlNamesThePanel` is proved for links without a case, as it is checked. Nothing else that a run checks is without a
theorem.

## 7. Not modelled

Of the page: run details, dialogs, the DuckDB clients, run-detail URLs. Of the report: words of search
rows, the JSON index, the social preview. Of the viewer: the file store of the browser (one read per range, no
state between reads; a failed read, which it unwraps, is modelled for loads only: in the panel or in a query it stops what reads), statistics of a chunk, the tree of the plan, what is typed into the forms and kept in local
storage, theme and toasts. Build scripts and patches keep no state. Hazards that lie in these parts are listed in
`PROJECT.json` with a note and no property.

## 8. Plan

Order of work, most important first; each module is written with constants, one action per
operation and no recursive operator, so that it can be proved about.

1. *Done*: object store, session, panel, URL, nightly run, publication, report data and comparison; the viewer's
   page, panel, results, range cache and rewriter. Proved: the safety of each of these, and the refinement of `VersionedRead`.
2. An abstract specification of the report (runs and their raw results, without files), with `ReportData` shown to implement it; the
   versions `RangeCache` may hold.
3. `SearchPage`: session and panel composed, for a session stranded on an unregistered client until Retry.
4. `RunDetails` (loads shared by callers; `ensureRunSummaryDetailLoaded` returns before the load it
   joins ends) and `CaseModal` (sequence guards, late details and snippets); run-detail URLs in `SharedUrl`.
5. `DuckDbClient` (promises kept after a rejection, concurrent registration of files).
6. Rest of the report data: words and matching of search rows (`search.ts` builds its SQL on them), the
   index and trend of `report.ts`, recovery of Mint's targets.
