----------------------------- MODULE RunReports -----------------------------
(***************************************************************************)
(* The data of the report as the Python scripts compute it: a run from the *)
(* raw results of the two suites (normalize_run.py, build_pages.py), its   *)
(* Parquet directory and back (parquet_run.py), the search rows over all   *)
(* runs, and the comparison of two runs (compare_runs.py).  A name stands  *)
(* for classname and name of a test; a message for message and detail.     *)
(***************************************************************************)
EXTENDS Integers, Sequences, FiniteSets, SequencesExt, Lists

CONSTANTS
    Comparable,  \* Comparable[m]: message m without what changes between runs
    FeaturesOf,  \* FeaturesOf[n]: the pytest markers, or the Mint target, of test n
    FileFeature  \* the feature of s3-tests whose markers are not known

SuiteKeys == {"s3_tests", "mint"}

-----------------------------------------------------------------------------
(* normalize_run.py.  A raw result has, per suite, the exit code and the   *)
(* lines of its result file (none when there is no file); the exit codes   *)
(* of build and cluster, saved as 0 for steps that did not run; the log    *)
(* files; and whether it is a full run of Ozone's main branch.             *)

(* The children of a junit testcase; the word in a line of Mint's log. *)
S3Status(children) ==
    IF "failure" \in children THEN "fail"
    ELSE IF "error" \in children THEN "error"
    ELSE IF "skipped" \in children THEN "skipped" ELSE "pass"
MintStatus(word) ==
    IF word = "PASS" THEN "pass" ELSE IF word = "FAIL" THEN "fail" ELSE "skipped"

(* Lines of Mint's log that are no JSON are counted and dropped. *)
Parsed(s, lines) ==
    IF s = "mint" THEN Picked(lines, {i \in DOMAIN lines : lines[i].outcome # "garbled"}) ELSE lines

CasesOf(s, lines, markers) ==
    LET parsed == Parsed(s, lines)
        Case(l) ==
            [name |-> l.name, message |-> l.message,
             status |-> IF s = "mint" THEN MintStatus(l.outcome) ELSE S3Status(l.outcome),
             features |-> IF s = "mint" \/ markers THEN FeaturesOf[l.name] ELSE {FileFeature}]
    IN [i \in DOMAIN parsed |-> Case(parsed[i])]

With(cases, statuses) == Picked(cases, {i \in DOMAIN cases : cases[i].status \in statuses})
NonPassingStatuses == {"fail", "error", "skipped"}
NonPassing(cases) == With(cases, NonPassingStatuses)

(* The rate is the pair it is the quotient of; NoRate when nothing counts. *)
NoRate == <<0, 0>>

(* Mutant: skipped cases count against the rate. *)
SummaryOfAll(cases) ==
    LET passed == Len(With(cases, {"pass"}))
    IN [total |-> Len(cases), passed |-> passed, failed |-> Len(With(cases, {"fail"})),
        errored |-> Len(With(cases, {"error"})), skipped |-> Len(With(cases, {"skipped"})),
        eligible |-> Len(cases), rate |-> IF cases = << >> THEN NoRate ELSE <<passed, Len(cases)>>]

Summary(cases) ==
    LET passed == Len(With(cases, {"pass"}))
        failed == Len(With(cases, {"fail"}))
        errored == Len(With(cases, {"error"}))
        eligible == passed + failed + errored
    IN [total |-> Len(cases), passed |-> passed, failed |-> failed, errored |-> errored,
        skipped |-> Len(With(cases, {"skipped"})), eligible |-> eligible,
        rate |-> IF eligible = 0 THEN NoRate ELSE <<passed, eligible>>]

FeatureSummaries(cases) ==
    [f \in UNION {c.features : c \in ToSet(cases)} |->
        Summary(Picked(cases, {i \in DOMAIN cases : f \in cases[i].features}))]

(* All cases of Mint are kept; those of s3-tests when asked for, else the  *)
(* non-passing ones.                                                       *)
Suite(s, lines, exit, all, markers) ==
    LET cases == CasesOf(s, lines, markers)
    IN [status |-> IF cases # << >> THEN "completed" ELSE IF exit # 0 THEN "error" ELSE "not_run",
        exit |-> exit, summary |-> Summary(cases), features |-> FeatureSummaries(cases),
        strategy |-> IF s = "mint" \/ all THEN "all" ELSE "non_passing_only",
        cases |-> IF s = "mint" \/ all THEN cases ELSE NonPassing(cases)]

overall_status(build, cluster, suites) ==
    IF build # 0 THEN "build_failed"
    ELSE IF cluster # 0 THEN "cluster_failed"
    ELSE IF \E s \in DOMAIN suites : suites[s].status = "error" THEN "partial"
    ELSE "completed"

(* A run; ids are timestamps, so newer runs have larger ones. *)
NormalizedRun(id, raw, all) ==
    LET suites == [s \in SuiteKeys |-> Suite(s, raw.lines[s], raw.exit[s], all, TRUE)]
    IN [id |-> id, main |-> raw.main, suites |-> suites,
        status |-> overall_status(raw.build, raw.cluster, suites)]

(* build_pages.py makes a run of raw results without run.json: the exit    *)
(* codes are inferred from the files, the sources are unknown.             *)
Recover(id, raw) ==
    LET suites == [s \in SuiteKeys |->
            LET suite == Suite(s, raw.lines[s], IF raw.lines[s] = << >> THEN 1 ELSE 0, FALSE, FALSE)
            IN IF s = "mint" /\ suite.summary.failed + suite.summary.errored > 0
               THEN [suite EXCEPT !.exit = 1] ELSE suite]
        started == raw.build = 0 /\ raw.cluster = 0
    IN [id |-> id, main |-> FALSE, suites |-> suites,
        status |-> overall_status(raw.build, IF started THEN 0 ELSE 1, suites)]

-----------------------------------------------------------------------------
(* parquet_run.py: a run's directory under data/runs.  `logs` are the logs *)
(* files in it, `index` is log-files.parquet.                              *)
NoDir == [logs |-> {}, index |-> {}]
NoRaw == [given |-> FALSE, logs |-> {}]
RawLogs(raw) == [given |-> TRUE, logs |-> raw.logs]

(* Mutant: the index is written anew without raw logs, too. *)
IndexOfRaw(dir, raw) == raw.logs

(* Without raw logs the index stays, or is rebuilt from the logs files     *)
(* when it is empty.                                                       *)
Index(dir, raw) ==
    IF raw.given THEN raw.logs ELSE IF dir.index # {} THEN dir.index ELSE dir.logs

(* The rows of a run in its Parquet files. *)
MetadataRow(run) == [id |-> run.id, main |-> run.main, status |-> run.status]
SuiteRows(run) ==
    {[key |-> s, status |-> run.suites[s].status, exit |-> run.suites[s].exit,
      summary |-> run.suites[s].summary, strategy |-> run.suites[s].strategy]
        : s \in DOMAIN run.suites}
FeatureRowsOf(run) ==
    UNION {{[key |-> s, name |-> f, summary |-> run.suites[s].features[f]]
        : f \in DOMAIN run.suites[s].features} : s \in DOMAIN run.suites}
CaseRows(run, s) == run.suites[s].cases

(* write_run_dataset, over a directory that may have been copied. *)
WriteRun(run, dir, raw) ==
    [metadata |-> MetadataRow(run), suites |-> SuiteRows(run), features |-> FeatureRowsOf(run),
     cases |-> [s \in DOMAIN run.suites |-> CaseRows(run, s)],
     logs |-> dir.logs \cup raw.logs, index |-> Index(dir, raw)]

(* Mutant: a suite is given the features of both. *)
FeatureRowsOfAll(dir, s) == dir.features

FeatureRows(dir, s) == {r \in dir.features : r.key = s}

(* read_run_dataset *)
ReadRun(dir) ==
    LET Features(s) ==
            [f \in {r.name : r \in FeatureRows(dir, s)} |->
                (CHOOSE r \in FeatureRows(dir, s) : r.name = f).summary]
        SuiteOf(row) ==
            [status |-> row.status, exit |-> row.exit, summary |-> row.summary,
             features |-> Features(row.key), strategy |-> row.strategy,
             cases |-> dir.cases[row.key]]
    IN [id |-> dir.metadata.id, main |-> dir.metadata.main, status |-> dir.metadata.status,
        suites |-> [s \in {r.key : r \in dir.suites} |->
                        SuiteOf(CHOOSE r \in dir.suites : r.key = s)]]

NewestFirst(ids) == Descending(ids)

(* build_catalog_runs *)
Catalog(runs) ==
    LET ids == NewestFirst(DOMAIN runs)
    IN [i \in DOMAIN ids |-> [id |-> ids[i], status |-> runs[ids[i]].status,
            rates |-> [s \in SuiteKeys |-> runs[ids[i]].suites[s].summary.rate]]]

(* Mutant: the exact message is the key. *)
KeyExact(s, case) ==
    [suite |-> s, name |-> case.name, status |-> case.status,
     features |-> case.features, content |-> case.message]

(* search_case_key: the same test ending the same way. *)
Key(s, case) ==
    [suite |-> s, name |-> case.name, status |-> case.status,
     features |-> case.features, content |-> Comparable[case.message]]

(* build_search_case_rows: one row per key; it shows the case of the       *)
(* newest run that has one and lists its runs.                             *)
SearchRows(runs) ==
    LET Keys(id) == UNION {{Key(s, c) : c \in ToSet(CaseRows(runs[id], s))}
                            : s \in DOMAIN runs[id].suites}
        Row(k) ==
            LET ids == NewestFirst({id \in DOMAIN runs : k \in Keys(id)})
                newest == CaseRows(runs[ids[1]], k.suite)
            IN [suite |-> k.suite, ids |-> ids,
                case |-> newest[SelectInSeq(newest, LAMBDA c : Key(k.suite, c) = k)]]
    IN {Row(k) : k \in UNION {Keys(id) : id \in DOMAIN runs}}

-----------------------------------------------------------------------------
(* compare_runs.py *)

(* suite_case_map: of two cases with one name the later counts. *)
CaseMap(suite) ==
    [n \in {c.name : c \in ToSet(suite.cases)} |->
        suite.cases[SelectLastInSeq(suite.cases, LAMBDA c : c.name = n)]]
HasAllCases(suite) == suite.strategy # "non_passing_only"

Failing(map) == {n \in DOMAIN map : map[n].status \in NonPassingStatuses}

(* Mutant: a test the candidate did not run is taken to pass. *)
SuiteDeltasOfRun(candidate, baseline) ==
    LET new == CaseMap(candidate)
        old == CaseMap(baseline)
        both == Failing(new) \cap Failing(old)
        same == {n \in both : new[n].status = old[n].status}
    IN [new_non_passing |-> Failing(new) \ Failing(old),
        no_longer_non_passing |-> Failing(old) \ Failing(new),
        changed_non_passing |-> both \ same,
        still_non_passing |-> same]

(* summarize_suite_deltas *)
SuiteDeltas(candidate, baseline) ==
    LET new == CaseMap(candidate)
        old == CaseMap(baseline)
        both == Failing(new) \cap Failing(old)
        same == {n \in both : new[n].status = old[n].status}
    IN [new_non_passing |->
            {n \in Failing(new) \ Failing(old) : HasAllCases(baseline) \/ n \notin DOMAIN old},
        no_longer_non_passing |-> (DOMAIN new \ Failing(new)) \cap Failing(old),
        changed_non_passing |->
            (both \ same) \cup (IF HasAllCases(candidate) THEN Failing(old) \ DOMAIN new ELSE {}),
        still_non_passing |-> same]
=============================================================================
