----------------------------- MODULE ReportData -----------------------------
(***************************************************************************)
(* The published data of the report across its workflows: nightly runs     *)
(* are added to it, refreshes rebuild it from itself, and runs for a pull  *)
(* request are compared with it.  The data of a step is that of module     *)
(* RunReports; how the steps of two workflows overlap is that of           *)
(* PagesPublish.                                                           *)
(***************************************************************************)
EXTENDS RunReports

CONSTANTS
    Results,      \* the raw results that a nightly run can leave
    Candidates,   \* the raw results of runs for a pull request
    LastPublished \* bound: how many runs are published

ASSUME LastPublishedIsPositive == LastPublished \in Nat \ {0}

(* The lines of a result file are a list. *)
ASSUME ResultsAreRaw ==
    \A raw \in Results \cup Candidates : \A s \in SuiteKeys : raw.lines[s] \in Seq(ToSet(raw.lines[s]))

(* pytest writes a second line for a test only when both its call and its  *)
(* teardown failed.                                                        *)
ASSUME FailuresAreRepeated ==
    \A raw \in Results : \A i, j \in DOMAIN raw.lines["s3_tests"] :
        i # j /\ raw.lines["s3_tests"][i].name = raw.lines["s3_tests"][j].name
        => S3Status(raw.lines["s3_tests"][i].outcome) # "pass"

VARIABLES
    page,     \* the data directory of gh-pages
    comment,  \* the comparison for a pull request, made from this page
    recorded  \* ghost: recorded[id]: the raw results of run id

reportVars == <<page, comment, recorded>>

NoRuns == [id \in {} |-> 0]
NoPage == [jsons |-> NoRuns, dirs |-> NoRuns, catalog |-> << >>, search |-> {}]
NoComment == [baseline |-> 0]

(* A new entry comes before one that was there. *)
Added(id, run, runs) == [i \in {id} \cup DOMAIN runs |-> IF i = id THEN run ELSE runs[i]]

-----------------------------------------------------------------------------
(* build_pages.py *)

(* load_existing_runs: a run that has a JSON file is read from it. *)
Existing(p) ==
    [id \in DOMAIN p.jsons \cup DOMAIN p.dirs |->
        IF id \in DOMAIN p.jsons THEN p.jsons[id] ELSE ReadRun(p.dirs[id])]

(* Its directory is not copied then. *)
Copied(p) == [id \in DOMAIN p.dirs \ DOMAIN p.jsons |-> p.dirs[id]]

(* main: every run is written again, the new one with its raw logs; the    *)
(* workflows ask for the format "parquet" and publish no JSON any more.    *)
BuildSite(p, run, raw, format) ==
    LET runs == Added(run.id, run, Existing(p))
        Dir(id) == IF id \in DOMAIN Copied(p) THEN Copied(p)[id] ELSE NoDir
    IN [jsons |-> IF format = "both" THEN Added(run.id, run, p.jsons) ELSE NoRuns,
        dirs |-> [id \in DOMAIN runs |-> WriteRun(runs[id], Dir(id), IF id = run.id THEN raw ELSE NoRaw)],
        catalog |-> Catalog(runs),
        search |-> SearchRows(runs)]

(* The branch has no run yet, or one, published as it was at some time:    *)
(* only as JSON; in both formats; with the index of its logs emptied; as   *)
(* today.                                                                  *)
ReportInit ==
    /\ comment = NoComment
    /\ \/ page = NoPage /\ recorded = NoRuns
       \/ \E raw \in Results :
            LET run == NormalizedRun(1, raw, FALSE)
                today == BuildSite(NoPage, run, RawLogs(raw), "parquet")
            IN /\ recorded = Added(1, raw, NoRuns)
               /\ page \in {[NoPage EXCEPT !.jsons = Added(1, run, NoRuns)],
                            BuildSite(NoPage, run, RawLogs(raw), "both"),
                            [today EXCEPT !.dirs[1].index = {}],
                            today}

-----------------------------------------------------------------------------
(* A nightly run is normalized - or not, and build_pages.py recovers it    *)
(* from its raw results - and published.                                   *)
Nightly ==
    LET id == Cardinality(DOMAIN recorded) + 1
    IN /\ id <= LastPublished
       /\ \E raw \in Results :
            /\ recorded' = Added(id, raw, recorded)
            /\ \E run \in {NormalizedRun(id, raw, FALSE), Recover(id, raw)} :
                page' = BuildSite(page, run, RawLogs(raw), "parquet")
       /\ comment' = NoComment

(* refresh-pages-ui.yml passes the newest JSON file, or else the newest    *)
(* directory, as the new run.                                              *)
Refresh ==
    /\ DOMAIN Existing(page) # {}
    /\ LET newest == NewestFirst(IF page.jsons # NoRuns THEN DOMAIN page.jsons ELSE DOMAIN page.dirs)[1]
       IN page' = BuildSite(page, Existing(page)[newest], NoRaw, "parquet")
    /\ comment' = NoComment
    /\ UNCHANGED recorded

(* latest_run_from_dir: the newest full run of main, or else the newest. *)
Baseline(runs) ==
    LET mains == {id \in DOMAIN runs : runs[id].main}
    IN NewestFirst(IF mains # {} THEN mains ELSE DOMAIN runs)[1]

(* The workflow of a pull request compares all cases of its run. *)
Compare ==
    /\ DOMAIN Existing(page) # {}
    /\ \E raw \in Candidates :
        LET baseline == Baseline(Existing(page))
            run == NormalizedRun(0, raw, TRUE)
        IN comment' = [baseline |-> baseline, raw |-> raw,
                       deltas |-> [s \in SuiteKeys |->
                            SuiteDeltas(run.suites[s], Existing(page)[baseline].suites[s])]]
    /\ UNCHANGED <<page, recorded>>

ReportNext == Nightly \/ Refresh \/ Compare

ReportSpec == ReportInit /\ [][ReportNext]_reportVars

-----------------------------------------------------------------------------
(* Properties.                                                             *)

IsBuilt == page.catalog # << >>

(* How the last line of test n ended in suite s of raw results. *)
Ending(raw, s, n) ==
    LET cases == CasesOf(s, raw.lines[s], TRUE)
        last == SelectLastInSeq(cases, LAMBDA c : c.name = n)
    IN IF last = 0 THEN "absent" ELSE cases[last].status

(* The report lists exactly the runs that were published, newest first,    *)
(* and has the directory of each.                                          *)
RunsAreListed ==
    /\ DOMAIN Existing(page) = DOMAIN recorded
    /\ IsBuilt => /\ DOMAIN page.dirs = DOMAIN recorded
                /\ [i \in DOMAIN page.catalog |-> page.catalog[i].id] = NewestFirst(DOMAIN recorded)

(* The rates and counts that the report shows for a run are those of its   *)
(* raw results, however often the run has been read back and rewritten,    *)
(* though most of the cases they count are not kept; and it shows them for *)
(* every run that was published.                                           *)
RatesAreTrue ==
    /\ RunsAreListed
    /\ \A id \in DOMAIN recorded : \A s \in SuiteKeys :
        LET lines == recorded[id].lines[s]
            Count(status) == Cardinality({i \in DOMAIN lines :
                \E c \in ToSet(CasesOf(s, <<lines[i]>>, TRUE)) : c.status = status})
            eligible == Count("pass") + Count("fail") + Count("error")
            rate == IF eligible = 0 THEN NoRate ELSE <<Count("pass"), eligible>>
            summary == Existing(page)[id].suites[s].summary
        IN /\ summary.passed = Count("pass") /\ summary.skipped = Count("skipped")
           /\ summary.rate = rate
           /\ \A row \in ToSet(page.catalog) : row.id = id => row.rates[s] = rate

(* A refresh changes no run, no rate, no case: what it reads from Parquet  *)
(* and writes again, in any number of rounds, stays the same, and so do    *)
(* the catalog and the search rows, when they were there.                  *)
RefreshKeepsReport ==
    [][recorded' = recorded =>
        /\ Existing(page)' = Existing(page)
        /\ IsBuilt => page'.catalog = page.catalog /\ page'.search = page.search]_page

(* No build loses a log of a published run, and after any build the index  *)
(* lists all logs of every run, also when it had been emptied ("Earlier    *)
(* Pages UI refreshes emptied the index of runs whose logs they kept").    *)
(* The exception are runs that were published as JSON as well: they are    *)
(* read from there, and their directories are not copied.                  *)
LogsStayFindable ==
    [][\A id \in DOMAIN page'.dirs \ DOMAIN page.jsons :
        /\ id \in DOMAIN page.dirs => page.dirs[id].logs \subseteq page'.dirs[id].logs
        /\ page'.dirs[id].index = page'.dirs[id].logs
        /\ id \notin DOMAIN recorded => page'.dirs[id].index = recorded'[id].logs]_page

(* Every failure that a nightly run recorded is found: exactly one search  *)
(* row has it and lists the run.  Every row lists only runs that recorded  *)
(* it, the newest of which recorded what the row shows; failures repeated  *)
(* in one run or in several are folded into one row, whose runs are listed *)
(* once each and newest first.                                             *)
FailuresAreFound ==
    IsBuilt =>
      /\ \A id \in DOMAIN recorded : \A s \in SuiteKeys :
          \A c \in ToSet(CasesOf(s, recorded[id].lines[s], TRUE)) :
            c.status # "pass" =>
              Cardinality({row \in page.search :
                  /\ id \in ToSet(row.ids) /\ row.suite = s
                  /\ row.case.name = c.name /\ row.case.status = c.status
                  /\ Comparable[row.case.message] = Comparable[c.message]}) = 1
      /\ \A row, other \in page.search :
          /\ row.suite = other.suite /\ row.case.name = other.case.name
          /\ row.case.status = other.case.status /\ row.case.features = other.case.features
          /\ Comparable[row.case.message] = Comparable[other.case.message]
          => row = other
      /\ \A row \in page.search :
          /\ \A i \in 1 .. Len(row.ids) - 1 : row.ids[i] > row.ids[i + 1]
          /\ \A i \in DOMAIN row.ids :
              \E c \in ToSet(CasesOf(row.suite, recorded[row.ids[i]].lines[row.suite], TRUE)) :
                /\ c.name = row.case.name /\ c.status = row.case.status
                /\ Comparable[c.message] = Comparable[row.case.message]
                /\ i = 1 => c.message = row.case.message

(* The comment on a pull request tells the truth about the two runs,       *)
(* though the baseline keeps only its non-passing s3-tests, and both may   *)
(* have several lines for a test: a failure is new when the test did not   *)
(* fail in the baseline, and a failure of the baseline is accounted for -  *)
(* gone, changed (also into not being run) or still there.                 *)
CommentIsTrue ==
    comment.baseline # 0 =>
      \A s \in SuiteKeys : \A n \in DOMAIN FeaturesOf :
        LET new == Ending(comment.raw, s, n)
            old == Ending(recorded[comment.baseline], s, n)
            deltas == comment.deltas[s]
        IN /\ n \in deltas.new_non_passing
                <=> new \in NonPassingStatuses /\ old \notin NonPassingStatuses
           /\ n \in deltas.still_non_passing <=> old \in NonPassingStatuses /\ new = old
           /\ n \in deltas.no_longer_non_passing <=> old \in NonPassingStatuses /\ new = "pass"
           /\ n \in deltas.changed_non_passing
                <=> old \in NonPassingStatuses /\ new \notin {"pass", old}
=============================================================================
