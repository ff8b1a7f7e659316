----------------------------- MODULE NightlyRun -----------------------------
(***************************************************************************)
(* One compatibility run: the step scripts of scripts/nightly, driven by   *)
(* scripts/run-nightly.sh ("script") or by .github/workflows/nightly.yml   *)
(* ("workflow").  The steps are separate processes that share the state    *)
(* file out/run/state/exports.env and the machine; a step can fail, be     *)
(* killed before it saved anything, and the driver can get a signal or be  *)
(* cancelled while it waits for a step.                                    *)
(***************************************************************************)
EXTENDS Integers, Sequences, SequencesExt

CONSTANTS
    Drivers,       \* what may drive the run: "script", "workflow"
    Interruptions  \* bound: one signal (script) or cancellation (workflow), or none

ASSUME DriversAreKnown == Drivers \subseteq {"script", "workflow"} /\ Drivers # {}
ASSUME InterruptionsIsFlag == Interruptions \in BOOLEAN

Suites == {"s3_tests", "mint"}
Repositories == <<"ozone", "s3_tests", "mint">>
Statuses == {"none", "build_failed", "cluster_failed", "partial", "completed"}

VARIABLES
    driver,      \* what drives this run
    pc,          \* the step the driver runs next
    work,        \* the machine: what the steps leave behind, and the saved state
    infra,       \* infra_status of the script
    failed,      \* a step of the workflow failed (success() is false)
    stopInvoked, \* stop_invoked of the script
    interrupted, \* the interruption has happened
    report,      \* the status in out/run/run.json, "none" when not written
    exitCode     \* how the driver ended

vars == <<driver, pc, work, infra, failed, stopInvoked, interrupted, report, exitCode>>

(* Mutant: init.sh saves success for what has not run yet. *)
SavedAtInitOptimistic ==
    [build |-> 0, cluster |-> 0, s3_tests |-> 0, mint |-> 0, dist |-> FALSE, running |-> FALSE]

(* The exit codes init.sh saves for steps that have not run. *)
SavedAtInit ==
    [build |-> 1, cluster |-> 1, s3_tests |-> 0, mint |-> 0, dist |-> FALSE, running |-> FALSE]

(* The driver has run init.sh, which emptied out/run. *)
Init ==
    /\ driver \in Drivers
    /\ pc = "clone"
    /\ work = [sources |-> {}, up |-> FALSE, saved |-> SavedAtInit,
               results |-> [s \in Suites |-> "none"]]
    /\ infra = 0 /\ failed = FALSE /\ stopInvoked = FALSE
    /\ interrupted = FALSE
    /\ report = "none" /\ exitCode = 0

-----------------------------------------------------------------------------
Following ==
    [clone |-> "build", build |-> "start", start |-> "s3_tests",
     s3_tests |-> "mint", mint |-> "stop", stop |-> "normalize", normalize |-> "done"]

Infrastructure == {"clone", "build", "start"}

(* Mutant: the steps of the workflow are not conditional. *)
ProceedsAlways == TRUE

(* Whether the driver runs the step it is at: `infra_status -eq 0` in the  *)
(* script; success() or always() in the workflow.                          *)
Proceeds ==
    \/ pc \in {"stop", "normalize"}
    \/ driver = "workflow" /\ ~failed
    \/ driver = "script" /\ (pc = "clone" \/ infra = 0)

(* `if ! step; then infra_status=$?`: the status is that of the negation. *)
StatusOfNegation == 0

(* Mutant: only a cluster that started well is stopped. *)
StoppedIfRunning(w) == IF w.saved.running THEN [w EXCEPT !.up = FALSE, !.saved.running = FALSE] ELSE w

(* nightly_stop_cluster_impl, which needs the compose directory. *)
Stopped(w) ==
    [w EXCEPT !.up = IF w.saved.dist THEN FALSE ELSE @, !.saved.running = FALSE]

(* The step ended and left w.  The script's trap runs when the step ends,  *)
(* stops the cluster once, and the script then goes on with the next step; *)
(* set -e ends the script when a suite's step fails.  The workflow only    *)
(* remembers that a step failed.                                           *)
Finish(w, ok, cut) ==
    /\ interrupted' = (interrupted \/ cut)
    /\ IF driver = "script"
       THEN /\ work' = IF cut /\ ~stopInvoked THEN Stopped(w) ELSE w
            /\ stopInvoked' = (stopInvoked \/ cut)
            /\ infra' = IF pc \in Infrastructure /\ ~ok THEN StatusOfNegation ELSE infra
            /\ UNCHANGED failed
            /\ IF pc \in Suites /\ ~ok
               THEN pc' = "done" /\ exitCode' = 1
               ELSE pc' = Following[pc] /\ UNCHANGED exitCode
       ELSE /\ work' = w
            /\ failed' = (failed \/ ~ok)
            /\ pc' = Following[pc]
            /\ exitCode' = IF ok THEN exitCode ELSE 1
            /\ UNCHANGED <<infra, stopInvoked>>
    /\ UNCHANGED <<driver, report>>

Ended(w, ok) == Finish(w, ok, FALSE)

(* An interruption during the step: it is killed and leaves w; or, when    *)
(* only the script got the signal, the step ends as it would have.         *)
Killed(w) == Interruptions /\ ~interrupted /\ Finish(w, FALSE, TRUE)
Signalled(w, ok) == Interruptions /\ ~interrupted /\ driver = "script" /\ Finish(w, ok, TRUE)

At(step) == pc = step /\ Proceeds

-----------------------------------------------------------------------------
(* clone_sources.sh stops at the first repository it cannot stage. *)
Clone ==
    /\ At("clone")
    /\ \E n \in 0 .. Len(Repositories) :
        LET w == [work EXCEPT !.sources = ToSet(SubSeq(Repositories, 1, n))]
        IN  \/ Ended(w, n = Len(Repositories))
            \/ Signalled(w, n = Len(Repositories))
            \/ Killed(w)

BuiltOzone(ok) ==
    [work EXCEPT !.saved.build = IF ok THEN 0 ELSE 1, !.saved.dist = ok]

(* build_ozone.sh needs the checkout. *)
Build ==
    /\ At("build")
    /\ \/ \E ok \in BOOLEAN :
            /\ ok => "ozone" \in work.sources
            /\ Ended(BuiltOzone(ok), ok) \/ Signalled(BuiltOzone(ok), ok)
       \/ Killed(work)

StartedCluster(ok) ==
    [work EXCEPT !.up = TRUE, !.saved.cluster = IF ok THEN 0 ELSE 1, !.saved.running = ok]

(* start_cluster.sh saves nothing without a distribution.  A start that    *)
(* fails or is killed leaves the containers it has started.                *)
Start ==
    /\ At("start")
    /\ IF ~work.saved.dist
       THEN Ended(work, FALSE) \/ Signalled(work, FALSE)
       ELSE \/ \E ok \in BOOLEAN : Ended(StartedCluster(ok), ok) \/ Signalled(StartedCluster(ok), ok)
            \/ Killed([work EXCEPT !.up = TRUE])

(* What a suite run leaves behind: its exit code, and cases unless it      *)
(* could not be set up or collapsed.                                       *)
RanSuite(s, exit, cases) ==
    [work EXCEPT !.saved[s] = exit,
                 !.results[s] = IF ~cases THEN "none" ELSE IF work.up THEN "cluster" ELSE "no_cluster"]

(* run_s3_tests.sh and run_mint.sh save the suite's exit code last, and    *)
(* end well whatever it is.                                                *)
RunSuite(s) ==
    /\ At(s)
    /\ \/ \E exit \in {0, 1}, cases \in BOOLEAN :
            /\ cases => s \in work.sources
            /\ exit = 0 => cases /\ work.up
            /\ Ended(RanSuite(s, exit, cases), TRUE) \/ Signalled(RanSuite(s, exit, cases), TRUE)
       \/ Killed(work)

(* cleanup_cluster in the script, the step that always runs in the         *)
(* workflow.  Its failures are ignored.                                    *)
Stop ==
    /\ At("stop")
    /\ Ended(IF driver = "script" /\ stopInvoked THEN work ELSE Stopped(work), TRUE)

(* normalize_s3_suite, normalize_mint_suite *)
SuiteStatus(s) ==
    IF work.results[s] # "none" THEN "completed"
    ELSE IF work.saved[s] # 0 THEN "error" ELSE "not_run"

OverallStatus ==
    IF work.saved.build # 0 THEN "build_failed"
    ELSE IF work.saved.cluster # 0 THEN "cluster_failed"
    ELSE IF \E s \in Suites : SuiteStatus(s) = "error" THEN "partial" ELSE "completed"

(* normalize_run.sh writes the report, or fails; the script ends with      *)
(* infra_status if that is set, else with the status of a negation again.  *)
Normalize ==
    /\ At("normalize")
    /\ \E ok \in BOOLEAN :
        /\ report' = IF ok THEN OverallStatus ELSE "none"
        /\ exitCode' = IF driver = "script" THEN (IF infra # 0 THEN infra ELSE StatusOfNegation)
                       ELSE IF ok THEN exitCode ELSE 1
    /\ pc' = "done"
    /\ UNCHANGED <<driver, work, infra, failed, stopInvoked, interrupted>>

(* The driver passes over a step. *)
Skip ==
    /\ pc # "done" /\ ~Proceeds
    /\ pc' = Following[pc]
    /\ UNCHANGED <<driver, work, infra, failed, stopInvoked, interrupted, report, exitCode>>

Next == Clone \/ Build \/ Start \/ (\E s \in Suites : RunSuite(s)) \/ Stop \/ Normalize \/ Skip

Spec == Init /\ [][Next]_vars

-----------------------------------------------------------------------------
(* Properties.                                                             *)

(* A signal reached the script: its trap has used up the only stop. *)
ScriptWasSignalled == driver = "script" /\ interrupted

(* No run leaves its cluster up, whether it started, failed half way or    *)
(* was killed while starting, in the workflow also when it is cancelled;   *)
(* and none is saved as running that is not up.                            *)
ClusterIsStopped ==
    /\ pc = "done" /\ ~ScriptWasSignalled => ~work.up
    /\ work.saved.running => work.up

(* In the workflow, cases are recorded only for suites that ran against a  *)
(* cluster this run built and started.  (The script runs the suites after  *)
(* a failed start: infra stays 0.)                                         *)
ResultsAreOfACluster ==
    driver = "workflow" => \A s \in Suites : work.results[s] # "no_cluster"

(* The report says "completed" only of a run whose suites all produced     *)
(* cases, whatever failed, unless the workflow was cancelled in a suite;   *)
(* compare_runs.py warns that "Suite output may be partial because the     *)
(* build, cluster, or test phase did not complete" for the others.         *)
UncutReportsAreComplete ==
    report = "completed" /\ ~(driver = "workflow" /\ interrupted) =>
        \A s \in Suites : work.results[s] # "none"

(* Inductive, and what the three rest on. *)
Machines ==
    [sources : SUBSET ToSet(Repositories), up : BOOLEAN,
     saved : [build : {0, 1}, cluster : {0, 1}, s3_tests : {0, 1}, mint : {0, 1},
              dist : BOOLEAN, running : BOOLEAN],
     results : [Suites -> {"none", "cluster", "no_cluster"}]]

TypeInv ==
    /\ driver \in Drivers /\ pc \in DOMAIN Following \cup {"done"} /\ work \in Machines
    /\ failed \in BOOLEAN /\ stopInvoked \in BOOLEAN /\ interrupted \in BOOLEAN
    /\ infra = 0 /\ (stopInvoked <=> ScriptWasSignalled) /\ (driver = "script" => ~failed)
    /\ report \in Statuses /\ (report # "none" => pc = "done")

(* What is up can be stopped; until it is started nothing is up, and after *)
(* the stop nothing is.                                                    *)
UpCanBeStopped ==
    /\ work.up => work.saved.dist
    /\ work.saved.running => work.up
    /\ pc \in Infrastructure => ~work.up /\ work.saved.cluster = 1
    /\ pc \in {"normalize", "done"} /\ ~ScriptWasSignalled => ~work.up

WorkflowFailsFirst ==
    driver = "workflow" =>
        /\ pc \in Suites /\ ~failed => work.up
        /\ \A s \in Suites : work.results[s] # "no_cluster"

Cut == driver = "workflow" /\ interrupted

(* Once the cluster is saved as started both suites run, unless cut: what  *)
(* has run well has cases.                                                 *)
RanWell(s) == work.saved[s] = 0 => work.results[s] # "none"

StartedRunsSuites ==
    work.saved.cluster = 0 /\ ~Cut =>
        /\ pc \in Suites => ~failed
        /\ pc \in {"mint", "stop", "normalize"} => RanWell("s3_tests")
        /\ pc \in {"stop", "normalize"} => RanWell("mint")

RunInv == TypeInv /\ UpCanBeStopped /\ WorkflowFailsFirst /\ StartedRunsSuites /\ UncutReportsAreComplete
=============================================================================
