---------------------------- MODULE ReportProofs ----------------------------
(***************************************************************************)
(* The report: no run leaves its cluster up, records cases of no cluster,  *)
(* or calls an incomplete report completed, for either driver, whatever    *)
(* step fails or is interrupted; no publication removes a published run;   *)
(* and what the page shows of the runs, and a comment of two of them, is   *)
(* what their raw results say, however often the page has been rebuilt     *)
(* from itself.                                                            *)
(***************************************************************************)
EXTENDS NightlyRun, PagesPublish, ReportData, SequenceFacts

Flag == {0, 1}
SuiteResults == [Suites -> {"none", "cluster", "no_cluster"}]

LEMMA DriversOfARun == ASSUME RunInv PROVE driver \in {"script", "workflow"}
BY DriversAreKnown DEF RunInv, TypeInv

(* A machine, part by part. *)
LEMMA MachineParts ==
    ASSUME NEW w \in Machines
    PROVE  /\ w.up \in BOOLEAN /\ w.saved.dist \in BOOLEAN /\ w.saved.running \in BOOLEAN
           /\ w.saved.build \in Flag /\ w.saved.cluster \in Flag
           /\ w.saved["s3_tests"] \in Flag /\ w.saved["mint"] \in Flag
           /\ w.results \in SuiteResults /\ w.sources \subseteq ToSet(Repositories)
BY DEF Machines, Flag, SuiteResults

(* A stop takes the cluster of a distribution down, and nothing else.      *)
LEMMA StoppedMachine ==
    ASSUME NEW w \in Machines
    PROVE  /\ Stopped(w) \in Machines /\ Stopped(w).up = (w.up /\ ~w.saved.dist)
           /\ Stopped(w).saved.running = FALSE /\ Stopped(w).results = w.results
           /\ Stopped(w).saved.dist = w.saved.dist /\ Stopped(w).saved.build = w.saved.build
           /\ Stopped(w).saved.cluster = w.saved.cluster
           /\ Stopped(w).saved["s3_tests"] = w.saved["s3_tests"] /\ Stopped(w).saved["mint"] = w.saved["mint"]
BY DEF Stopped, Machines

-----------------------------------------------------------------------------
(* What the machine is after a step that left w: w, but for what the trap  *)
(* of the script may have stopped.                                         *)
Leaves(w) ==
    /\ work' \in Machines /\ work'.results = w.results
    /\ work'.saved.dist = w.saved.dist /\ work'.saved.build = w.saved.build
    /\ work'.saved.cluster = w.saved.cluster
    /\ work'.saved["s3_tests"] = w.saved["s3_tests"] /\ work'.saved["mint"] = w.saved["mint"]
    /\ work'.up => w.up
    /\ work'.saved.running => w.saved.running /\ work'.up = w.up
    /\ driver = "workflow" => work'.up = w.up

LEMMA FinishLeaves ==
    ASSUME RunInv, pc \in DOMAIN Following \ {"normalize"}, NEW w \in Machines,
           NEW ok \in BOOLEAN, NEW cut \in BOOLEAN, Finish(w, ok, cut)
    PROVE  /\ Leaves(w)
           /\ driver' = driver /\ report' = "none" /\ infra' = 0
           /\ interrupted' = (interrupted \/ cut) /\ (stopInvoked' <=> ScriptWasSignalled')
           /\ failed' \in BOOLEAN /\ stopInvoked' \in BOOLEAN /\ interrupted' \in BOOLEAN
           /\ IF driver = "script" THEN ~failed' ELSE failed' = (failed \/ ~ok)
           /\ pc' = IF driver = "script" /\ pc \in Suites /\ ~ok THEN "done" ELSE Following[pc]
<1>1. /\ driver \in {"script", "workflow"} /\ report = "none" /\ infra = 0
      /\ failed \in BOOLEAN /\ stopInvoked \in BOOLEAN /\ interrupted \in BOOLEAN
      /\ (stopInvoked <=> ScriptWasSignalled) /\ (driver = "script" => ~failed)
    BY DriversOfARun DEF RunInv, TypeInv, Following
<1>2. CASE driver = "script"
    <2>1. /\ interrupted' = (interrupted \/ cut) /\ stopInvoked' = (stopInvoked \/ cut)
          /\ work' = (IF cut /\ ~stopInvoked THEN Stopped(w) ELSE w)
          /\ infra' = 0 /\ UNCHANGED <<failed, driver, report>>
          /\ pc' = IF pc \in Suites /\ ~ok THEN "done" ELSE Following[pc]
        BY <1>1, <1>2 DEF Finish, StatusOfNegation
    <2>2. Leaves(w)
        BY <1>2, <2>1, StoppedMachine, MachineParts DEF Leaves
    <2> QED BY <1>1, <1>2, <2>1, <2>2 DEF ScriptWasSignalled
<1>3. CASE driver = "workflow"
    <2>1. /\ interrupted' = (interrupted \/ cut) /\ work' = w /\ failed' = (failed \/ ~ok)
          /\ pc' = Following[pc] /\ UNCHANGED <<infra, stopInvoked, driver, report>>
        BY <1>3 DEF Finish
    <2>2. Leaves(w)
        BY <2>1 DEF Leaves
    <2> QED BY <1>1, <1>3, <2>1, <2>2 DEF ScriptWasSignalled
<1> QED BY <1>1, <1>2, <1>3

(* The three ways a step ends. *)
LEMMA StepsFinish ==
    ASSUME NEW w, NEW ok \in BOOLEAN
    PROVE  /\ Ended(w, ok) => Finish(w, ok, FALSE)
           /\ Signalled(w, ok) => Finish(w, ok, TRUE) /\ driver = "script"
           /\ Killed(w) => Finish(w, FALSE, TRUE)
BY DEF Ended, Signalled, Killed

(* A step that neither saves nor starts anything, before the cluster is    *)
(* started.                                                                *)
LEMMA PreparationKeepsInv ==
    ASSUME RunInv, pc \in {"clone", "build"}, NEW w \in Machines,
           NEW ok \in BOOLEAN, NEW cut \in BOOLEAN, Finish(w, ok, cut),
           ~w.up, ~w.saved.running, w.saved.cluster = 1, w.results = work.results
    PROVE  RunInv'
<1>1. pc' \in {"build", "start"} /\ pc \in DOMAIN Following \ {"normalize"} /\ pc \notin Suites
    BY FinishLeaves DEF Following, Suites
<1>2. TypeInv'
    BY <1>1, FinishLeaves DEF RunInv, TypeInv, Leaves, Following, Statuses
<1>3. UpCanBeStopped'
    BY <1>1, FinishLeaves DEF Leaves, UpCanBeStopped, Infrastructure
<1>4. WorkflowFailsFirst'
    BY <1>1, FinishLeaves DEF RunInv, WorkflowFailsFirst, Leaves, Suites
<1>5. StartedRunsSuites' /\ UncutReportsAreComplete'
    BY <1>1, FinishLeaves DEF StartedRunsSuites, UncutReportsAreComplete, Leaves
<1> QED BY <1>2, <1>3, <1>4, <1>5 DEF RunInv

LEMMA CloneKeepsInv == RunInv /\ Clone => RunInv'
<1> SUFFICES ASSUME RunInv, Clone PROVE RunInv'
    OBVIOUS
<1>1. pc = "clone"
    BY DEF Clone, At
<1>2. PICK n \in 0 .. Len(Repositories) :
        LET w == [work EXCEPT !.sources = ToSet(SubSeq(Repositories, 1, n))]
        IN  \/ Ended(w, n = Len(Repositories))
            \/ Signalled(w, n = Len(Repositories))
            \/ Killed(w)
    BY DEF Clone
<1> DEFINE w == [work EXCEPT !.sources = ToSet(SubSeq(Repositories, 1, n))]
<1>3. ToSet(SubSeq(Repositories, 1, n)) \subseteq ToSet(Repositories)
    BY DEF ToSet, Repositories
<1>4. /\ w \in Machines /\ w.up = work.up /\ w.saved = work.saved /\ w.results = work.results
    BY <1>3 DEF RunInv, TypeInv, Machines
<1>5. ~work.up /\ ~work.saved.running /\ work.saved.cluster = 1
    BY <1>1 DEF RunInv, UpCanBeStopped, Infrastructure
<1>6. \E ok \in BOOLEAN, cut \in BOOLEAN : Finish(w, ok, cut)
    BY <1>2, StepsFinish
<1> HIDE DEF w
<1> QED BY <1>1, <1>4, <1>5, <1>6, PreparationKeepsInv

LEMMA BuildKeepsInv == RunInv /\ Build => RunInv'
<1> SUFFICES ASSUME RunInv, Build PROVE RunInv'
    OBVIOUS
<1>1. pc = "build" /\ work \in Machines
    BY DEF Build, At, RunInv, TypeInv
<1>2. ~work.up /\ ~work.saved.running /\ work.saved.cluster = 1
    BY <1>1 DEF RunInv, UpCanBeStopped, Infrastructure
<1>3. ASSUME NEW ok \in BOOLEAN
      PROVE  /\ BuiltOzone(ok) \in Machines /\ BuiltOzone(ok).up = work.up
             /\ BuiltOzone(ok).saved.running = work.saved.running
             /\ BuiltOzone(ok).saved.cluster = work.saved.cluster /\ BuiltOzone(ok).results = work.results
    BY <1>1 DEF BuiltOzone, Machines
<1>4. \/ \E ok \in BOOLEAN, cut \in BOOLEAN : Finish(BuiltOzone(ok), ok, cut)
      \/ Finish(work, FALSE, TRUE)
    BY StepsFinish DEF Build
<1>5. CASE \E ok \in BOOLEAN, cut \in BOOLEAN : Finish(BuiltOzone(ok), ok, cut)
    BY <1>1, <1>2, <1>3, <1>5, PreparationKeepsInv
<1>6. CASE Finish(work, FALSE, TRUE)
    BY <1>1, <1>2, <1>6, PreparationKeepsInv
<1> QED BY <1>4, <1>5, <1>6

(* The cluster is started on a distribution, or not at all; a workflow     *)
(* whose start failed has failed.                                          *)
LEMMA StartKeepsInv == RunInv /\ Start => RunInv'
<1> SUFFICES ASSUME RunInv, Start PROVE RunInv'
    OBVIOUS
<1>1. /\ pc = "start" /\ work \in Machines /\ (driver = "workflow" => ~failed)
      /\ pc \in DOMAIN Following \ {"normalize"} /\ Following[pc] = "s3_tests" /\ pc \notin Suites
    BY DEF Start, At, Proceeds, RunInv, TypeInv, Following, Suites
<1>2. ~work.up /\ ~work.saved.running /\ work.saved.cluster = 1
    BY <1>1 DEF RunInv, UpCanBeStopped, Infrastructure
<1> DEFINE Started(w, ok) ==
        /\ w \in Machines /\ w.results = work.results
        /\ (w.up => w.saved.dist) /\ (w.saved.running => w.up)
        /\ (ok => w.up) /\ (w.saved.cluster = 0 => ok)
<1>3. ASSUME NEW w \in Machines, NEW ok \in BOOLEAN, NEW cut \in BOOLEAN, Finish(w, ok, cut), Started(w, ok)
      PROVE  RunInv'
    <2>1. /\ Leaves(w) /\ pc' = "s3_tests" /\ driver' = driver /\ report' = "none" /\ infra' = 0
          /\ interrupted' = (interrupted \/ cut)
          /\ IF driver = "script" THEN ~failed' ELSE failed' = (failed \/ ~ok)
        BY <1>1, <1>3, FinishLeaves
    <2>2. TypeInv'
        BY <1>1, <1>3, <2>1, FinishLeaves DEF RunInv, TypeInv, Leaves, Following, Statuses
    <2>3. UpCanBeStopped'
        BY <1>3, <2>1 DEF Leaves, UpCanBeStopped, Infrastructure
    <2>4. WorkflowFailsFirst'
        BY <1>3, <2>1 DEF RunInv, WorkflowFailsFirst, Leaves
    <2>5. StartedRunsSuites' /\ UncutReportsAreComplete'
        BY <1>1, <1>3, <2>1, DriversOfARun DEF StartedRunsSuites, UncutReportsAreComplete, Leaves
    <2> QED BY <2>2, <2>3, <2>4, <2>5 DEF RunInv
<1>4. CASE ~work.saved.dist
    <2>1. \E cut \in BOOLEAN : Finish(work, FALSE, cut)
        BY <1>4, StepsFinish DEF Start
    <2>2. Started(work, FALSE)
        BY <1>1, <1>2
    <2> HIDE DEF Started
    <2> QED BY <1>1, <1>3, <2>1, <2>2
<1>5. CASE work.saved.dist
    <2>1. ASSUME NEW ok \in BOOLEAN
          PROVE  StartedCluster(ok) \in Machines /\ Started(StartedCluster(ok), ok)
        <3>1. StartedCluster(ok) \in Machines
            BY <1>1 DEF StartedCluster, Machines
        <3>2. /\ StartedCluster(ok).results = work.results /\ StartedCluster(ok).up = TRUE
              /\ StartedCluster(ok).saved = [work.saved EXCEPT !.cluster = IF ok THEN 0 ELSE 1, !.running = ok]
            BY <1>1 DEF StartedCluster, Machines
        <3>3. StartedCluster(ok).saved.dist /\ (StartedCluster(ok).saved.cluster = 0 => ok)
            BY <1>1, <1>5, <3>2 DEF Machines
        <3> QED BY <3>1, <3>2, <3>3
    <2>2. [work EXCEPT !.up = TRUE] \in Machines /\ Started([work EXCEPT !.up = TRUE], FALSE)
        <3>1. [work EXCEPT !.up = TRUE] \in Machines
            BY <1>1 DEF Machines
        <3>2. /\ [work EXCEPT !.up = TRUE].results = work.results /\ [work EXCEPT !.up = TRUE].up = TRUE
              /\ [work EXCEPT !.up = TRUE].saved = work.saved
            BY <1>1 DEF Machines
        <3> QED BY <1>2, <1>5, <3>1, <3>2
    <2>3. \/ \E ok \in BOOLEAN, cut \in BOOLEAN : Finish(StartedCluster(ok), ok, cut)
          \/ Finish([work EXCEPT !.up = TRUE], FALSE, TRUE)
        BY <1>5, StepsFinish DEF Start
    <2>4. CASE \E ok \in BOOLEAN, cut \in BOOLEAN : Finish(StartedCluster(ok), ok, cut)
        <3>1. PICK ok \in BOOLEAN : \E cut \in BOOLEAN : Finish(StartedCluster(ok), ok, cut)
            BY <2>4
        <3>2. PICK cut \in BOOLEAN : Finish(StartedCluster(ok), ok, cut)
            BY <3>1
        <3>3. StartedCluster(ok) \in Machines
            BY <2>1
        <3> HIDE DEF Started
        <3> QED BY <1>3, <2>1, <3>2, <3>3
    <2>5. CASE Finish([work EXCEPT !.up = TRUE], FALSE, TRUE)
        <3>1. [work EXCEPT !.up = TRUE] \in Machines
            BY <2>2
        <3> HIDE DEF Started
        <3> QED BY <1>3, <2>2, <2>5, <3>1
    <2> QED BY <2>3, <2>4, <2>5
<1> QED BY <1>4, <1>5

-----------------------------------------------------------------------------
(* A suite that ran well has cases, and in a workflow it ran against a     *)
(* cluster that is up; the script ends where its step is killed.           *)
LEMMA SuiteKeepsInv == ASSUME RunInv, NEW s \in Suites, RunSuite(s) PROVE RunInv'
<1>1. /\ pc = s /\ s \in {"s3_tests", "mint"} /\ work \in Machines /\ (driver = "workflow" => ~failed)
      /\ pc \in DOMAIN Following \ {"normalize"} /\ pc \in Suites
      /\ Following[pc] = (IF s = "mint" THEN "stop" ELSE "mint")
    BY DEF RunSuite, At, Proceeds, RunInv, TypeInv, Following, Suites
<1>2. /\ work.up => work.saved.dist
      /\ work.saved.running => work.up
      /\ driver = "workflow" => work.up
    BY <1>1 DEF RunInv, UpCanBeStopped, WorkflowFailsFirst
<1> DEFINE Ran(w, ok) ==
        /\ w.up = work.up /\ w.saved.dist = work.saved.dist /\ w.saved.running = work.saved.running
        /\ w.saved.cluster = work.saved.cluster
        /\ driver = "workflow" => w.results[s] # "no_cluster"
        /\ \A r \in Suites \ {s} : w.saved[r] = work.saved[r] /\ w.results[r] = work.results[r]
        /\ ok => (w.saved[s] = 0 => w.results[s] # "none")
<1>3. ASSUME NEW w \in Machines, NEW ok \in BOOLEAN, NEW cut \in BOOLEAN, Finish(w, ok, cut), cut \/ ok, Ran(w, ok)
      PROVE  RunInv'
    <2>1. /\ Leaves(w) /\ driver' = driver /\ report' = "none" /\ infra' = 0
          /\ interrupted' = (interrupted \/ cut)
          /\ IF driver = "script" THEN ~failed' ELSE failed' = (failed \/ ~ok)
          /\ pc' = IF driver = "script" /\ ~ok THEN "done" ELSE IF s = "mint" THEN "stop" ELSE "mint"
        BY <1>1, <1>3, FinishLeaves
    <2>2. TypeInv'
        BY <1>1, <1>3, <2>1, FinishLeaves DEF RunInv, TypeInv, Leaves, Following, Statuses
    <2>3. UpCanBeStopped'
        BY <1>2, <1>3, <2>1 DEF Leaves, UpCanBeStopped, Infrastructure, ScriptWasSignalled
    <2>4. WorkflowFailsFirst'
        <3>1. driver = "workflow" => work'.up
            BY <1>2, <1>3, <2>1 DEF Leaves
        <3>2. driver = "workflow" => \A r \in Suites : work'.results[r] # "no_cluster"
            BY <1>3, <2>1 DEF RunInv, WorkflowFailsFirst, Leaves
        <3> QED BY <2>1, <3>1, <3>2 DEF WorkflowFailsFirst
    <2>5. StartedRunsSuites'
        <3> SUFFICES ASSUME work'.saved.cluster = 0, ~Cut'
                     PROVE  /\ pc' \in Suites => ~failed'
                            /\ pc' \in {"mint", "stop", "normalize"} => RanWell("s3_tests")'
                            /\ pc' \in {"stop", "normalize"} => RanWell("mint")'
            BY DEF StartedRunsSuites
        <3>1. work.saved.cluster = 0 /\ ~Cut /\ (driver = "workflow" => ok)
            BY <1>3, <2>1 DEF Leaves, Cut
        <3>2. ~failed'
            BY <1>1, <2>1, <3>1, DriversOfARun
        <3>3. pc' # "done" => ok
            BY <1>1, <2>1, <3>1, DriversOfARun
        <3>4. CASE s = "s3_tests"
            BY <1>3, <2>1, <3>2, <3>3, <3>4 DEF Leaves, RanWell
        <3>5. CASE s = "mint"
            <4>1. RanWell("s3_tests")
                BY <1>1, <3>1, <3>5 DEF RunInv, StartedRunsSuites
            <4>2. work'.saved["s3_tests"] = work.saved["s3_tests"] /\ work'.results["s3_tests"] = work.results["s3_tests"]
                BY <1>3, <2>1, <3>5 DEF Leaves, Suites
            <4> QED BY <1>3, <2>1, <3>2, <3>3, <3>5, <4>1, <4>2 DEF Leaves, RanWell
        <3> QED BY <1>1, <3>4, <3>5
    <2>6. UncutReportsAreComplete'
        BY <2>1 DEF UncutReportsAreComplete
    <2> QED BY <2>2, <2>3, <2>4, <2>5, <2>6 DEF RunInv
<1>4. CASE Killed(work)
    <2>1. Finish(work, FALSE, TRUE)
        BY <1>4, StepsFinish
    <2>2. Ran(work, FALSE)
        BY <1>1 DEF RunInv, WorkflowFailsFirst
    <2> HIDE DEF Ran
    <2> QED BY <1>1, <1>3, <2>1, <2>2
<1>5. CASE \E exit \in {0, 1}, cases \in BOOLEAN :
              /\ cases => s \in work.sources
              /\ exit = 0 => cases /\ work.up
              /\ Ended(RanSuite(s, exit, cases), TRUE) \/ Signalled(RanSuite(s, exit, cases), TRUE)
    <2>1. PICK exit \in {0, 1} : \E cases \in BOOLEAN :
              /\ exit = 0 => cases /\ work.up
              /\ Ended(RanSuite(s, exit, cases), TRUE) \/ Signalled(RanSuite(s, exit, cases), TRUE)
        BY <1>5
    <2>2. PICK cases \in BOOLEAN :
              /\ exit = 0 => cases /\ work.up
              /\ Ended(RanSuite(s, exit, cases), TRUE) \/ Signalled(RanSuite(s, exit, cases), TRUE)
        BY <2>1
    <2> DEFINE w == RanSuite(s, exit, cases)
    <2> DEFINE result == IF ~cases THEN "none" ELSE IF work.up THEN "cluster" ELSE "no_cluster"
    <2>4. PICK cut \in BOOLEAN : Finish(w, TRUE, cut)
        BY <2>2, StepsFinish
    <2>5. /\ w.up = work.up /\ w.saved = [work.saved EXCEPT ![s] = exit]
          /\ w.results = [work.results EXCEPT ![s] = result]
        BY <1>1 DEF RanSuite, Machines
    <2>6. w \in Machines
        BY <1>1 DEF RanSuite, Machines, Suites
    <2>7. /\ w.saved.dist = work.saved.dist /\ w.saved.running = work.saved.running
          /\ w.saved.cluster = work.saved.cluster
          /\ w.saved[s] = exit
          /\ \A r \in Suites \ {s} : w.saved[r] = work.saved[r]
        BY <1>1, <2>5 DEF Machines, Suites
    <2>8. w.results[s] = result /\ \A r \in Suites \ {s} : w.results[r] = work.results[r]
        BY <1>1, <2>5 DEF Machines, Suites
    <2>9. /\ driver = "workflow" => w.results[s] # "no_cluster"
          /\ w.saved[s] = 0 => w.results[s] # "none"
        BY <1>2, <2>2, <2>7, <2>8
    <2> HIDE DEF w
    <2>10. Ran(w, TRUE)
        BY <2>5, <2>7, <2>8, <2>9
    <2> HIDE DEF Ran
    <2> QED BY <1>3, <2>4, <2>6, <2>10
<1> QED BY <1>4, <1>5 DEF RunSuite

LEMMA StopKeepsInv == RunInv /\ Stop => RunInv'
<1> SUFFICES ASSUME RunInv, Stop PROVE RunInv'
    OBVIOUS
<1> DEFINE w == IF driver = "script" /\ stopInvoked THEN work ELSE Stopped(work)
<1>1. /\ pc = "stop" /\ work \in Machines
      /\ pc \in DOMAIN Following \ {"normalize"} /\ pc \notin Suites /\ Following[pc] = "normalize"
      /\ (stopInvoked <=> ScriptWasSignalled)
    BY DEF Stop, At, RunInv, TypeInv, Following, Suites
<1>2. Finish(w, TRUE, FALSE)
    BY DEF Stop, Ended
<1>3. /\ w \in Machines /\ w.results = work.results /\ w.saved.cluster = work.saved.cluster
      /\ w.saved["s3_tests"] = work.saved["s3_tests"] /\ w.saved["mint"] = work.saved["mint"]
      /\ w.saved.dist = work.saved.dist /\ (w.up => work.up) /\ (w.saved.running => w.up)
      /\ ~ScriptWasSignalled => ~w.up
    BY <1>1, StoppedMachine, MachineParts DEF RunInv, UpCanBeStopped, ScriptWasSignalled
<1> HIDE DEF w
<1>4. /\ Leaves(w) /\ pc' = "normalize" /\ driver' = driver /\ report' = "none" /\ infra' = 0
      /\ interrupted' = interrupted
    <2>1. TRUE \in BOOLEAN /\ FALSE \in BOOLEAN /\ interrupted \in BOOLEAN
        BY DEF RunInv, TypeInv
    <2>2. /\ Leaves(w) /\ driver' = driver /\ report' = "none" /\ infra' = 0
          /\ interrupted' = (interrupted \/ FALSE)
          /\ pc' = IF driver = "script" /\ pc \in Suites /\ ~TRUE THEN "done" ELSE Following[pc]
        BY <1>1, <1>2, <1>3, <2>1, FinishLeaves
    <2> QED BY <1>1, <2>1, <2>2
<1>5. TypeInv'
    BY <1>1, <1>2, <1>3, <1>4, FinishLeaves DEF RunInv, TypeInv, Leaves, Following, Statuses
<1>6. UpCanBeStopped'
    BY <1>3, <1>4 DEF RunInv, Leaves, UpCanBeStopped, Infrastructure, ScriptWasSignalled
<1>7. WorkflowFailsFirst'
    BY <1>3, <1>4 DEF RunInv, Leaves, WorkflowFailsFirst, Suites
<1>8. StartedRunsSuites' /\ UncutReportsAreComplete'
    BY <1>1, <1>3, <1>4 DEF RunInv, Leaves, StartedRunsSuites, RanWell, Cut, Suites, UncutReportsAreComplete
<1> QED BY <1>5, <1>6, <1>7, <1>8 DEF RunInv

(* What is reported completed has no suite in error, and a suite that is   *)
(* in no error has cases once the cluster was started.                     *)
LEMMA NormalizeKeepsInv == RunInv /\ Normalize => RunInv'
<1> SUFFICES ASSUME RunInv, Normalize PROVE RunInv'
    OBVIOUS
<1>1. /\ pc = "normalize" /\ pc' = "done" /\ report' \in {OverallStatus, "none"}
      /\ UNCHANGED <<driver, work, infra, failed, stopInvoked, interrupted>>
    BY DEF Normalize, At
<1>2. TypeInv'
    BY <1>1 DEF RunInv, TypeInv, OverallStatus, Statuses, ScriptWasSignalled
<1>3. UpCanBeStopped' /\ WorkflowFailsFirst' /\ StartedRunsSuites'
    BY <1>1 DEF RunInv, UpCanBeStopped, WorkflowFailsFirst, StartedRunsSuites, ScriptWasSignalled,
                Infrastructure, Suites
<1>4. UncutReportsAreComplete'
    <2> SUFFICES ASSUME report' = "completed", ~Cut, NEW s \in Suites
                 PROVE  work.results[s] # "none"
        BY <1>1 DEF UncutReportsAreComplete, Cut
    <2>1. work.saved.cluster = 0 /\ SuiteStatus(s) # "error"
        BY <1>1 DEF OverallStatus, RunInv, TypeInv
    <2>2. RanWell(s)
        BY <1>1, <2>1 DEF RunInv, StartedRunsSuites, Suites
    <2> QED BY <2>1, <2>2 DEF SuiteStatus, RanWell
<1> QED BY <1>2, <1>3, <1>4 DEF RunInv

(* A step that is passed over would only have been taken in a workflow     *)
(* that had not failed: infra_status never is set in the script.           *)
LEMMA SkipKeepsInv == RunInv /\ Skip => RunInv'
<1> SUFFICES ASSUME RunInv, Skip PROVE RunInv'
    OBVIOUS
<1>1. /\ pc \in Infrastructure \cup Suites /\ driver = "workflow" /\ failed /\ report = "none"
      /\ pc' = Following[pc] /\ UNCHANGED <<driver, work, infra, failed, stopInvoked, interrupted, report>>
    <2>1. /\ driver \in {"script", "workflow"} /\ infra = 0 /\ report = "none"
          /\ pc \in {"clone", "build", "start", "s3_tests", "mint", "stop", "normalize"}
        BY DriversOfARun DEF Skip, RunInv, TypeInv, Following
    <2>2. pc \notin {"stop", "normalize"} /\ (driver = "workflow" => failed)
        BY DEF Skip, Proceeds
    <2>3. driver # "script"
        <3> SUFFICES ASSUME driver = "script" PROVE Proceeds
            BY DEF Skip
        <3> QED BY <2>1, <2>2 DEF Proceeds
    <2> QED BY <2>1, <2>2, <2>3 DEF Skip, Infrastructure, Suites
<1>2. pc' \in {"build", "start", "s3_tests", "mint", "stop"} /\ (pc' \in {"build", "start"} => pc \in Infrastructure)
    BY <1>1 DEF Following, Infrastructure, Suites
<1>3. TypeInv'
    BY <1>1, <1>2 DEF RunInv, TypeInv, ScriptWasSignalled, Following
<1>4. UpCanBeStopped' /\ WorkflowFailsFirst'
    BY <1>1, <1>2 DEF RunInv, UpCanBeStopped, WorkflowFailsFirst, Infrastructure
<1>5. work.saved.cluster = 0 => Cut
    BY <1>1 DEF RunInv, StartedRunsSuites, UpCanBeStopped, TypeInv, Machines, Infrastructure
<1>6. StartedRunsSuites' /\ UncutReportsAreComplete'
    BY <1>1, <1>5 DEF StartedRunsSuites, UncutReportsAreComplete, Cut
<1> QED BY <1>3, <1>4, <1>6 DEF RunInv

-----------------------------------------------------------------------------
LEMMA RunInvInit == Init => RunInv
<1> SUFFICES ASSUME Init PROVE RunInv
    OBVIOUS
<1>1. /\ driver \in Drivers /\ pc = "clone" /\ infra = 0 /\ ~failed /\ ~stopInvoked /\ ~interrupted
      /\ failed \in BOOLEAN /\ stopInvoked \in BOOLEAN /\ interrupted \in BOOLEAN /\ report = "none"
    BY DEF Init
<1>2. /\ work = [sources |-> {}, up |-> FALSE, saved |-> SavedAtInit, results |-> [s \in Suites |-> "none"]]
      /\ work.saved.cluster = 1 /\ ~work.up /\ ~work.saved.running
      /\ \A s \in Suites : work.results[s] = "none"
    BY DEF Init, SavedAtInit
<1>3. work \in Machines
    BY <1>2 DEF Machines, SavedAtInit
<1>4. TypeInv
    BY <1>1, <1>3 DEF TypeInv, Following, Statuses, ScriptWasSignalled
<1>5. UpCanBeStopped /\ WorkflowFailsFirst /\ StartedRunsSuites /\ UncutReportsAreComplete
    BY <1>1, <1>2 DEF UpCanBeStopped, WorkflowFailsFirst, StartedRunsSuites, UncutReportsAreComplete, Suites
<1> QED BY <1>4, <1>5 DEF RunInv

LEMMA RunInvNext == RunInv /\ [Next]_vars => RunInv'
<1> SUFFICES ASSUME RunInv, [Next]_vars PROVE RunInv'
    OBVIOUS
<1>1. CASE UNCHANGED vars
    BY <1>1 DEF vars, RunInv, TypeInv, UpCanBeStopped, WorkflowFailsFirst, StartedRunsSuites,
                UncutReportsAreComplete, ScriptWasSignalled, RanWell, Cut
<1> QED BY <1>1, CloneKeepsInv, BuildKeepsInv, StartKeepsInv, SuiteKeepsInv, StopKeepsInv,
           NormalizeKeepsInv, SkipKeepsInv DEF Next

LEMMA RunInvariant == Spec => []RunInv
BY RunInvInit, RunInvNext, PTL DEF Spec

-----------------------------------------------------------------------------
(* A run that has ended left no cluster up, unless its script was sent a   *)
(* signal; nothing is saved as running that is not up.                     *)
THEOREM RunsLeaveNoCluster == Spec => []ClusterIsStopped
<1>1. RunInv => ClusterIsStopped
    BY DEF RunInv, UpCanBeStopped, ClusterIsStopped
<1> QED BY <1>1, RunInvariant, PTL

(* A workflow records cases only of suites that ran against its cluster.   *)
THEOREM WorkflowResultsAreOfItsCluster == Spec => []ResultsAreOfACluster
<1>1. RunInv => ResultsAreOfACluster
    BY DEF RunInv, WorkflowFailsFirst, ResultsAreOfACluster
<1> QED BY <1>1, RunInvariant, PTL

(* A report that says completed has the cases of both suites, unless the   *)
(* workflow was cancelled.                                                 *)
THEOREM CompletedReportsHaveCases == Spec => []UncutReportsAreComplete
<1>1. RunInv => UncutReportsAreComplete
    BY DEF RunInv
<1> QED BY <1>1, RunInvariant, PTL
-----------------------------------------------------------------------------
(* The branch the nightly workflow publishes to together with the refresh  *)
(* of the interface (PagesPublish).  Neither its constants nor its bounds  *)
(* are constrained.                                                        *)

LEMMA PagesInvInit == PagesInit => PagesInv
BY DEF PagesInit, PagesInv, PagesTypeInv, HeadsAreOfTheBranch,
       NightlyKnowsTheRuns, TreesAreBuilt, Jobs, Fresh, NoTree,
       Clones, Trees

LEMMA PushMainKeepsPages == ASSUME PagesInv, PushMain PROVE PagesInv'
BY DEF PushMain, PagesInv, PagesTypeInv, HeadsAreOfTheBranch,
       NightlyKnowsTheRuns, TreesAreBuilt, Built, Jobs

LEMMA StartNightlyKeepsPages == ASSUME PagesInv, StartNightly PROVE PagesInv'
<1>1. PagesTypeInv'
  <2>1. main \in Nat /\ ran + 1 \in Nat
      BY DEF PagesInv, PagesTypeInv, StartNightly
  <2>2. commit' \in [Jobs -> Nat]
      BY <2>1 DEF PagesInv, PagesTypeInv, StartNightly
  <2>3. jobs' \in [Jobs -> {"idle", "clone", "build", "push"}]
      BY DEF PagesInv, PagesTypeInv, StartNightly
  <2> QED BY <2>1, <2>2, <2>3 DEF PagesInv, PagesTypeInv, StartNightly
<1>2. HeadsAreOfTheBranch'
    BY DEF PagesInv, HeadsAreOfTheBranch, StartNightly
<1>3. NightlyKnowsTheRuns'
    BY DEF PagesInv, PagesTypeInv, NightlyKnowsTheRuns, StartNightly, Jobs
<1>4. TreesAreBuilt'
    BY DEF PagesInv, PagesTypeInv, TreesAreBuilt, StartNightly, Jobs,
           Built
<1> QED BY <1>1, <1>2, <1>3, <1>4 DEF PagesInv

LEMMA StartRefreshKeepsPages == ASSUME PagesInv, StartRefresh PROVE PagesInv'
<1>1. PagesTypeInv'
  <2>1. commit' \in [Jobs -> Nat]
      BY DEF PagesInv, PagesTypeInv, StartRefresh
  <2>2. jobs' \in [Jobs -> {"idle", "clone", "build", "push"}]
      BY DEF PagesInv, PagesTypeInv, StartRefresh
  <2>3. queued' \in Nat
      BY DEF StartRefresh
  <2> QED BY <2>1, <2>2, <2>3 DEF PagesInv, PagesTypeInv, StartRefresh
<1>2. HeadsAreOfTheBranch'
    BY DEF PagesInv, HeadsAreOfTheBranch, StartRefresh
<1>3. NightlyKnowsTheRuns'
    BY DEF PagesInv, PagesTypeInv, NightlyKnowsTheRuns, StartRefresh, Jobs
<1>4. TreesAreBuilt'
    BY DEF PagesInv, PagesTypeInv, TreesAreBuilt, StartRefresh, Jobs,
           Built
<1> QED BY <1>1, <1>2, <1>3, <1>4 DEF PagesInv

(* A clone is the branch as it is, or nothing. *)
LEMMA PrepareKeepsPages ==
    ASSUME PagesInv, NEW j \in Jobs, Prepare(j) PROVE PagesInv'
<1>1. Fresh \in Clones /\ branch \in Clones /\ Fresh.head = 0
    BY DEF PagesInv, PagesTypeInv, Fresh, NoTree, Clones, Trees
<1>2. PICK c \in {branch, Fresh} : clone' = [clone EXCEPT ![j] = c]
    BY DEF Prepare
<1>3. PagesTypeInv'
  <2>1. clone' \in [Jobs -> Clones]
      BY <1>1, <1>2 DEF PagesInv, PagesTypeInv
  <2>2. jobs' \in [Jobs -> {"idle", "clone", "build", "push"}]
      BY DEF PagesInv, PagesTypeInv, Prepare
  <2> QED BY <2>1, <2>2 DEF PagesInv, PagesTypeInv, Prepare
<1>4. HeadsAreOfTheBranch'
    BY <1>1, <1>2 DEF PagesInv, PagesTypeInv, HeadsAreOfTheBranch, Prepare,
                      Clones
<1>5. NightlyKnowsTheRuns'
    BY <1>2 DEF PagesInv, PagesTypeInv, NightlyKnowsTheRuns, Prepare, Jobs
<1>6. TreesAreBuilt'
    BY <1>2 DEF PagesInv, PagesTypeInv, TreesAreBuilt, Prepare, Built,
                Jobs
<1> QED BY <1>3, <1>4, <1>5, <1>6 DEF PagesInv

LEMMA BuildingKeepsPages ==
    ASSUME PagesInv, NEW j \in Jobs, BuildPages(j) PROVE PagesInv'
<1>1. Built(j) \in Trees
  <2>1. clone[j].tree.runs \in SUBSET Nat /\ commit[j] \in Nat /\ ran \in Nat
      BY DEF PagesInv, PagesTypeInv, Clones, Trees
  <2> QED BY <2>1 DEF Built, Trees
<1>2. PagesTypeInv'
  <2>1. tree' \in [Jobs -> Trees]
      BY <1>1 DEF PagesInv, PagesTypeInv, BuildPages
  <2>2. jobs' \in [Jobs -> {"idle", "clone", "build", "push"}]
      BY DEF PagesInv, PagesTypeInv, BuildPages
  <2> QED BY <2>1, <2>2 DEF PagesInv, PagesTypeInv, BuildPages
<1>3. HeadsAreOfTheBranch'
    BY DEF PagesInv, HeadsAreOfTheBranch, BuildPages
<1>4. NightlyKnowsTheRuns'
    BY DEF PagesInv, PagesTypeInv, NightlyKnowsTheRuns, BuildPages, Jobs
<1>5. TreesAreBuilt'
  <2>1. \A i \in Jobs : Built(i)' = Built(i)
      BY DEF BuildPages, Built
  <2> QED BY <2>1 DEF PagesInv, PagesTypeInv, TreesAreBuilt, BuildPages
<1> QED BY <1>2, <1>3, <1>4, <1>5 DEF PagesInv

(* What a push leaves, the branch or a longer one with the built tree. *)
LEMMA PushKeepsPages ==
    ASSUME PagesInv, NEW j \in Jobs, Push(j) PROVE PagesInv'
<1>1. branch' \in Clones /\ branch'.head >= 1
    BY DEF PagesInv, PagesTypeInv, Push, Clones
<1>2. PagesTypeInv'
    <2>1. jobs' \in [Jobs -> {"idle", "clone", "build", "push"}]
        BY DEF PagesInv, PagesTypeInv, Push
    <2> QED BY <1>1, <2>1 DEF PagesInv, PagesTypeInv, Push
<1>3. HeadsAreOfTheBranch'
    BY DEF PagesInv, PagesTypeInv, HeadsAreOfTheBranch, Push, Clones
<1>4. NightlyKnowsTheRuns'
  <2> SUFFICES ASSUME jobs'["nightly"] \in {"build", "push"}, clone["nightly"] # Fresh
               PROVE  branch'.tree.runs \subseteq clone["nightly"].tree.runs
      BY DEF NightlyKnowsTheRuns, Push
  <2>1. j = "refresh" /\ jobs["nightly"] \in {"build", "push"}
      BY DEF PagesInv, PagesTypeInv, Push, Jobs
  <2>2. branch.tree.runs \subseteq clone["nightly"].tree.runs
      BY <2>1 DEF PagesInv, NightlyKnowsTheRuns
  <2>3. CASE branch' = branch
      BY <2>2, <2>3
  <2>4. CASE branch' # branch
    <3>1. clone[j] = branch
        BY <2>1, <2>4 DEF PagesInv, HeadsAreOfTheBranch, Push, Accepted
    <3>2. branch'.tree = tree[j] /\ tree[j] = Built(j)
        BY <2>4 DEF PagesInv, TreesAreBuilt, Push
    <3>3. Built(j).runs = branch.tree.runs
        BY <2>1, <3>1 DEF Built
    <3> QED BY <2>2, <3>2, <3>3
  <2> QED BY <2>3, <2>4
<1>5. TreesAreBuilt'
    BY DEF PagesInv, PagesTypeInv, TreesAreBuilt, Push, Built
<1> QED BY <1>2, <1>3, <1>4, <1>5 DEF PagesInv

LEMMA PagesInvariant == PagesSpec => []PagesInv
<1>1. PagesInv /\ [PagesNext]_pagesVars => PagesInv'
  <2> SUFFICES ASSUME PagesInv, [PagesNext]_pagesVars PROVE PagesInv'
      OBVIOUS
  <2>1. CASE UNCHANGED pagesVars
      BY <2>1 DEF pagesVars, PagesInv, PagesTypeInv,
                  HeadsAreOfTheBranch, NightlyKnowsTheRuns, TreesAreBuilt,
                  Built
  <2>2. ASSUME NEW j \in Jobs, Step(j) PROVE PagesInv'
      BY <2>2, PrepareKeepsPages, BuildingKeepsPages, PushKeepsPages DEF Step
  <2> QED BY <2>1, <2>2, PushMainKeepsPages, StartNightlyKeepsPages, StartRefreshKeepsPages
      DEF PagesNext
<1> QED BY <1>1, PagesInvInit, PTL DEF PagesSpec, pagesVars

(* A push of either workflow leaves every published run in the branch,     *)
(* unless the nightly found no branch: for any pushes to main, runs and    *)
(* failing lookups, in any interleaving of the workflows.                  *)
THEOREM PublishedRunsStay == PagesSpec => HistoryIsKept
<1>1. PagesInv /\ [PagesNext]_pagesVars =>
        [branch.tree.runs \subseteq branch'.tree.runs \/ (StartsAfresh /\ jobs'["nightly"] = "idle")]_pagesVars
  <2> SUFFICES ASSUME PagesInv, PagesNext, branch' # branch
               PROVE  branch.tree.runs \subseteq branch'.tree.runs \/ (StartsAfresh /\ jobs'["nightly"] = "idle")
      BY DEF pagesVars
  <2>1. PICK j \in Jobs : Push(j)
      BY DEF PagesNext, Step, PushMain, StartNightly, StartRefresh,
             Prepare, BuildPages
  <2>2. tree[j] = Built(j) /\ branch'.tree = tree[j] /\ Accepted(j)
      BY <2>1 DEF Push, PagesInv, TreesAreBuilt
  <2>3. clone[j].tree.runs \subseteq branch'.tree.runs
      BY <2>2 DEF Built
  <2>4. CASE j = "refresh"
      BY <2>2, <2>3, <2>4 DEF Accepted, PagesInv, HeadsAreOfTheBranch
  <2>5. CASE j = "nightly" /\ clone[j] = Fresh
      BY <2>1, <2>5 DEF Push, StartsAfresh, PagesInv, PagesTypeInv
  <2>6. CASE j = "nightly" /\ clone[j] # Fresh
      BY <2>1, <2>3, <2>6 DEF Push, PagesInv, NightlyKnowsTheRuns
  <2> QED BY <2>4, <2>5, <2>6 DEF Jobs
<1> QED BY <1>1, PagesInvariant, PTL DEF PagesSpec, HistoryIsKept, pagesVars

-----------------------------------------------------------------------------
(* The data of the report.                                                 *)

(* A run, field by field. *)
IsSuite(suite) ==
    /\ suite = [status |-> suite.status, exit |-> suite.exit, summary |-> suite.summary,
                features |-> suite.features, strategy |-> suite.strategy, cases |-> suite.cases]
    /\ suite.features = [f \in DOMAIN suite.features |-> suite.features[f]]
IsRun(run) ==
    /\ run = [id |-> run.id, main |-> run.main, suites |-> run.suites, status |-> run.status]
    /\ run.suites = [s \in SuiteKeys |-> run.suites[s]]
    /\ \A s \in SuiteKeys : IsSuite(run.suites[s])

(* The cases that a suite keeps, and what it tells of them all. *)
KeepsOf(suite, s, cases) ==
    /\ suite.summary = Summary(cases)
    /\ suite.strategy = IF s = "mint" THEN "all" ELSE "non_passing_only"
    /\ suite.cases = IF s = "mint" THEN cases ELSE NonPassing(cases)
IsOf(run, id, raw) ==
    /\ run.id = id
    /\ \E markers \in BOOLEAN : \A s \in SuiteKeys :
        KeepsOf(run.suites[s], s, CasesOf(s, raw.lines[s], markers))

LEMMA SuiteIsSuite ==
    ASSUME NEW s, NEW lines, NEW exit, NEW all, NEW markers
    PROVE  LET suite == Suite(s, lines, exit, all, markers)
           IN /\ IsSuite(suite) /\ IsSuite([suite EXCEPT !.exit = 1])
              /\ all = FALSE => /\ KeepsOf(suite, s, CasesOf(s, lines, markers))
                                /\ KeepsOf([suite EXCEPT !.exit = 1], s, CasesOf(s, lines, markers))
<1> DEFINE cases == CasesOf(s, lines, markers)
           suite == Suite(s, lines, exit, all, markers)
           features == FeatureSummaries(cases)
<1>1. features = [f \in DOMAIN features |-> features[f]]
    BY DEF FeatureSummaries
<1> HIDE DEF cases, features
<1>2. suite = [status |-> IF cases # << >> THEN "completed" ELSE IF exit # 0 THEN "error" ELSE "not_run",
        exit |-> exit, summary |-> Summary(cases), features |-> features,
        strategy |-> IF s = "mint" \/ all THEN "all" ELSE "non_passing_only",
        cases |-> IF s = "mint" \/ all THEN cases ELSE NonPassing(cases)]
    BY DEF Suite, cases, features
<1> HIDE DEF suite
<1>3. [suite EXCEPT !.exit = 1] = [status |-> suite.status, exit |-> 1, summary |-> suite.summary,
           features |-> suite.features, strategy |-> suite.strategy, cases |-> suite.cases]
    BY <1>2
<1>4. IsSuite(suite) /\ (all = FALSE => KeepsOf(suite, s, cases))
    BY <1>1, <1>2 DEF IsSuite, KeepsOf
<1> DEFINE other == [suite EXCEPT !.exit = 1]
<1> HIDE DEF other
<1>5. IsSuite(other) /\ (all = FALSE => KeepsOf(other, s, cases))
    <2>1. other = [status |-> suite.status, exit |-> 1, summary |-> suite.summary,
           features |-> suite.features, strategy |-> suite.strategy, cases |-> suite.cases]
        BY <1>3 DEF other
    <2> QED BY <1>4, <2>1 DEF IsSuite, KeepsOf
<1> QED BY <1>4, <1>5 DEF suite, cases, other

LEMMA NormalizedIsRun ==
    ASSUME NEW id, NEW raw
    PROVE  LET run == NormalizedRun(id, raw, FALSE) IN IsRun(run) /\ IsOf(run, id, raw)
<1> DEFINE run == NormalizedRun(id, raw, FALSE)
           suites == [s \in SuiteKeys |-> Suite(s, raw.lines[s], raw.exit[s], FALSE, TRUE)]
           status == overall_status(raw.build, raw.cluster, suites)
<1>1. run = [id |-> id, main |-> raw.main, suites |-> suites, status |-> status]
    BY DEF NormalizedRun
<1>2. \A s \in SuiteKeys : IsSuite(suites[s]) /\ KeepsOf(suites[s], s, CasesOf(s, raw.lines[s], TRUE))
    BY SuiteIsSuite
<1>3. suites = [s \in SuiteKeys |-> suites[s]]
    OBVIOUS
<1> HIDE DEF run, suites, status
<1>4. run.id = id /\ run.suites = suites /\ run.main = raw.main /\ run.status = status
    BY <1>1
<1> QED BY <1>1, <1>2, <1>3, <1>4 DEF IsRun, IsOf, run

LEMMA RecoveredIsRun ==
    ASSUME NEW id, NEW raw
    PROVE  LET run == Recover(id, raw) IN IsRun(run) /\ IsOf(run, id, raw)
<1> DEFINE run == Recover(id, raw)
           Of(s) == Suite(s, raw.lines[s], IF raw.lines[s] = << >> THEN 1 ELSE 0, FALSE, FALSE)
           suites == [s \in SuiteKeys |->
               IF s = "mint" /\ Of(s).summary.failed + Of(s).summary.errored > 0
               THEN [Of(s) EXCEPT !.exit = 1] ELSE Of(s)]
           status == overall_status(raw.build, IF raw.build = 0 /\ raw.cluster = 0 THEN 0 ELSE 1, suites)
<1>1. run = [id |-> id, main |-> FALSE, suites |-> suites, status |-> status]
    BY DEF Recover
<1>2. ASSUME NEW s \in SuiteKeys
      PROVE  IsSuite(suites[s]) /\ KeepsOf(suites[s], s, CasesOf(s, raw.lines[s], FALSE))
    <2>1. suites[s] \in {Of(s), [Of(s) EXCEPT !.exit = 1]}
        OBVIOUS
    <2>2. /\ IsSuite(Of(s)) /\ KeepsOf(Of(s), s, CasesOf(s, raw.lines[s], FALSE))
          /\ IsSuite([Of(s) EXCEPT !.exit = 1])
          /\ KeepsOf([Of(s) EXCEPT !.exit = 1], s, CasesOf(s, raw.lines[s], FALSE))
        BY SuiteIsSuite
    <2> HIDE DEF Of, suites
    <2> QED BY <2>1, <2>2
<1>3. suites = [s \in SuiteKeys |-> suites[s]]
    OBVIOUS
<1> HIDE DEF run, suites, status
<1>4. run.id = id /\ run.suites = suites /\ run.main = FALSE /\ run.status = status
    BY <1>1
<1> QED BY <1>1, <1>2, <1>3, <1>4 DEF IsRun, IsOf, run

(* What is written of a run is read back as the run: no suite, summary,    *)
(* feature or case is lost or changed by write_run_dataset and             *)
(* read_run_dataset, whatever directory and logs it is written over.       *)
THEOREM RoundTrip ==
    ASSUME NEW run, IsRun(run), NEW dir, NEW raw
    PROVE  ReadRun(WriteRun(run, dir, raw)) = run
<1> DEFINE w == WriteRun(run, dir, raw)
           r == ReadRun(w)
           Row(s) == [key |-> s, status |-> run.suites[s].status, exit |-> run.suites[s].exit,
                      summary |-> run.suites[s].summary, strategy |-> run.suites[s].strategy]
           FRow(s, f) == [key |-> s, name |-> f, summary |-> run.suites[s].features[f]]
           Names(s) == DOMAIN run.suites[s].features
           Features(s) == [f \in {x.name : x \in FeatureRows(w, s)} |->
                              (CHOOSE x \in FeatureRows(w, s) : x.name = f).summary]
           SuiteOf(row) == [status |-> row.status, exit |-> row.exit, summary |-> row.summary,
                            features |-> Features(row.key), strategy |-> row.strategy,
                            cases |-> w.cases[row.key]]
           suites == [s \in {x.key : x \in w.suites} |-> SuiteOf(CHOOSE x \in w.suites : x.key = s)]
<1>1. DOMAIN run.suites = SuiteKeys
    BY DEF IsRun
<1>2. /\ w.metadata = [id |-> run.id, main |-> run.main, status |-> run.status]
      /\ w.suites = {Row(s) : s \in SuiteKeys}
      /\ w.features = UNION {{FRow(s, f) : f \in Names(s)} : s \in SuiteKeys}
      /\ w.cases = [s \in SuiteKeys |-> run.suites[s].cases]
    BY <1>1 DEF WriteRun, MetadataRow, SuiteRows, FeatureRowsOf, CaseRows
<1>3. r = [id |-> w.metadata.id, main |-> w.metadata.main, status |-> w.metadata.status, suites |-> suites]
    BY DEF ReadRun
<1> HIDE DEF r, w
<1>4. ASSUME NEW s \in SuiteKeys
      PROVE  Features(s) = run.suites[s].features
    <2>1. FeatureRows(w, s) = {FRow(s, f) : f \in Names(s)}
        BY <1>2 DEF FeatureRows
    <2>0. \A f \in Names(s) : FRow(s, f).name = f /\ FRow(s, f).summary = run.suites[s].features[f]
        OBVIOUS
    <2> HIDE DEF FRow, Names
    <2>2. {x.name : x \in FeatureRows(w, s)} = Names(s)
        <3>1. \A x \in FeatureRows(w, s) : x.name \in Names(s)
            BY <2>0, <2>1
        <3>2. \A f \in Names(s) : \E x \in FeatureRows(w, s) : x.name = f
            BY <2>0, <2>1
        <3> QED BY <3>1, <3>2
    <2>3. ASSUME NEW f \in Names(s)
          PROVE  (CHOOSE x \in FeatureRows(w, s) : x.name = f).summary = run.suites[s].features[f]
        <3>1. FRow(s, f) \in FeatureRows(w, s) /\ FRow(s, f).name = f
            BY <2>0, <2>1
        <3>2. \A x \in FeatureRows(w, s) : x.name = f => x = FRow(s, f)
            BY <2>0, <2>1
        <3>3. (CHOOSE x \in FeatureRows(w, s) : x.name = f) = FRow(s, f)
            BY <3>1, <3>2
        <3> QED BY <2>0, <3>3
    <2>4. run.suites[s].features = [f \in Names(s) |-> run.suites[s].features[f]]
        BY DEF IsRun, IsSuite, Names
    <2> QED BY <2>2, <2>3, <2>4
<1>5. {x.key : x \in w.suites} = SuiteKeys
    <2>1. \A s \in SuiteKeys : Row(s).key = s
        OBVIOUS
    <2> HIDE DEF Row
    <2>2. \A x \in w.suites : x.key \in SuiteKeys
        BY <1>2, <2>1
    <2>3. \A s \in SuiteKeys : \E x \in w.suites : x.key = s
        BY <1>2, <2>1
    <2> QED BY <2>2, <2>3
<1>6. ASSUME NEW s \in SuiteKeys
      PROVE  SuiteOf(CHOOSE x \in w.suites : x.key = s) = run.suites[s]
    <2>1. Row(s) \in w.suites /\ Row(s).key = s
        BY <1>2
    <2>2. \A x \in w.suites : x.key = s => x = Row(s)
        BY <1>2
    <2>3. (CHOOSE x \in w.suites : x.key = s) = Row(s)
        BY <2>1, <2>2
    <2>4. IsSuite(run.suites[s])
        BY DEF IsRun
    <2> DEFINE suite == run.suites[s]
               row == Row(s)
    <2>5. /\ row.status = suite.status /\ row.exit = suite.exit /\ row.summary = suite.summary
          /\ row.strategy = suite.strategy /\ row.key = s
        OBVIOUS
    <2>6. w.cases[row.key] = suite.cases /\ Features(row.key) = suite.features
        BY <1>2, <1>4
    <2> HIDE DEF suite, row, Features
    <2>7. SuiteOf(row) = [status |-> suite.status, exit |-> suite.exit, summary |-> suite.summary,
              features |-> suite.features, strategy |-> suite.strategy, cases |-> suite.cases]
        BY <2>5, <2>6
    <2>8. SuiteOf(row) = suite
        BY <2>4, <2>7 DEF IsSuite, suite
    <2> QED BY <2>3, <2>8 DEF row, suite
<1>7. suites = run.suites
    <2>1. run.suites = [s \in SuiteKeys |-> run.suites[s]]
        BY DEF IsRun
    <2> HIDE DEF SuiteOf
    <2> QED BY <1>5, <1>6, <2>1
<1> HIDE DEF suites
<1>8. r = [id |-> run.id, main |-> run.main, suites |-> run.suites, status |-> run.status]
    BY <1>2, <1>3, <1>7
<1>9. r = run
    BY <1>8 DEF IsRun
<1> QED BY <1>9 DEF r, w

-----------------------------------------------------------------------------
(* The directory that a build finds for a run, and what it writes there. *)
FoundDir(p, id) == IF id \in DOMAIN p.dirs \ DOMAIN p.jsons THEN p.dirs[id] ELSE NoDir

(* The runs of a page that was built are those that it was built from. *)
LEMMA RunsAreKept ==
    ASSUME NEW p, NEW run, NEW raw, NEW format, IsRun(run),
           \A id \in DOMAIN Existing(p) : IsRun(Existing(p)[id])
    PROVE  LET site == BuildSite(p, run, raw, format)
               runs == Added(run.id, run, Existing(p))
           IN /\ Existing(site) = runs /\ site.catalog = Catalog(runs) /\ site.search = SearchRows(runs)
              /\ DOMAIN site.dirs = DOMAIN runs
              /\ \A id \in DOMAIN runs :
                    LET logs == IF id = run.id THEN raw ELSE NoRaw
                    IN /\ site.dirs[id].logs = FoundDir(p, id).logs \cup logs.logs
                       /\ site.dirs[id].index = Index(FoundDir(p, id), logs)
<1> DEFINE site == BuildSite(p, run, raw, format)
           runs == Added(run.id, run, Existing(p))
           Logs(id) == IF id = run.id THEN raw ELSE NoRaw
           jsons == IF format = "both" THEN Added(run.id, run, p.jsons) ELSE NoRuns
           dirs == [id \in DOMAIN runs |-> WriteRun(runs[id], FoundDir(p, id), Logs(id))]
<1>1. site = [jsons |-> jsons, dirs |-> dirs, catalog |-> Catalog(runs), search |-> SearchRows(runs)]
    <2>1. \A id : (IF id \in DOMAIN Copied(p) THEN Copied(p)[id] ELSE NoDir) = FoundDir(p, id)
        BY DEF Copied, FoundDir
    <2> DEFINE Dir(id) == IF id \in DOMAIN Copied(p) THEN Copied(p)[id] ELSE NoDir
    <2>2. site = [jsons |-> jsons,
                  dirs |-> [id \in DOMAIN runs |-> WriteRun(runs[id], Dir(id), Logs(id))],
                  catalog |-> Catalog(runs), search |-> SearchRows(runs)]
        BY DEF BuildSite
    <2>3. \A id : Dir(id) = FoundDir(p, id)
        BY <2>1
    <2> HIDE DEF Dir, site, runs, Logs, jsons
    <2>4. [id \in DOMAIN runs |-> WriteRun(runs[id], Dir(id), Logs(id))] = dirs
        BY <2>3
    <2> HIDE DEF dirs
    <2> QED BY <2>2, <2>4
<1>2. /\ DOMAIN runs = {run.id} \cup DOMAIN Existing(p)
      /\ \A id \in DOMAIN runs : runs[id] = IF id = run.id THEN run ELSE Existing(p)[id]
    BY DEF Added
<1>3. \A id \in DOMAIN runs : IsRun(runs[id])
    BY <1>2
<1> HIDE DEF site, runs
<1>4. site.jsons = jsons /\ site.dirs = dirs /\ site.catalog = Catalog(runs) /\ site.search = SearchRows(runs)
    BY <1>1
<1>5. DOMAIN dirs = DOMAIN runs /\ \A id \in DOMAIN runs : ReadRun(dirs[id]) = runs[id]
    BY <1>3, RoundTrip
<1>6. \A id \in DOMAIN runs : /\ dirs[id].logs = FoundDir(p, id).logs \cup Logs(id).logs
                              /\ dirs[id].index = Index(FoundDir(p, id), Logs(id))
    BY DEF WriteRun
<1>7. DOMAIN jsons \subseteq DOMAIN runs /\ \A id \in DOMAIN jsons : jsons[id] = runs[id]
    <2>1. CASE format = "both"
        <3>1. /\ DOMAIN jsons = {run.id} \cup DOMAIN p.jsons
              /\ \A id \in DOMAIN jsons : jsons[id] = IF id = run.id THEN run ELSE p.jsons[id]
            BY <2>1 DEF Added
        <3>2. \A id \in DOMAIN p.jsons : id \in DOMAIN Existing(p) /\ Existing(p)[id] = p.jsons[id]
            BY DEF Existing
        <3> HIDE DEF jsons
        <3> QED BY <1>2, <3>1, <3>2
    <2>2. CASE format # "both"
        BY <2>2 DEF NoRuns
    <2> QED BY <2>1, <2>2
<1>8. Existing(site) = runs
    <2>1. Existing(site) = [id \in DOMAIN jsons \cup DOMAIN dirs |->
                                IF id \in DOMAIN jsons THEN jsons[id] ELSE ReadRun(dirs[id])]
        BY <1>4 DEF Existing
    <2>2. runs = [id \in DOMAIN runs |-> runs[id]]
        BY DEF runs, Added
    <2> HIDE DEF jsons, dirs
    <2>3. DOMAIN jsons \cup DOMAIN dirs = DOMAIN runs
        BY <1>5, <1>7
    <2>4. \A id \in DOMAIN runs : (IF id \in DOMAIN jsons THEN jsons[id] ELSE ReadRun(dirs[id])) = runs[id]
        BY <1>5, <1>7
    <2> QED BY <2>1, <2>2, <2>3, <2>4
<1> HIDE DEF jsons, dirs, Logs
<1>9. DOMAIN site.dirs = DOMAIN runs
    BY <1>4, <1>5
<1>10. \A id \in DOMAIN runs : /\ site.dirs[id].logs = FoundDir(p, id).logs \cup Logs(id).logs
                               /\ site.dirs[id].index = Index(FoundDir(p, id), Logs(id))
    BY <1>4, <1>6
<1> QED BY <1>4, <1>8, <1>9, <1>10 DEF site, runs, Logs

-----------------------------------------------------------------------------
(* The published runs are those recorded, each made from its raw results;  *)
(* the catalog and the search rows are those of the runs; an index of logs *)
(* was emptied or has all of them; a comment compares the runs it names.   *)
RunsInv ==
    /\ Cardinality(DOMAIN recorded) \in Nat /\ DOMAIN recorded = 1..Cardinality(DOMAIN recorded)
    /\ DOMAIN Existing(page) = DOMAIN recorded
    /\ \A id \in DOMAIN recorded :
        /\ recorded[id] \in Results
        /\ IsRun(Existing(page)[id]) /\ IsOf(Existing(page)[id], id, recorded[id])
SiteInv ==
    IsBuilt => /\ page.catalog = Catalog(Existing(page)) /\ page.search = SearchRows(Existing(page))
               /\ DOMAIN page.dirs = DOMAIN recorded
LogInv == \A id \in DOMAIN page.dirs : page.dirs[id].index \in {{}, page.dirs[id].logs}
CommentInv ==
    \/ comment = NoComment
    \/ /\ comment.baseline \in DOMAIN recorded /\ comment.raw \in Candidates
       /\ comment.deltas = [s \in SuiteKeys |->
            SuiteDeltas(NormalizedRun(0, comment.raw, TRUE).suites[s],
                        Existing(page)[comment.baseline].suites[s])]
JsonsInv == page.jsons = [id \in DOMAIN page.jsons |-> page.jsons[id]]
ReportInv == RunsInv /\ SiteInv /\ LogInv /\ CommentInv /\ JsonsInv

LEMMA RebuiltJsons ==
    ASSUME NEW p, NEW run, NEW raw, NEW format
    PROVE  LET jsons == BuildSite(p, run, raw, format).jsons IN jsons = [id \in DOMAIN jsons |-> jsons[id]]
BY DEF BuildSite, Added, NoRuns

(* A build lists all logs that it leaves, and leaves all that it found. *)
LEMMA BuildsListLogs ==
    ASSUME NEW p, NEW run, NEW raw, IsRun(run), \A id \in DOMAIN Existing(p) : IsRun(Existing(p)[id]),
           \A id \in DOMAIN p.dirs : p.dirs[id].index \in {{}, p.dirs[id].logs},
           raw = NoRaw \/ (raw.given /\ run.id \notin DOMAIN p.dirs)
    PROVE  LET site == BuildSite(p, run, raw, "parquet")
           IN \A id \in DOMAIN site.dirs :
                /\ site.dirs[id].index = site.dirs[id].logs
                /\ id \in DOMAIN p.dirs \ DOMAIN p.jsons => p.dirs[id].logs \subseteq site.dirs[id].logs
                /\ id = run.id /\ raw.given => site.dirs[id].index = raw.logs
<1> DEFINE site == BuildSite(p, run, raw, "parquet")
<1> SUFFICES ASSUME NEW id \in DOMAIN site.dirs
             PROVE  /\ site.dirs[id].index = site.dirs[id].logs
                    /\ id \in DOMAIN p.dirs \ DOMAIN p.jsons => p.dirs[id].logs \subseteq site.dirs[id].logs
                    /\ id = run.id /\ raw.given => site.dirs[id].index = raw.logs
    OBVIOUS
<1> DEFINE logs == IF id = run.id THEN raw ELSE NoRaw
           dir == FoundDir(p, id)
<1>1. site.dirs[id].logs = dir.logs \cup logs.logs /\ site.dirs[id].index = Index(dir, logs)
    <2>1. id \in DOMAIN Added(run.id, run, Existing(p))
        <3> HIDE DEF site
        <3>1. DOMAIN site.dirs = DOMAIN Added(run.id, run, Existing(p))
            BY RunsAreKept DEF site
        <3> QED BY <3>1
    <2> QED BY <2>1, RunsAreKept
<1> HIDE DEF site
<1>2. dir.index \in {{}, dir.logs} /\ (id \in DOMAIN p.dirs \ DOMAIN p.jsons => dir = p.dirs[id])
    BY DEF FoundDir, NoDir
<1>3. CASE logs = NoRaw
    <2>1. logs.logs = {} /\ logs.given = FALSE
        BY <1>3 DEF NoRaw
    <2>2. ~(id = run.id /\ raw.given)
        BY <2>1
    <2> HIDE DEF dir, logs
    <2> QED BY <1>1, <1>2, <2>1, <2>2 DEF Index
<1>4. CASE logs # NoRaw
    <2>1. logs = raw /\ id = run.id /\ raw.given /\ run.id \notin DOMAIN p.dirs
        BY <1>4
    <2>2. dir.logs = {}
        BY <2>1 DEF FoundDir, NoDir
    <2> HIDE DEF dir, logs
    <2> QED BY <1>1, <1>2, <2>1, <2>2 DEF Index
<1> QED BY <1>3, <1>4

LEMMA NewRunsAreNew ==
    ASSUME RunsInv
    PROVE  LET id == Cardinality(DOMAIN recorded) + 1
           IN /\ id \notin DOMAIN recorded /\ id \notin DOMAIN page.dirs
              /\ \A raw : LET after == Added(id, raw, recorded)
                          IN DOMAIN after = 1..id /\ Cardinality(DOMAIN after) = id
<1> DEFINE n == Cardinality(DOMAIN recorded)
           id == n + 1
<1>1. n \in Nat /\ DOMAIN recorded = 1..n
    BY DEF RunsInv
<1> HIDE DEF n
<1>2. id \notin DOMAIN recorded /\ {id} \cup DOMAIN recorded = 1..id
    BY <1>1
<1>3. Cardinality(1..id) = id
    <2>1. id \in Int /\ 1 \in Int
        BY <1>1
    <2> HIDE DEF id
    <2>2. Cardinality(1..id) = IF 1 > id THEN 0 ELSE id - 1 + 1
        BY <2>1, FS_Interval
    <2> QED BY <1>1, <2>1, <2>2 DEF id
<1>4. DOMAIN page.dirs \subseteq DOMAIN recorded
    BY DEF RunsInv, Existing
<1>5. \A raw : DOMAIN Added(id, raw, recorded) = {id} \cup DOMAIN recorded
    BY DEF Added
<1> QED BY <1>2, <1>3, <1>4, <1>5 DEF n

LEMMA NightlyKeepsReport ==
    ASSUME ReportInv, Nightly
    PROVE  /\ ReportInv'
           /\ recorded' # recorded
           /\ \A id \in DOMAIN page'.dirs \ DOMAIN page.jsons :
                /\ id \in DOMAIN page.dirs => page.dirs[id].logs \subseteq page'.dirs[id].logs
                /\ page'.dirs[id].index = page'.dirs[id].logs
                /\ id \notin DOMAIN recorded => page'.dirs[id].index = recorded'[id].logs
<1> DEFINE id == Cardinality(DOMAIN recorded) + 1
<1>1. PICK raw \in Results :
        /\ recorded' = Added(id, raw, recorded)
        /\ \E run \in {NormalizedRun(id, raw, FALSE), Recover(id, raw)} :
            page' = BuildSite(page, run, RawLogs(raw), "parquet")
    BY DEF Nightly
<1>2. PICK run \in {NormalizedRun(id, raw, FALSE), Recover(id, raw)} :
        page' = BuildSite(page, run, RawLogs(raw), "parquet")
    BY <1>1
<1>3. IsRun(run) /\ IsOf(run, id, raw) /\ run.id = id
    BY <1>2, NormalizedIsRun, RecoveredIsRun DEF IsOf
<1>4. \A i \in DOMAIN Existing(page) : IsRun(Existing(page)[i])
    BY DEF ReportInv, RunsInv
<1> DEFINE runs == Added(id, run, Existing(page))
<1>5. /\ Existing(page') = runs /\ page'.catalog = Catalog(runs) /\ page'.search = SearchRows(runs)
      /\ DOMAIN page'.dirs = DOMAIN runs
    <2> HIDE DEF id
    <2> QED BY <1>2, <1>3, <1>4, RunsAreKept
<1>6. /\ id \notin DOMAIN recorded /\ id \notin DOMAIN page.dirs
      /\ DOMAIN recorded' = 1..id /\ Cardinality(DOMAIN recorded') = id
    BY <1>1, NewRunsAreNew DEF ReportInv
<1>7. id \in Nat /\ id \in 1..id
    BY DEF ReportInv, RunsInv
<1>8. \A i \in DOMAIN page'.dirs :
        /\ page'.dirs[i].index = page'.dirs[i].logs
        /\ i \in DOMAIN page.dirs \ DOMAIN page.jsons => page.dirs[i].logs \subseteq page'.dirs[i].logs
        /\ i = id => page'.dirs[i].index = raw.logs
    <2>1. \A i \in DOMAIN page.dirs : page.dirs[i].index \in {{}, page.dirs[i].logs}
        BY DEF ReportInv, LogInv
    <2>2. RawLogs(raw).given /\ RawLogs(raw).logs = raw.logs
        BY DEF RawLogs
    <2> HIDE DEF id
    <2> QED BY <1>2, <1>3, <1>4, <1>6, <2>1, <2>2, BuildsListLogs
<1> HIDE DEF id
<1>9. RunsInv'
    <2>1. DOMAIN runs = DOMAIN recorded'
        BY <1>1 DEF Added, ReportInv, RunsInv
    <2>2. ASSUME NEW i \in DOMAIN recorded'
          PROVE  recorded'[i] \in Results /\ IsRun(runs[i]) /\ IsOf(runs[i], i, recorded'[i])
        <3>1. CASE i = id
            BY <1>1, <1>3, <2>1, <3>1 DEF Added
        <3>2. CASE i # id
            <4>1. i \in DOMAIN recorded /\ recorded'[i] = recorded[i] /\ runs[i] = Existing(page)[i]
                BY <1>1, <2>1, <3>2 DEF Added
            <4> QED BY <4>1 DEF ReportInv, RunsInv
        <3> QED BY <3>1, <3>2
    <2> HIDE DEF runs
    <2>3. Existing(page)' = runs
        BY <1>5 DEF Existing
    <2> QED BY <1>6, <1>7, <2>1, <2>2, <2>3 DEF RunsInv
<1>10. SiteInv'
    <2>1. Existing(page)' = runs /\ DOMAIN runs = DOMAIN recorded'
        BY <1>1, <1>5 DEF Existing, Added, ReportInv, RunsInv
    <2> HIDE DEF runs
    <2> QED BY <1>5, <2>1 DEF SiteInv
<1>11. LogInv'
    BY <1>8 DEF LogInv
<1>12. CommentInv' /\ JsonsInv'
    BY <1>2, RebuiltJsons DEF Nightly, CommentInv, JsonsInv
<1>13. recorded' # recorded
    BY <1>6, <1>7
<1>14. \A i \in DOMAIN page'.dirs : i \notin DOMAIN recorded => i = id /\ recorded'[i] = raw
    BY <1>1, <1>5 DEF Added, ReportInv, RunsInv
<1> QED BY <1>8, <1>9, <1>10, <1>11, <1>12, <1>13, <1>14 DEF ReportInv

(* The newest of a set of runs is one of them. *)
LEMMA NewestIsOne ==
    ASSUME NEW N \in SUBSET Int, IsFiniteSet(N), N # {}
    PROVE  NewestFirst(N)[1] \in N
<1>1. Cardinality(N) \in Nat /\ Cardinality(N) # 0
    BY FS_CardinalityType, FS_EmptySet
<1>2. Descending(N) \in Seq(N) /\ Len(Descending(N)) = Cardinality(N)
    BY DescendingOrder
<1> QED BY <1>1, <1>2 DEF NewestFirst

LEMMA RunsAreNumbers ==
    ASSUME RunsInv
    PROVE  /\ DOMAIN recorded \in SUBSET Nat
           /\ \A N \in SUBSET DOMAIN recorded : N \in SUBSET Int /\ IsFiniteSet(N)
<1> DEFINE n == Cardinality(DOMAIN recorded)
<1>1. n \in Nat /\ DOMAIN recorded = 1..n
    BY DEF RunsInv
<1> HIDE DEF n
<1>2. IsFiniteSet(1..n)
    <2>1. n \in Int /\ 1 \in Int
        BY <1>1
    <2> QED BY <2>1, FS_Interval
<1> QED BY <1>1, <1>2, FS_Subset

LEMMA RefreshKeepsAll ==
    ASSUME ReportInv, Refresh
    PROVE  /\ ReportInv'
           /\ Existing(page)' = Existing(page)
           /\ IsBuilt => page'.catalog = page.catalog /\ page'.search = page.search
           /\ \A id \in DOMAIN page'.dirs \ DOMAIN page.jsons :
                /\ id \in DOMAIN page.dirs => page.dirs[id].logs \subseteq page'.dirs[id].logs
                /\ page'.dirs[id].index = page'.dirs[id].logs
                /\ id \in DOMAIN recorded
<1> DEFINE runs == Existing(page)
           ids == IF page.jsons # NoRuns THEN DOMAIN page.jsons ELSE DOMAIN page.dirs
           newest == NewestFirst(ids)[1]
<1>1. page' = BuildSite(page, runs[newest], NoRaw, "parquet") /\ comment' = NoComment /\ recorded' = recorded
    BY DEF Refresh
<1>2. newest \in DOMAIN runs
    <2>0. DOMAIN page.jsons \subseteq DOMAIN runs /\ DOMAIN page.dirs \subseteq DOMAIN runs
        BY DEF Existing
    <2>1. ids \subseteq DOMAIN runs /\ ids # {}
        <3>1. CASE page.jsons = NoRuns
            <4>1. DOMAIN page.jsons = {}
                BY <3>1 DEF NoRuns
            <4>2. DOMAIN runs # {}
                BY DEF Refresh
            <4> QED BY <2>0, <3>1, <4>1, <4>2 DEF Existing
        <3>2. CASE page.jsons # NoRuns
            <4>1. DOMAIN page.jsons # {}
                BY <3>2 DEF ReportInv, JsonsInv, NoRuns
            <4> QED BY <2>0, <3>2, <4>1
        <3> QED BY <3>1, <3>2
    <2>2. ids \in SUBSET Int /\ IsFiniteSet(ids)
        <3> HIDE DEF ids
        <3> QED BY <2>1, RunsAreNumbers DEF ReportInv, RunsInv
    <2> HIDE DEF ids
    <2> QED BY <2>1, <2>2, NewestIsOne
<1>3. \A i \in DOMAIN runs : IsRun(runs[i]) /\ runs[i].id = i
    BY DEF ReportInv, RunsInv, IsOf
<1> HIDE DEF newest
<1>4. Added(newest, runs[newest], runs) = runs
    BY <1>2 DEF Added, Existing
<1>5. /\ Existing(page') = runs /\ page'.catalog = Catalog(runs) /\ page'.search = SearchRows(runs)
      /\ DOMAIN page'.dirs = DOMAIN runs
    <2> HIDE DEF runs
    <2>1. LET after == Added(runs[newest].id, runs[newest], Existing(page))
          IN /\ Existing(page') = after /\ page'.catalog = Catalog(after) /\ page'.search = SearchRows(after)
             /\ DOMAIN page'.dirs = DOMAIN after
        BY <1>1, <1>2, <1>3, RunsAreKept DEF runs
    <2>2. runs[newest].id = newest /\ Existing(page) = runs
        BY <1>2, <1>3 DEF runs
    <2> QED BY <1>4, <2>1, <2>2
<1>6. \A i \in DOMAIN page'.dirs :
        /\ page'.dirs[i].index = page'.dirs[i].logs
        /\ i \in DOMAIN page.dirs \ DOMAIN page.jsons => page.dirs[i].logs \subseteq page'.dirs[i].logs
    <2>1. \A i \in DOMAIN page.dirs : page.dirs[i].index \in {{}, page.dirs[i].logs}
        BY DEF ReportInv, LogInv
    <2>2. \A i \in DOMAIN Existing(page) : IsRun(Existing(page)[i])
        BY <1>3
    <2>3. IsRun(runs[newest])
        BY <1>2, <1>3
    <2> DEFINE run == runs[newest]
               raw == NoRaw
               site == BuildSite(page, run, raw, "parquet")
    <2>4. IsRun(run) /\ (raw = NoRaw \/ (raw.given /\ run.id \notin DOMAIN page.dirs))
        BY <2>3
    <2> HIDE DEF run, raw
    <2>5. \A i \in DOMAIN site.dirs :
            /\ site.dirs[i].index = site.dirs[i].logs
            /\ i \in DOMAIN page.dirs \ DOMAIN page.jsons => page.dirs[i].logs \subseteq site.dirs[i].logs
        BY <2>1, <2>2, <2>4, BuildsListLogs
    <2>6. page' = site
        BY <1>1 DEF run, raw
    <2> HIDE DEF site
    <2> QED BY <2>5, <2>6
<1>7. Existing(page)' = runs
    BY <1>5 DEF Existing
<1>8. DOMAIN runs = DOMAIN recorded
    BY DEF ReportInv, RunsInv
<1>9. RunsInv'
    BY <1>1, <1>7 DEF ReportInv, RunsInv
<1>10. SiteInv'
    <2> HIDE DEF runs
    <2> QED BY <1>1, <1>5, <1>7, <1>8 DEF SiteInv
<1>11. LogInv'
    BY <1>6 DEF LogInv
<1>12. CommentInv' /\ JsonsInv'
    BY <1>1, RebuiltJsons DEF CommentInv, JsonsInv
<1>13. IsBuilt => page'.catalog = page.catalog /\ page'.search = page.search
    BY <1>5 DEF ReportInv, SiteInv
<1> QED BY <1>5, <1>6, <1>7, <1>8, <1>9, <1>10, <1>11, <1>12, <1>13 DEF ReportInv

LEMMA CompareKeepsReport == ASSUME ReportInv, Compare PROVE ReportInv' /\ page' = page
<1> DEFINE runs == Existing(page)
           mains == {id \in DOMAIN runs : runs[id].main}
           ids == IF mains # {} THEN mains ELSE DOMAIN runs
<1>1. page' = page /\ recorded' = recorded
    BY DEF Compare
<1>2. Baseline(runs) \in DOMAIN recorded
    <2>1. ids \subseteq DOMAIN runs /\ ids # {}
        BY DEF Compare
    <2>2. Baseline(runs) = NewestFirst(ids)[1]
        BY DEF Baseline
    <2>3. DOMAIN runs = DOMAIN recorded
        BY DEF ReportInv, RunsInv
    <2> HIDE DEF runs, ids
    <2>4. ids \in SUBSET Int /\ IsFiniteSet(ids)
        BY <2>1, <2>3, RunsAreNumbers DEF ReportInv
    <2> QED BY <2>1, <2>2, <2>3, <2>4, NewestIsOne
<1>3. PICK raw \in Candidates :
        comment' = [baseline |-> Baseline(runs), raw |-> raw,
                    deltas |-> [s \in SuiteKeys |->
                        SuiteDeltas(NormalizedRun(0, raw, TRUE).suites[s], runs[Baseline(runs)].suites[s])]]
    BY DEF Compare
<1>4. CommentInv'
    <2> DEFINE base == Baseline(runs)
               deltas == [s \in SuiteKeys |->
                   SuiteDeltas(NormalizedRun(0, raw, TRUE).suites[s], runs[base].suites[s])]
    <2>1. comment'.baseline = base /\ comment'.raw = raw /\ comment'.deltas = deltas
        BY <1>3
    <2>2. Existing(page)' = runs
        BY <1>1 DEF Existing
    <2>3. base \in DOMAIN recorded'
        BY <1>1, <1>2
    <2> HIDE DEF runs, base
    <2>4. CommentInv' <=>
            \/ comment' = NoComment
            \/ /\ comment'.baseline \in DOMAIN recorded' /\ comment'.raw \in Candidates
               /\ comment'.deltas = [s \in SuiteKeys |->
                    SuiteDeltas(NormalizedRun(0, comment'.raw, TRUE).suites[s],
                                (Existing(page)')[comment'.baseline].suites[s])]
        BY DEF CommentInv
    <2> QED BY <2>1, <2>2, <2>3, <2>4
<1>5. RunsInv' /\ SiteInv' /\ LogInv' /\ JsonsInv'
    BY <1>1 DEF ReportInv, RunsInv, SiteInv, IsBuilt, LogInv, JsonsInv, Existing
<1> QED BY <1>1, <1>4, <1>5 DEF ReportInv

LEMMA ReportInvInit == ReportInit => ReportInv
<1> SUFFICES ASSUME ReportInit PROVE ReportInv
    OBVIOUS
<1>1. comment = NoComment
    BY DEF ReportInit
<1>2. DOMAIN NoRuns = {} /\ DOMAIN Existing(NoPage) = {} /\ Cardinality({}) = 0 /\ NoPage.dirs = NoRuns /\ NoPage.jsons = NoRuns
    BY FS_EmptySet DEF NoRuns, NoPage, Existing
<1>3. CASE page = NoPage /\ recorded = NoRuns
    <2>1. DOMAIN recorded = 1..0 /\ Cardinality(DOMAIN recorded) = 0
        BY <1>2, <1>3
    <2>2. ~IsBuilt
        BY <1>3 DEF IsBuilt, NoPage
    <2> QED BY <1>1, <1>2, <1>3, <2>1, <2>2 DEF ReportInv, RunsInv, SiteInv, LogInv, CommentInv, JsonsInv, NoRuns
<1>4. ASSUME NEW raw \in Results, recorded = Added(1, raw, NoRuns),
             LET run == NormalizedRun(1, raw, FALSE)
                 today == BuildSite(NoPage, run, RawLogs(raw), "parquet")
             IN page \in {[NoPage EXCEPT !.jsons = Added(1, run, NoRuns)],
                          BuildSite(NoPage, run, RawLogs(raw), "both"),
                          [today EXCEPT !.dirs[1].index = {}],
                          today}
      PROVE  ReportInv
    <2> DEFINE run == NormalizedRun(1, raw, FALSE)
               logs == RawLogs(raw)
               runs == Added(1, run, NoRuns)
               today == BuildSite(NoPage, run, logs, "parquet")
               both == BuildSite(NoPage, run, logs, "both")
    <2>1. IsRun(run) /\ IsOf(run, 1, raw) /\ run.id = 1
        BY NormalizedIsRun DEF IsOf
    <2>2. DOMAIN recorded = {1} /\ recorded[1] = raw /\ Cardinality(DOMAIN recorded) = 1 /\ {1} = 1..1
        <3>1. DOMAIN recorded = {1} /\ recorded[1] = raw
            BY <1>2, <1>4 DEF Added
        <3> QED BY <3>1, FS_Singleton
    <2>3. ASSUME Existing(page) = runs, SiteInv, LogInv, JsonsInv
          PROVE  ReportInv
        <3>1. DOMAIN runs = {1} /\ runs[1] = run
            BY <1>2 DEF Added
        <3> HIDE DEF runs, run
        <3>2. RunsInv
            <4>1. DOMAIN Existing(page) = {1} /\ Existing(page)[1] = run
                BY <2>3, <3>1
            <4>2. \A id \in DOMAIN recorded :
                    /\ recorded[id] \in Results
                    /\ IsRun(Existing(page)[id]) /\ IsOf(Existing(page)[id], id, recorded[id])
                BY <2>1, <2>2, <4>1
            <4>3. Cardinality(DOMAIN recorded) \in Nat /\ DOMAIN recorded = 1..Cardinality(DOMAIN recorded)
                BY <2>2
            <4> QED BY <2>2, <4>1, <4>2, <4>3 DEF RunsInv
        <3> QED BY <1>1, <2>3, <3>2 DEF ReportInv, CommentInv
    <2>4. \A site \in {today, both} :
            /\ Existing(site) = runs /\ site.catalog = Catalog(runs) /\ site.search = SearchRows(runs)
            /\ DOMAIN site.dirs = {1} /\ site.dirs[1].index = site.dirs[1].logs
            /\ site.jsons = [id \in DOMAIN site.jsons |-> site.jsons[id]]
        <3>1. Added(run.id, run, Existing(NoPage)) = runs /\ DOMAIN runs = {1}
            BY <1>2, <2>1 DEF Added
        <3>2. \A id \in DOMAIN Existing(NoPage) : IsRun(Existing(NoPage)[id])
            BY <1>2
        <3>3. FoundDir(NoPage, 1) = NoDir
            BY <1>2 DEF FoundDir
        <3> DEFINE Kept(site) ==
                /\ Existing(site) = runs /\ site.catalog = Catalog(runs) /\ site.search = SearchRows(runs)
                /\ DOMAIN site.dirs = {1}
                /\ site.dirs[1].logs = NoDir.logs \cup logs.logs /\ site.dirs[1].index = Index(NoDir, logs)
        <3>4. ASSUME NEW format PROVE Kept(BuildSite(NoPage, run, logs, format))
            <4> DEFINE site == BuildSite(NoPage, run, logs, format)
                       after == Added(run.id, run, Existing(NoPage))
            <4> HIDE DEF run, logs
            <4>1. /\ Existing(site) = after /\ site.catalog = Catalog(after) /\ site.search = SearchRows(after)
                  /\ DOMAIN site.dirs = DOMAIN after
                  /\ \A id \in DOMAIN after :
                        LET given == IF id = run.id THEN logs ELSE NoRaw
                        IN /\ site.dirs[id].logs = FoundDir(NoPage, id).logs \cup given.logs
                           /\ site.dirs[id].index = Index(FoundDir(NoPage, id), given)
                BY <2>1, <3>2, RunsAreKept
            <4> HIDE DEF site, after, runs
            <4>2. after = runs
                BY <3>1 DEF after
            <4> QED BY <2>1, <3>1, <3>3, <4>1, <4>2 DEF site
        <3>5. Kept(today) /\ Kept(both)
            BY <3>4
        <3>6. NoDir.logs \cup logs.logs = Index(NoDir, logs)
            BY DEF Index, NoDir, RawLogs
        <3> HIDE DEF runs, run, logs
        <3>7. \A site \in {today, both} : site.jsons = [id \in DOMAIN site.jsons |-> site.jsons[id]]
            BY RebuiltJsons
        <3> HIDE DEF today, both
        <3> QED BY <3>5, <3>6, <3>7
    <2>5. CASE page = [NoPage EXCEPT !.jsons = runs]
        <3>1. page.jsons = runs /\ page.dirs = NoRuns /\ page.catalog = << >>
            BY <2>5 DEF NoPage
        <3>2. Existing(page) = runs
            BY <1>2, <3>1 DEF Existing, Added
        <3>3. SiteInv /\ LogInv /\ JsonsInv
            BY <1>2, <3>1 DEF SiteInv, IsBuilt, LogInv, JsonsInv, Added
        <3> HIDE DEF runs
        <3> QED BY <2>3, <3>2, <3>3
    <2>6. CASE page \in {today, both}
        <3> HIDE DEF today, both, runs, run
        <3>1. SiteInv /\ LogInv /\ JsonsInv
            BY <2>2, <2>4, <2>6 DEF SiteInv, LogInv, JsonsInv
        <3> QED BY <2>3, <2>4, <2>6, <3>1
    <2>7. CASE page = [today EXCEPT !.dirs[1].index = {}]
        <3>0. today = [jsons |-> today.jsons, dirs |-> today.dirs, catalog |-> today.catalog, search |-> today.search]
            BY DEF BuildSite
        <3>0a. /\ today.dirs = [id \in {1} |-> today.dirs[id]]
               /\ today.dirs[1] = [metadata |-> today.dirs[1].metadata, suites |-> today.dirs[1].suites,
                                   features |-> today.dirs[1].features, cases |-> today.dirs[1].cases,
                                   logs |-> today.dirs[1].logs, index |-> today.dirs[1].index]
            <4>1. today.dirs = [id \in DOMAIN today.dirs |-> today.dirs[id]]
                BY DEF BuildSite
            <4>2. DOMAIN today.dirs = {1}
                BY <2>4
            <4>3. \E r, d, l : today.dirs[1] = WriteRun(r, d, l)
                <5>1. 1 \in DOMAIN today.dirs
                    BY <4>2
                <5> QED BY <5>1 DEF BuildSite
            <4> HIDE DEF today
            <4> QED BY <4>1, <4>2, <4>3 DEF WriteRun
        <3>0b. Existing(today) = runs /\ today.jsons = NoRuns
            BY <2>4 DEF BuildSite
        <3> HIDE DEF today, runs, run
        <3>1. /\ page.jsons = NoRuns /\ page.catalog = today.catalog /\ page.search = today.search
              /\ page.dirs = [id \in {1} |-> [today.dirs[1] EXCEPT !.index = {}]]
            BY <2>4, <2>7, <3>0, <3>0a, <3>0b
        <3>2. ReadRun(page.dirs[1]) = ReadRun(today.dirs[1])
            <4>1. /\ page.dirs[1].metadata = today.dirs[1].metadata /\ page.dirs[1].suites = today.dirs[1].suites
                  /\ page.dirs[1].features = today.dirs[1].features /\ page.dirs[1].cases = today.dirs[1].cases
                BY <3>0a, <3>1
            <4> QED BY <4>1 DEF ReadRun, FeatureRows
        <3>3. Existing(page) = runs
            <4>1. Existing(today) = [id \in {1} |-> ReadRun(today.dirs[1])]
                BY <1>2, <2>4, <3>0b DEF Existing
            <4>2. Existing(page) = [id \in {1} |-> ReadRun(page.dirs[1])]
                BY <1>2, <3>1 DEF Existing
            <4> QED BY <3>0b, <3>2, <4>1, <4>2
        <3>4. SiteInv
            BY <2>2, <2>4, <3>1, <3>3 DEF SiteInv
        <3>5. LogInv /\ JsonsInv
            <4>1. page.dirs[1].index = {} /\ DOMAIN page.dirs = {1}
                BY <3>0a, <3>1
            <4> QED BY <3>1, <4>1 DEF LogInv, JsonsInv, NoRuns
        <3> QED BY <2>3, <3>3, <3>4, <3>5
    <2> QED BY <1>4, <2>5, <2>6, <2>7
<1> QED BY <1>3, <1>4 DEF ReportInit

LEMMA ReportInvNext == ReportInv /\ [ReportNext]_reportVars => ReportInv'
<1> SUFFICES ASSUME ReportInv, [ReportNext]_reportVars PROVE ReportInv'
    OBVIOUS
<1>1. CASE UNCHANGED reportVars
    <2>1. page' = page /\ comment' = comment /\ recorded' = recorded
        BY <1>1 DEF reportVars
    <2>2. RunsInv'
        BY <2>1, Zenon DEF ReportInv, RunsInv, Existing
    <2>3. SiteInv'
        BY <2>1, Zenon DEF ReportInv, SiteInv, IsBuilt, Existing
    <2>4. LogInv' /\ JsonsInv'
        BY <2>1, Zenon DEF ReportInv, LogInv, JsonsInv
    <2>5. CommentInv'
        <3>1. Existing(page)' = Existing(page) /\ CommentInv
            BY <2>1, Zenon DEF Existing, ReportInv
        <3>2. CASE comment = NoComment
            BY <2>1, <3>2, Zenon DEF CommentInv
        <3>3. CASE comment # NoComment
            <4>1. /\ comment.baseline \in DOMAIN recorded /\ comment.raw \in Candidates
                  /\ comment.deltas = [s \in SuiteKeys |->
                        SuiteDeltas(NormalizedRun(0, comment.raw, TRUE).suites[s],
                                    Existing(page)[comment.baseline].suites[s])]
                BY <3>1, <3>3, Zenon DEF CommentInv
            <4> QED BY <2>1, <3>1, <4>1, Zenon DEF CommentInv
        <3> QED BY <3>2, <3>3
    <2> QED BY <2>2, <2>3, <2>4, <2>5, Zenon DEF ReportInv
<1>2. CASE Nightly
    BY <1>2, NightlyKeepsReport
<1>3. CASE Refresh
    BY <1>3, RefreshKeepsAll
<1>4. CASE Compare
    BY <1>4, CompareKeepsReport
<1> QED BY <1>1, <1>2, <1>3, <1>4, Zenon DEF ReportNext

LEMMA ReportInvariant == ReportSpec => []ReportInv
BY ReportInvInit, ReportInvNext, PTL DEF ReportSpec

(* No build loses a log of a published run or leaves one out of its index, *)
(* however often the site is rebuilt and whatever had emptied the index.   *)
THEOREM LogsAreFound == ReportSpec => LogsStayFindable
<1> DEFINE A == \A id \in DOMAIN page'.dirs \ DOMAIN page.jsons :
        /\ id \in DOMAIN page.dirs => page.dirs[id].logs \subseteq page'.dirs[id].logs
        /\ page'.dirs[id].index = page'.dirs[id].logs
        /\ id \notin DOMAIN recorded => page'.dirs[id].index = recorded'[id].logs
<1>1. ASSUME ReportInv, [ReportNext]_reportVars PROVE [A]_page
    <2>1. CASE Nightly
        BY <1>1, <2>1, NightlyKeepsReport
    <2>2. CASE Refresh
        BY <1>1, <2>2, RefreshKeepsAll
    <2>3. CASE Compare \/ UNCHANGED reportVars
        BY <1>1, <2>3, CompareKeepsReport DEF reportVars
    <2> QED BY <1>1, <2>1, <2>2, <2>3 DEF ReportNext
<1> QED BY <1>1, ReportInvariant, PTL DEF ReportSpec, LogsStayFindable

(* Refreshes change nothing that is reported: what is written of a run is  *)
(* read back as the run, and the catalog and the rows follow from the runs. *)
THEOREM RefreshesChangeNothing == ReportSpec => RefreshKeepsReport
<1> DEFINE A == recorded' = recorded =>
        /\ Existing(page)' = Existing(page)
        /\ IsBuilt => page'.catalog = page.catalog /\ page'.search = page.search
<1>1. ASSUME ReportInv, [ReportNext]_reportVars PROVE [A]_page
    <2>1. CASE Nightly
        BY <1>1, <2>1, NightlyKeepsReport
    <2>2. CASE Refresh
        BY <1>1, <2>2, RefreshKeepsAll
    <2>3. CASE Compare \/ UNCHANGED reportVars
        BY <1>1, <2>3, CompareKeepsReport DEF reportVars
    <2> QED BY <1>1, <2>1, <2>2, <2>3 DEF ReportNext
<1> QED BY <1>1, ReportInvariant, PTL DEF ReportSpec, RefreshKeepsReport

-----------------------------------------------------------------------------
(* The case that a line makes, and whether it makes one. *)
StatusOf(s, line) == IF s = "mint" THEN MintStatus(line.outcome) ELSE S3Status(line.outcome)
CaseOf(s, line, markers) ==
    [name |-> line.name, message |-> line.message, status |-> StatusOf(s, line),
     features |-> IF s = "mint" \/ markers THEN FeaturesOf[line.name] ELSE {FileFeature}]
MakesCase(s, line) == s # "mint" \/ line.outcome # "garbled"

LEMMA StatusesAreFour ==
    ASSUME NEW s, NEW line PROVE StatusOf(s, line) \in NonPassingStatuses \cup {"pass"}
BY DEF StatusOf, MintStatus, S3Status, NonPassingStatuses

LEMMA ParsedLines ==
    ASSUME NEW s, NEW lines, IsSequence(lines)
    PROVE  LET parsed == Parsed(s, lines)
               places == {i \in DOMAIN lines : MakesCase(s, lines[i])}
           IN IsSequence(parsed) /\ \E p : PicksAt(p, parsed, lines, places)
<1> DEFINE places == {i \in DOMAIN lines : MakesCase(s, lines[i])}
           S == {lines[i] : i \in DOMAIN lines}
<1>0. lines \in Seq(S)
    BY DEF IsSequence
<1>1. CASE s = "mint"
    <2>1. places = {i \in DOMAIN lines : lines[i].outcome # "garbled"}
        BY <1>1 DEF MakesCase
    <2>2. Parsed(s, lines) = Picked(lines, places)
        BY <1>1, <2>1 DEF Parsed
    <2> HIDE DEF places, S
    <2>3. Picked(lines, places) \in Seq(S) /\ \E p : PicksAt(p, Picked(lines, places), lines, places)
        BY <1>0, PickedSelects
    <2>4. IsSequence(Picked(lines, places))
        BY <2>3, OfItsElements
    <2> QED BY <2>2, <2>3, <2>4 DEF places
<1>2. CASE s # "mint"
    <2> DEFINE p == [i \in 1..Len(lines) |-> i]
    <2>1. Parsed(s, lines) = lines
        BY <1>2 DEF Parsed
    <2>2. Len(lines) \in Nat /\ DOMAIN lines = 1..Len(lines)
        <3> HIDE DEF S
        <3> QED BY <1>0
    <2>3. places = DOMAIN lines
        BY <1>2 DEF MakesCase
    <2> HIDE DEF places
    <2>4. PicksAt(p, lines, lines, places)
        BY <2>2, <2>3 DEF PicksAt
    <2> HIDE DEF p
    <2> QED BY <2>1, <2>4 DEF places
<1> QED BY <1>1, <1>2

LEMMA CasesOfLines ==
    ASSUME NEW s, NEW lines, IsSequence(lines), NEW markers
    PROVE  LET parsed == Parsed(s, lines)
               cases == CasesOf(s, lines, markers)
           IN /\ IsSequence(parsed) /\ IsSequence(cases)
              /\ Len(cases) = Len(parsed) /\ Len(cases) \in Nat /\ DOMAIN cases = 1..Len(cases)
              /\ \A j \in DOMAIN cases : cases[j] = CaseOf(s, parsed[j], markers)
<1> DEFINE parsed == Parsed(s, lines)
           cases == CasesOf(s, lines, markers)
           S == {CaseOf(s, parsed[i], markers) : i \in DOMAIN parsed}
           n == Len(parsed)
<1>1. IsSequence(parsed)
    BY ParsedLines
<1>2. n \in Nat /\ DOMAIN parsed = 1..n
    <2> HIDE DEF parsed
    <2> QED BY <1>1 DEF IsSequence
<1>3. cases = [i \in DOMAIN parsed |-> CaseOf(s, parsed[i], markers)]
    BY DEF CasesOf, CaseOf, StatusOf
<1>4. \A j \in DOMAIN parsed : CaseOf(s, parsed[j], markers) \in S
    OBVIOUS
<1> HIDE DEF parsed, S, n
<1>5. cases \in [1..n -> S]
    BY <1>2, <1>3, <1>4
<1> HIDE DEF cases
<1>6. cases \in Seq(S) /\ Len(cases) = n
    BY <1>2, <1>5, SeqDef
<1>7. \A j \in DOMAIN cases : cases[j] = CaseOf(s, parsed[j], markers)
    BY <1>3
<1>8. Len(cases) \in Nat /\ DOMAIN cases = 1..Len(cases)
    BY <1>6
<1>9. IsSequence(cases)
    BY <1>6, OfItsElements
<1> QED BY <1>1, <1>6, <1>7, <1>8, <1>9 DEF parsed, cases, n

(* One line makes its case, or none. *)
LEMMA CaseOfOneLine ==
    ASSUME NEW s, NEW line, NEW status
    PROVE  (\E c \in ToSet(CasesOf(s, <<line>>, TRUE)) : c.status = status)
               <=> MakesCase(s, line) /\ StatusOf(s, line) = status
<1> DEFINE lines == <<line>>
           markers == TRUE
           parsed == Parsed(s, lines)
           cases == CasesOf(s, lines, markers)
           places == {i \in DOMAIN lines : MakesCase(s, lines[i])}
<1>1. /\ IsSequence(lines) /\ Len(lines) = 1 /\ DOMAIN lines = 1..1
      /\ \A i \in 1..1 : i = 1 /\ lines[i] = line
    BY SingletonIsSequence
<1> HIDE DEF lines, markers
<1>2. /\ Len(cases) = Len(parsed) /\ DOMAIN cases = 1..Len(cases)
      /\ Len(cases) \in Nat /\ \A j \in DOMAIN cases : cases[j] = CaseOf(s, parsed[j], markers)
    BY <1>1, CasesOfLines
<1>3. PICK p : PicksAt(p, parsed, lines, places)
    BY <1>1, ParsedLines
<1> HIDE DEF cases, parsed
<1>4. \A j \in DOMAIN cases : MakesCase(s, line) /\ cases[j].status = StatusOf(s, line)
    <2> SUFFICES ASSUME NEW j \in DOMAIN cases
                 PROVE  MakesCase(s, line) /\ cases[j].status = StatusOf(s, line)
        OBVIOUS
    <2>1. p[j] \in 1..1 /\ p[j] \in places /\ parsed[j] = lines[p[j]]
        BY <1>1, <1>2, <1>3 DEF PicksAt
    <2>2. lines[p[j]] = line
        BY <1>1, <2>1
    <2> QED BY <1>2, <2>1, <2>2 DEF CaseOf
<1>5. ASSUME MakesCase(s, line) PROVE 1 \in DOMAIN cases
    <2>1. 1 \in places /\ 1 \in 1..Len(lines)
        BY <1>1, <1>5
    <2>2. \E j \in 1..Len(parsed) : p[j] = 1
        BY <1>3, <2>1 DEF PicksAt
    <2> QED BY <1>2, <2>2
<1>6. ToSet(cases) = {cases[j] : j \in DOMAIN cases}
    BY DEF ToSet
<1> QED BY <1>4, <1>5, <1>6 DEF cases, lines, markers

(* The lines of a suite that end as cases with a status. *)
MadeWith(s, lines, status) == {i \in DOMAIN lines : MakesCase(s, lines[i]) /\ StatusOf(s, lines[i]) = status}

(* A count of cases is that of the lines that make them. *)
LEMMA CountsAreOfLines ==
    ASSUME NEW s, NEW lines, IsSequence(lines), NEW markers, NEW status
    PROVE  LET cases == CasesOf(s, lines, markers)
               made == MadeWith(s, lines, status)
           IN Len(With(cases, {status})) = Cardinality(made) /\ Cardinality(made) \in Nat
<1> DEFINE cases == CasesOf(s, lines, markers)
           parsed == Parsed(s, lines)
           S == {cases[j] : j \in DOMAIN cases}
           made == {i \in DOMAIN lines : MakesCase(s, lines[i]) /\ StatusOf(s, lines[i]) = status}
           places == {i \in DOMAIN lines : MakesCase(s, lines[i])}
           P == {j \in DOMAIN cases : cases[j].status \in {status}}
<1>1. /\ IsSequence(cases) /\ Len(cases) = Len(parsed) /\ Len(cases) \in Nat /\ DOMAIN cases = 1..Len(cases)
      /\ \A j \in DOMAIN cases : cases[j] = CaseOf(s, parsed[j], markers)
    BY CasesOfLines
<1>2. PICK p : PicksAt(p, parsed, lines, places)
    BY ParsedLines
<1>3. Len(lines) \in Nat /\ DOMAIN lines = 1..Len(lines) /\ cases \in Seq(S)
    BY <1>1 DEF IsSequence
<1>4. With(cases, {status}) = Picked(cases, P)
    BY DEF With
<1> HIDE DEF cases, parsed, S
<1>5. Len(With(cases, {status})) = Cardinality(P)
    <2>1. P \cap (1..Len(cases)) = P
        BY <1>1
    <2> HIDE DEF P
    <2> QED BY <1>3, <1>4, <2>1, PickedLen
<1>6. \A j \in P : p[j] \in made
    <2> SUFFICES ASSUME NEW j \in P PROVE p[j] \in made
        OBVIOUS
    <2>1. j \in 1..Len(parsed) /\ cases[j] = CaseOf(s, parsed[j], markers) /\ cases[j].status = status
        BY <1>1
    <2>2. p[j] \in 1..Len(lines) /\ p[j] \in places /\ parsed[j] = lines[p[j]]
        BY <1>2, <2>1 DEF PicksAt
    <2>3. StatusOf(s, lines[p[j]]) = status
        BY <2>1, <2>2 DEF CaseOf
    <2> QED BY <2>2, <2>3
<1>7. \A i \in made : \E j \in P : p[j] = i
    <2> SUFFICES ASSUME NEW i \in made PROVE \E j \in P : p[j] = i
        OBVIOUS
    <2>1. i \in places /\ i \in 1..Len(lines)
        BY <1>3
    <2>2. PICK j \in 1..Len(parsed) : p[j] = i
        BY <1>2, <2>1 DEF PicksAt
    <2>3. parsed[j] = lines[i]
        BY <1>2, <2>2 DEF PicksAt
    <2>4. cases[j].status = StatusOf(s, lines[i]) /\ j \in DOMAIN cases
        BY <1>1, <2>2, <2>3 DEF CaseOf
    <2>5. j \in P
        BY <2>4
    <2> QED BY <2>2, <2>5
<1>8. \A j, k \in P : p[j] = p[k] => j = k
    <2> SUFFICES ASSUME NEW j \in P, NEW k \in P, p[j] = p[k], j # k PROVE FALSE
        OBVIOUS
    <2>1. j \in 1..Len(parsed) /\ k \in 1..Len(parsed)
        BY <1>1
    <2>2. j < k \/ k < j
        BY <1>1, <2>1
    <2>3. p[j] \in Nat /\ p[k] \in Nat
        BY <1>2, <1>3, <2>1 DEF PicksAt
    <2>4. p[j] < p[k] \/ p[k] < p[j]
        BY <1>2, <2>1, <2>2 DEF PicksAt
    <2> QED BY <2>3, <2>4
<1> DEFINE q == [j \in P |-> p[j]]
<1>9. q \in Bijection(P, made)
    <2> HIDE DEF P, made
    <2>1. q \in [P -> made] /\ \A j \in P : q[j] = p[j]
        BY <1>6
    <2> HIDE DEF q
    <2> QED BY <1>7, <1>8, <2>1 DEF Bijection, Injection, Surjection, IsInjective
<1>10. IsFiniteSet(P)
    <2>1. IsFiniteSet(1..Len(cases))
        <3> DEFINE n == Len(cases)
        <3>1. n \in Int /\ 1 \in Int
            BY <1>1
        <3> HIDE DEF n
        <3>2. IsFiniteSet(1..n)
            BY <3>1, FS_Interval
        <3> QED BY <3>2 DEF n
    <2>2. P \in SUBSET (1..Len(cases))
        BY <1>1
    <2> HIDE DEF P
    <2> QED BY <2>1, <2>2, FS_Subset
<1>11. Cardinality(P) = Cardinality(made) /\ Cardinality(P) \in Nat
    <2> HIDE DEF P, made, q
    <2> QED BY <1>9, <1>10, FS_Bijection, FS_CardinalityType DEF ExistsBijection
<1> HIDE DEF made, P
<1> QED BY <1>5, <1>11 DEF made, cases, MadeWith

-----------------------------------------------------------------------------
LEMMA LinesAreSequences ==
    ASSUME NEW raw \in Results \cup Candidates, NEW s \in SuiteKeys
    PROVE  IsSequence(raw.lines[s])
BY ResultsAreRaw DEF IsSequence, ToSet

LEMMA CatalogIsOfRuns ==
    ASSUME NEW runs
    PROVE  LET ids == NewestFirst(DOMAIN runs)
               catalog == Catalog(runs)
           IN /\ DOMAIN catalog = DOMAIN ids /\ ids = [i \in DOMAIN ids |-> catalog[i].id]
              /\ \A i \in DOMAIN ids : /\ catalog[i].id = ids[i]
                                       /\ \A s \in SuiteKeys : catalog[i].rates[s] = runs[ids[i]].suites[s].summary.rate
<1> DEFINE ids == NewestFirst(DOMAIN runs)
<1>1. ids = [i \in DOMAIN ids |-> ids[i]]
    <2> DEFINE N == DOMAIN runs
               Nth(i) == CHOOSE x \in N : Cardinality({y \in N : y > x}) = i - 1
    <2>1. ids = [i \in 1..Cardinality(N) |-> Nth(i)]
        BY DEF NewestFirst, Descending
    <2> HIDE DEF ids, Nth
    <2> QED BY <2>1
<1> HIDE DEF ids
<1>2. Catalog(runs) = [i \in DOMAIN ids |-> [id |-> ids[i], status |-> runs[ids[i]].status,
            rates |-> [s \in SuiteKeys |-> runs[ids[i]].suites[s].summary.rate]]]
    BY DEF Catalog, ids
<1> DEFINE catalog == Catalog(runs)
<1>3. DOMAIN catalog = DOMAIN ids
    BY <1>2
<1>4. \A i \in DOMAIN ids : /\ catalog[i].id = ids[i]
                            /\ \A s \in SuiteKeys : catalog[i].rates[s] = runs[ids[i]].suites[s].summary.rate
    BY <1>2
<1> HIDE DEF catalog
<1>5. ids = [i \in DOMAIN ids |-> catalog[i].id]
    BY <1>1, <1>4
<1> QED BY <1>3, <1>4, <1>5 DEF ids, catalog

LEMMA PublishedRunsAreListed == ASSUME ReportInv PROVE RunsAreListed
<1> DEFINE ids == NewestFirst(DOMAIN recorded)
<1>1. DOMAIN Existing(page) = DOMAIN recorded
    BY DEF ReportInv, RunsInv
<1>2. ASSUME IsBuilt
      PROVE  /\ DOMAIN page.dirs = DOMAIN recorded
             /\ [i \in DOMAIN page.catalog |-> page.catalog[i].id] = ids
    <2>1. page.catalog = Catalog(Existing(page)) /\ DOMAIN page.dirs = DOMAIN recorded
        BY <1>2 DEF ReportInv, SiteInv
    <2>2. DOMAIN page.catalog = DOMAIN ids /\ ids = [i \in DOMAIN ids |-> page.catalog[i].id]
        BY <1>1, <2>1, CatalogIsOfRuns
    <2> HIDE DEF ids
    <2> QED BY <2>1, <2>2
<1> QED BY <1>1, <1>2 DEF RunsAreListed

LEMMA SummariesAreOfLines ==
    ASSUME NEW s, NEW lines, IsSequence(lines), NEW markers
    PROVE  LET Count(status) == Cardinality(MadeWith(s, lines, status))
               summary == Summary(CasesOf(s, lines, markers))
               eligible == Count("pass") + Count("fail") + Count("error")
           IN /\ summary.passed = Count("pass") /\ summary.skipped = Count("skipped")
              /\ summary.rate = IF eligible = 0 THEN NoRate ELSE <<Count("pass"), eligible>>
<1> DEFINE cases == CasesOf(s, lines, markers)
           Count(status) == Cardinality(MadeWith(s, lines, status))
           Number(status) == Len(With(cases, {status}))
           eligible == Number("pass") + Number("fail") + Number("error")
<1>1. \A status : Number(status) = Count(status)
    BY CountsAreOfLines
<1>2. Summary(cases) =
        [total |-> Len(cases), passed |-> Number("pass"), failed |-> Number("fail"), errored |-> Number("error"),
         skipped |-> Number("skipped"), eligible |-> eligible,
         rate |-> IF eligible = 0 THEN NoRate ELSE <<Number("pass"), eligible>>]
    BY DEF Summary
<1> HIDE DEF cases, Number, Count
<1>3. /\ Summary(cases).passed = Number("pass") /\ Summary(cases).skipped = Number("skipped")
      /\ Summary(cases).rate = IF eligible = 0 THEN NoRate ELSE <<Number("pass"), eligible>>
    BY <1>2
<1> QED BY <1>1, <1>3 DEF cases, Count

(* The rates and counts shown of a run are those of its raw results,       *)
(* though most cases are not kept and each build computes the page from    *)
(* what the builds before wrote.                                           *)
THEOREM RatesAreOfTheResults == ReportSpec => []RatesAreTrue
<1>1. ReportInv => RatesAreTrue
    <2> SUFFICES ASSUME ReportInv PROVE RatesAreTrue
        OBVIOUS
    <2>1. RunsAreListed
        BY PublishedRunsAreListed
    <2>2. ASSUME NEW id \in DOMAIN recorded, NEW s \in SuiteKeys
          PROVE  LET lines == recorded[id].lines[s]
                     Count(status) == Cardinality({i \in DOMAIN lines :
                         \E c \in ToSet(CasesOf(s, <<lines[i]>>, TRUE)) : c.status = status})
                     eligible == Count("pass") + Count("fail") + Count("error")
                     rate == IF eligible = 0 THEN NoRate ELSE <<Count("pass"), eligible>>
                     summary == Existing(page)[id].suites[s].summary
                 IN /\ summary.passed = Count("pass") /\ summary.skipped = Count("skipped")
                    /\ summary.rate = rate
                    /\ \A row \in ToSet(page.catalog) : row.id = id => row.rates[s] = rate
        <3> DEFINE lines == recorded[id].lines[s]
                   Count(status) == Cardinality({i \in DOMAIN lines :
                       \E c \in ToSet(CasesOf(s, <<lines[i]>>, TRUE)) : c.status = status})
                   Made(status) == Cardinality(MadeWith(s, lines, status))
                   summary == Existing(page)[id].suites[s].summary
                   eligible == Count("pass") + Count("fail") + Count("error")
                   rate == IF eligible = 0 THEN NoRate ELSE <<Count("pass"), eligible>>
        <3>1. IsSequence(lines) /\ IsOf(Existing(page)[id], id, recorded[id])
            BY LinesAreSequences DEF ReportInv, RunsInv
        <3>2. ASSUME NEW status PROVE Count(status) = Made(status)
            <4> HIDE DEF lines
            <4>1. \A i \in DOMAIN lines :
                    (\E c \in ToSet(CasesOf(s, <<lines[i]>>, TRUE)) : c.status = status)
                        <=> MakesCase(s, lines[i]) /\ StatusOf(s, lines[i]) = status
                BY CaseOfOneLine
            <4>2. {i \in DOMAIN lines : \E c \in ToSet(CasesOf(s, <<lines[i]>>, TRUE)) : c.status = status}
                    = MadeWith(s, lines, status)
                BY <4>1 DEF MadeWith
            <4> QED BY <4>2
        <3>3. PICK markers \in BOOLEAN : summary = Summary(CasesOf(s, lines, markers))
            BY <3>1 DEF IsOf, KeepsOf
        <3> HIDE DEF lines, Count, Made
        <3>4. LET all == Made("pass") + Made("fail") + Made("error")
              IN /\ summary.passed = Made("pass") /\ summary.skipped = Made("skipped")
                 /\ summary.rate = IF all = 0 THEN NoRate ELSE <<Made("pass"), all>>
            BY <3>1, <3>3, SummariesAreOfLines DEF Made
        <3>5. summary.passed = Count("pass") /\ summary.skipped = Count("skipped") /\ summary.rate = rate
            BY <3>2, <3>4
        <3> HIDE DEF rate
        <3>6. ASSUME NEW row \in ToSet(page.catalog), row.id = id PROVE row.rates[s] = rate
            <4>1. PICK i \in DOMAIN page.catalog : row = page.catalog[i]
                BY DEF ToSet
            <4>2. page.catalog = Catalog(Existing(page))
                <5>1. IsBuilt
                    BY <4>1 DEF IsBuilt
                <5> QED BY <5>1 DEF ReportInv, SiteInv
            <4>3. row.rates[s] = Existing(page)[row.id].suites[s].summary.rate
                <5> DEFINE runs == Existing(page)
                           ids == NewestFirst(DOMAIN runs)
                           catalog == Catalog(runs)
                <5>1. /\ DOMAIN catalog = DOMAIN ids
                      /\ \A k \in DOMAIN ids :
                            /\ catalog[k].id = ids[k]
                            /\ catalog[k].rates[s] = runs[ids[k]].suites[s].summary.rate
                    <6> HIDE DEF runs
                    <6> QED BY CatalogIsOfRuns
                <5>2. page.catalog = catalog
                    BY <4>2
                <5> HIDE DEF catalog, ids, runs
                <5> QED BY <4>1, <5>1, <5>2 DEF runs
            <4> QED BY <3>5, <3>6, <4>3
        <3> QED BY <3>5, <3>6 DEF lines, Count, rate
    <2> QED BY <2>1, <2>2 DEF RatesAreTrue
<1> QED BY <1>1, ReportInvariant, PTL

-----------------------------------------------------------------------------
(* How the last of the cases named n ended. *)
StatusNamed(cases, n) ==
    LET last == SelectLastInSeq(cases, LAMBDA c : c.name = n)
    IN IF last = 0 THEN "absent" ELSE cases[last].status

(* i is the last place of a case named n. *)
IsLast(i, cases, n) ==
    /\ i \in DOMAIN cases /\ cases[i].name = n
    /\ \A j \in DOMAIN cases : cases[j].name = n => j <= i
NamesOf(cases) == {cases[j].name : j \in DOMAIN cases}

LEMMA LastOfName ==
    ASSUME NEW cases, IsSequence(cases), NEW n
    PROVE  LET last == SelectLastInSeq(cases, LAMBDA c : c.name = n)
           IN /\ n \in NamesOf(cases) => last # 0 /\ IsLast(last, cases, n)
              /\ n \notin NamesOf(cases) => last = 0
<1> DEFINE I == {i \in 1..Len(cases) : cases[i].name = n}
           last == SelectLastInSeq(cases, LAMBDA c : c.name = n)
<1>1. Len(cases) \in Nat /\ DOMAIN cases = 1..Len(cases)
    BY DEF IsSequence
<1>2. last = IF I # {} THEN Max(I) ELSE 0
    BY DEF SelectLastInSeq
<1>3. I # {} <=> n \in NamesOf(cases)
    BY <1>1 DEF NamesOf
<1>4. ASSUME I # {} PROVE last # 0 /\ IsLast(last, cases, n)
    <2>1. I \in SUBSET (1..Len(cases))
        OBVIOUS
    <2>2. \A i \in I : i \in DOMAIN cases /\ i # 0 /\ cases[i].name = n
        BY <1>1
    <2>3. \A j \in DOMAIN cases : cases[j].name = n => j \in I
        BY <1>1
    <2> HIDE DEF I, last
    <2>4. last \in I /\ \A x \in I : x <= last
        BY <1>1, <1>2, <1>4, <2>1, MaxOfIndices
    <2> QED BY <2>2, <2>3, <2>4 DEF IsLast
<1> HIDE DEF I, last
<1> QED BY <1>2, <1>3, <1>4 DEF last

LEMMA StatusOfLast ==
    ASSUME NEW cases, IsSequence(cases), NEW n
    PROVE  /\ n \notin NamesOf(cases) => StatusNamed(cases, n) = "absent"
           /\ \A i : IsLast(i, cases, n) => StatusNamed(cases, n) = cases[i].status
<1> DEFINE last == SelectLastInSeq(cases, LAMBDA c : c.name = n)
<1>1. /\ n \in NamesOf(cases) => last # 0 /\ IsLast(last, cases, n)
      /\ n \notin NamesOf(cases) => last = 0
    BY LastOfName
<1>2. StatusNamed(cases, n) = IF last = 0 THEN "absent" ELSE cases[last].status
    BY DEF StatusNamed
<1>3. Len(cases) \in Nat /\ DOMAIN cases = 1..Len(cases)
    BY DEF IsSequence
<1> HIDE DEF last
<1>4. ASSUME NEW i, IsLast(i, cases, n) PROVE last = i /\ last # 0
    <2>1. n \in NamesOf(cases)
        BY <1>4 DEF IsLast, NamesOf
    <2> QED BY <1>1, <1>3, <1>4, <2>1 DEF IsLast
<1> QED BY <1>1, <1>2, <1>4

LEMMA SomeIsLast ==
    ASSUME NEW cases, IsSequence(cases), NEW n \in NamesOf(cases)
    PROVE  \E i : IsLast(i, cases, n)
BY LastOfName

HasStatuses(cases) == \A i \in DOMAIN cases : cases[i].status \in NonPassingStatuses \cup {"pass"}

(* The map of a suite's cases says how each name ended. *)
LEMMA MapsHaveTheLast ==
    ASSUME NEW suite, IsSequence(suite.cases), HasStatuses(suite.cases), NEW n
    PROVE  LET map == CaseMap(suite)
               status == StatusNamed(suite.cases, n)
           IN /\ n \in DOMAIN map <=> status # "absent"
              /\ n \in DOMAIN map => map[n].status = status
              /\ n \in Failing(map) <=> status \in NonPassingStatuses
              /\ status \in NonPassingStatuses \cup {"pass", "absent"}
<1> DEFINE cases == suite.cases
           map == CaseMap(suite)
           status == StatusNamed(cases, n)
           LastAt(m) == SelectLastInSeq(cases, LAMBDA c : c.name = m)
<1>1. map = [m \in NamesOf(cases) |-> cases[LastAt(m)]]
    <2>1. {c.name : c \in ToSet(cases)} = NamesOf(cases)
        BY DEF ToSet, NamesOf
    <2>2. map = [m \in {c.name : c \in ToSet(cases)} |-> cases[LastAt(m)]]
        BY DEF CaseMap
    <2> HIDE DEF LastAt, map, cases
    <2> QED BY <2>1, <2>2
<1>2. "absent" \notin NonPassingStatuses \cup {"pass"} /\ "absent" \notin NonPassingStatuses
    BY DEF NonPassingStatuses
<1>3. n \notin NamesOf(cases) => status = "absent"
    BY StatusOfLast
<1>4. n \in NamesOf(cases) => IsLast(LastAt(n), cases, n)
    BY LastOfName
<1> HIDE DEF map, LastAt, cases
<1>5. DOMAIN map = NamesOf(cases)
    BY <1>1
<1>6. n \in NamesOf(cases) => status = cases[LastAt(n)].status /\ status \in NonPassingStatuses \cup {"pass"}
    BY <1>4, StatusOfLast DEF cases, IsLast, HasStatuses
<1>7. n \in NamesOf(cases) => map[n].status = status
    BY <1>1, <1>6
<1>8. n \in Failing(map) <=> status \in NonPassingStatuses
    BY <1>2, <1>3, <1>5, <1>7 DEF Failing
<1> HIDE DEF status
<1>9. n \in DOMAIN map <=> status # "absent"
    BY <1>2, <1>3, <1>5, <1>6
<1> QED BY <1>2, <1>3, <1>5, <1>6, <1>7, <1>8, <1>9 DEF map, cases, status

LEMMA CasesHaveStatuses ==
    ASSUME NEW s, NEW lines, IsSequence(lines), NEW markers
    PROVE  HasStatuses(CasesOf(s, lines, markers))
<1> DEFINE cases == CasesOf(s, lines, markers)
<1>1. \A i \in DOMAIN cases : cases[i] = CaseOf(s, Parsed(s, lines)[i], markers)
    BY CasesOfLines
<1> HIDE DEF cases
<1>2. HasStatuses(cases)
    BY <1>1, StatusesAreFour DEF HasStatuses, CaseOf
<1> QED BY <1>2 DEF cases

(* The markers do not change how a test ended. *)
LEMMA EndingsIgnoreMarkers ==
    ASSUME NEW s, NEW lines, IsSequence(lines), NEW markers, NEW others, NEW n
    PROVE  StatusNamed(CasesOf(s, lines, markers), n) = StatusNamed(CasesOf(s, lines, others), n)
<1> DEFINE a == CasesOf(s, lines, markers)
           b == CasesOf(s, lines, others)
<1>1. /\ IsSequence(a) /\ IsSequence(b) /\ DOMAIN a = DOMAIN b
      /\ \A i \in DOMAIN a : a[i].name = b[i].name /\ a[i].status = b[i].status
    <2>1. /\ IsSequence(a) /\ DOMAIN a = 1..Len(Parsed(s, lines))
          /\ \A i \in DOMAIN a : a[i] = CaseOf(s, Parsed(s, lines)[i], markers)
        BY CasesOfLines
    <2>2. /\ IsSequence(b) /\ DOMAIN b = 1..Len(Parsed(s, lines))
          /\ \A i \in DOMAIN b : b[i] = CaseOf(s, Parsed(s, lines)[i], others)
        BY CasesOfLines
    <2> HIDE DEF a, b
    <2> QED BY <2>1, <2>2 DEF CaseOf
<1> HIDE DEF a, b
<1>2. NamesOf(a) = NamesOf(b)
    BY <1>1 DEF NamesOf
<1>3. CASE n \notin NamesOf(a)
    BY <1>1, <1>2, <1>3, StatusOfLast DEF a, b
<1>4. CASE n \in NamesOf(a)
    <2>1. PICK i : IsLast(i, a, n)
        BY <1>1, <1>4, SomeIsLast
    <2>2. IsLast(i, b, n) /\ a[i].status = b[i].status
        BY <1>1, <2>1 DEF IsLast
    <2>3. StatusNamed(a, n) = a[i].status /\ StatusNamed(b, n) = b[i].status
        BY <1>1, <2>1, <2>2, StatusOfLast
    <2> QED BY <2>2, <2>3 DEF a, b
<1> QED BY <1>3, <1>4

(* Of cases whose repeated names did not pass, the ones that did not pass  *)
(* tell how each test ended that did not pass.                             *)
LEMMA NonPassingTellEndings ==
    ASSUME NEW cases, IsSequence(cases), HasStatuses(cases), NEW n,
           \A i, j \in DOMAIN cases : i # j /\ cases[i].name = cases[j].name => cases[i].status # "pass"
    PROVE  LET kept == NonPassing(cases)
               status == StatusNamed(cases, n)
           IN /\ IsSequence(kept) /\ HasStatuses(kept)
              /\ StatusNamed(kept, n) = IF status \in NonPassingStatuses THEN status ELSE "absent"
<1> DEFINE kept == NonPassing(cases)
           P == {i \in DOMAIN cases : cases[i].status \in NonPassingStatuses}
           S == {cases[i] : i \in DOMAIN cases}
           status == StatusNamed(cases, n)
<1>1. cases \in Seq(S) /\ Len(cases) \in Nat /\ DOMAIN cases = 1..Len(cases)
    BY DEF IsSequence
<1>2. kept = Picked(cases, P)
    BY DEF NonPassing, With
<1> HIDE DEF P, S, kept
<1>3. kept \in Seq(S) /\ \E p : PicksAt(p, kept, cases, P)
    BY <1>1, <1>2, PickedSelects
<1>4. PICK p : PicksAt(p, kept, cases, P)
    BY <1>3
<1>5. IsSequence(kept) /\ Len(kept) \in Nat /\ DOMAIN kept = 1..Len(kept)
    BY <1>3, OfItsElements
<1>6. \A j \in DOMAIN kept : p[j] \in DOMAIN cases /\ p[j] \in P /\ kept[j] = cases[p[j]] /\ p[j] \in Nat
    BY <1>1, <1>4, <1>5 DEF PicksAt
<1>7. HasStatuses(kept)
    BY <1>6 DEF HasStatuses
<1>8. \A j \in DOMAIN kept : cases[p[j]].status \in NonPassingStatuses
    BY <1>6 DEF P
<1>9. "pass" \notin NonPassingStatuses /\ "absent" \notin NonPassingStatuses
    BY DEF NonPassingStatuses
<1>10. CASE n \notin NamesOf(cases)
    <2>1. n \notin NamesOf(kept)
        BY <1>6, <1>10 DEF NamesOf
    <2> QED BY <1>5, <1>7, <1>9, <1>10, <2>1, StatusOfLast DEF kept
<1>11. CASE n \in NamesOf(cases)
    <2>1. PICK l : IsLast(l, cases, n)
        BY <1>11, SomeIsLast
    <2>2. status = cases[l].status /\ l \in DOMAIN cases /\ cases[l].name = n
        BY <2>1, StatusOfLast DEF IsLast
    <2>3. CASE cases[l].status \in NonPassingStatuses
        <3>1. l \in P /\ l \in 1..Len(cases)
            BY <1>1, <2>2, <2>3 DEF P
        <3>2. PICK j \in 1..Len(kept) : p[j] = l
            BY <1>4, <3>1 DEF PicksAt
        <3>3. IsLast(j, kept, n)
            <4>1. j \in DOMAIN kept /\ kept[j].name = n
                BY <1>5, <1>6, <2>2, <3>2
            <4>2. ASSUME NEW k \in DOMAIN kept, kept[k].name = n PROVE k <= j
                <5>1. p[k] \in DOMAIN cases /\ cases[p[k]].name = n
                    BY <1>6, <4>2
                <5>2. p[k] <= l
                    BY <2>1, <5>1 DEF IsLast
                <5>3. j < k => p[j] < p[k]
                    BY <1>4, <1>5, <3>2 DEF PicksAt
                <5>4. p[j] \in Nat /\ p[k] \in Nat
                    BY <1>6, <4>1
                <5> QED BY <1>5, <3>2, <5>2, <5>3, <5>4
            <4> QED BY <4>1, <4>2 DEF IsLast
        <3>4. StatusNamed(kept, n) = kept[j].status
            BY <1>5, <3>3, StatusOfLast
        <3>5. kept[j] = cases[l]
            BY <1>5, <1>6, <3>2
        <3> QED BY <1>5, <1>7, <2>2, <2>3, <3>4, <3>5 DEF kept
    <2>4. CASE cases[l].status \notin NonPassingStatuses
        <3>1. cases[l].status = "pass"
            BY <2>2, <2>4 DEF HasStatuses
        <3>2. \A j \in DOMAIN cases : cases[j].name = n => j = l
            BY <2>2, <3>1
        <3>3. n \notin NamesOf(kept)
            BY <1>6, <1>8, <2>4, <3>2 DEF NamesOf
        <3>4. StatusNamed(kept, n) = "absent"
            BY <1>5, <3>3, StatusOfLast
        <3> QED BY <1>5, <1>7, <2>2, <2>4, <3>4 DEF kept
    <2> QED BY <2>3, <2>4
<1> QED BY <1>10, <1>11

-----------------------------------------------------------------------------
(* The deltas of two suites, from how each test ended in them. *)
LEMMA DeltasOfEndings ==
    ASSUME NEW candidate, IsSequence(candidate.cases), HasStatuses(candidate.cases), HasAllCases(candidate),
           NEW baseline, IsSequence(baseline.cases), HasStatuses(baseline.cases), NEW n,
           HasAllCases(baseline) \/ StatusNamed(baseline.cases, n) \in NonPassingStatuses \cup {"absent"}
    PROVE  LET new == StatusNamed(candidate.cases, n)
               old == StatusNamed(baseline.cases, n)
               deltas == SuiteDeltas(candidate, baseline)
           IN /\ n \in deltas.new_non_passing
                    <=> new \in NonPassingStatuses /\ old \notin NonPassingStatuses
              /\ n \in deltas.still_non_passing <=> old \in NonPassingStatuses /\ new = old
              /\ n \in deltas.no_longer_non_passing <=> old \in NonPassingStatuses /\ new = "pass"
              /\ n \in deltas.changed_non_passing
                    <=> old \in NonPassingStatuses /\ new \notin {"pass", old}
<1> DEFINE new == StatusNamed(candidate.cases, n)
           old == StatusNamed(baseline.cases, n)
           new_map == CaseMap(candidate)
           old_map == CaseMap(baseline)
           both == Failing(new_map) \cap Failing(old_map)
           same == {m \in both : new_map[m].status = old_map[m].status}
           deltas == SuiteDeltas(candidate, baseline)
<1>1. /\ n \in DOMAIN new_map <=> new # "absent"
      /\ n \in DOMAIN new_map => new_map[n].status = new
      /\ n \in Failing(new_map) <=> new \in NonPassingStatuses
      /\ new \in NonPassingStatuses \cup {"pass", "absent"}
    BY MapsHaveTheLast
<1>2. /\ n \in DOMAIN old_map <=> old # "absent"
      /\ n \in DOMAIN old_map => old_map[n].status = old
      /\ n \in Failing(old_map) <=> old \in NonPassingStatuses
      /\ old \in NonPassingStatuses \cup {"pass", "absent"}
    BY MapsHaveTheLast
<1>3. "pass" \notin NonPassingStatuses /\ "absent" \notin NonPassingStatuses
    BY DEF NonPassingStatuses
<1>4. deltas = [new_non_passing |->
            {m \in Failing(new_map) \ Failing(old_map) : HasAllCases(baseline) \/ m \notin DOMAIN old_map},
        no_longer_non_passing |-> (DOMAIN new_map \ Failing(new_map)) \cap Failing(old_map),
        changed_non_passing |->
            (both \ same) \cup (IF HasAllCases(candidate) THEN Failing(old_map) \ DOMAIN new_map ELSE {}),
        still_non_passing |-> same]
    BY DEF SuiteDeltas
<1>5. n \in same <=> old \in NonPassingStatuses /\ new = old
    <2> HIDE DEF new_map, old_map, new, old
    <2> QED BY <1>1, <1>2, <1>3
<1> HIDE DEF new_map, old_map, new, old, deltas, same
<1>6. /\ n \in both <=> new \in NonPassingStatuses /\ old \in NonPassingStatuses
    BY <1>1, <1>2
<1> HIDE DEF both
<1>7. /\ deltas.new_non_passing =
            {m \in Failing(new_map) \ Failing(old_map) : HasAllCases(baseline) \/ m \notin DOMAIN old_map}
      /\ deltas.no_longer_non_passing = (DOMAIN new_map \ Failing(new_map)) \cap Failing(old_map)
      /\ deltas.changed_non_passing = (both \ same) \cup (Failing(old_map) \ DOMAIN new_map)
      /\ deltas.still_non_passing = same
    BY <1>4
<1>8. n \in deltas.new_non_passing <=> new \in NonPassingStatuses /\ old \notin NonPassingStatuses
    BY <1>1, <1>2, <1>3, <1>7 DEF old
<1>9. n \in deltas.still_non_passing <=> old \in NonPassingStatuses /\ new = old
    BY <1>5, <1>7
<1>10. n \in deltas.no_longer_non_passing <=> old \in NonPassingStatuses /\ new = "pass"
    BY <1>1, <1>2, <1>3, <1>7
<1>11. n \in deltas.changed_non_passing <=> old \in NonPassingStatuses /\ new \notin {"pass", old}
    BY <1>1, <1>2, <1>3, <1>5, <1>6, <1>7
<1> QED BY <1>8, <1>9, <1>10, <1>11 DEF new, old, deltas

LEMMA EndingIsStatus ==
    ASSUME NEW raw, NEW s, NEW n
    PROVE  Ending(raw, s, n) = StatusNamed(CasesOf(s, raw.lines[s], TRUE), n)
BY DEF Ending, StatusNamed

(* A suite of the report tells how each of its tests ended, or that it did *)
(* not fail.                                                               *)
LEMMA KeptCasesTellEndings ==
    ASSUME NEW raw \in Results, NEW s \in SuiteKeys, NEW markers, NEW suite, NEW n,
           KeepsOf(suite, s, CasesOf(s, raw.lines[s], markers))
    PROVE  LET old == Ending(raw, s, n)
               kept == StatusNamed(suite.cases, n)
           IN /\ IsSequence(suite.cases) /\ HasStatuses(suite.cases)
              /\ kept \in NonPassingStatuses <=> old \in NonPassingStatuses
              /\ kept \in NonPassingStatuses => kept = old
              /\ HasAllCases(suite) \/ kept \in NonPassingStatuses \cup {"absent"}
<1> DEFINE lines == raw.lines[s]
           cases == CasesOf(s, lines, markers)
           old == Ending(raw, s, n)
           kept == StatusNamed(suite.cases, n)
<1>1. IsSequence(lines)
    BY LinesAreSequences
<1>2. IsSequence(cases) /\ HasStatuses(cases)
    <2> HIDE DEF lines
    <2> QED BY <1>1, CasesOfLines, CasesHaveStatuses
<1>3. old = StatusNamed(cases, n)
    <2>1. old = StatusNamed(CasesOf(s, lines, TRUE), n)
        BY EndingIsStatus
    <2> DEFINE yes == TRUE
    <2>2. old = StatusNamed(CasesOf(s, lines, yes), n)
        BY <2>1
    <2> HIDE DEF lines, yes, old
    <2> QED BY <1>1, <2>2, EndingsIgnoreMarkers
<1>4. CASE s = "mint"
    <2>1. suite.cases = cases /\ suite.strategy = "all"
        BY <1>4 DEF KeepsOf
    <2>2. HasAllCases(suite)
        BY <2>1 DEF HasAllCases
    <2> HIDE DEF cases, old
    <2> QED BY <1>2, <1>3, <2>1, <2>2 DEF old
<1>5. CASE s # "mint"
    <2>0. s = "s3_tests" /\ suite.cases = NonPassing(cases)
        BY <1>5 DEF SuiteKeys, KeepsOf
    <2>1. \A i, j \in DOMAIN cases : i # j /\ cases[i].name = cases[j].name => cases[i].status # "pass"
        <3>1. /\ DOMAIN cases = 1..Len(lines)
              /\ \A i \in DOMAIN cases : cases[i] = CaseOf(s, lines[i], markers)
            <4>1. Parsed(s, lines) = lines
                BY <1>5 DEF Parsed
            <4>2. /\ DOMAIN cases = 1..Len(cases) /\ Len(cases) = Len(Parsed(s, lines))
                  /\ \A i \in DOMAIN cases : cases[i] = CaseOf(s, Parsed(s, lines)[i], markers)
                <5> HIDE DEF lines
                <5> QED BY <1>1, CasesOfLines
            <4> HIDE DEF lines, cases
            <4> QED BY <4>1, <4>2
        <3>2. DOMAIN lines = 1..Len(lines)
            <4> HIDE DEF lines
            <4> QED BY <1>1 DEF IsSequence
        <3>3. \A i, j \in DOMAIN lines : i # j /\ lines[i].name = lines[j].name
                => S3Status(lines[i].outcome) # "pass"
            BY <2>0, FailuresAreRepeated
        <3>4. \A i \in DOMAIN cases : cases[i].name = lines[i].name /\ cases[i].status = S3Status(lines[i].outcome)
            <4>1. \A line : /\ CaseOf(s, line, markers).name = line.name
                            /\ CaseOf(s, line, markers).status = S3Status(line.outcome)
                BY <1>5 DEF CaseOf, StatusOf
            <4> HIDE DEF cases, lines
            <4> QED BY <3>1, <4>1
        <3> HIDE DEF cases, lines
        <3> QED BY <3>1, <3>2, <3>3, <3>4
    <2> HIDE DEF cases, old
    <2> DEFINE status == StatusNamed(cases, n)
               part == NonPassing(cases)
    <2>2. /\ IsSequence(part) /\ HasStatuses(part)
          /\ StatusNamed(part, n) = IF status \in NonPassingStatuses THEN status ELSE "absent"
        BY <1>2, <2>1, NonPassingTellEndings
    <2>3. "absent" \notin NonPassingStatuses
        BY DEF NonPassingStatuses
    <2> HIDE DEF status, part
    <2>4. suite.cases = part /\ old = status
        BY <1>3, <2>0 DEF part, status
    <2> QED BY <2>2, <2>3, <2>4 DEF old
<1> QED BY <1>4, <1>5

LEMMA WholeSuites ==
    ASSUME NEW s, NEW lines, NEW exit
    PROVE  LET suite == Suite(s, lines, exit, TRUE, TRUE)
           IN suite.cases = CasesOf(s, lines, TRUE) /\ HasAllCases(suite)
<1> DEFINE cases == CasesOf(s, lines, TRUE)
           features == FeatureSummaries(cases)
           suite == Suite(s, lines, exit, TRUE, TRUE)
<1>1. suite = [status |-> IF cases # << >> THEN "completed" ELSE IF exit # 0 THEN "error" ELSE "not_run",
               exit |-> exit, summary |-> Summary(cases), features |-> features,
               strategy |-> "all", cases |-> cases]
    BY DEF Suite
<1> HIDE DEF suite, cases, features
<1>2. suite.cases = cases /\ suite.strategy = "all"
    BY <1>1
<1> QED BY <1>2 DEF HasAllCases, suite, cases

(* The comment on a pull request is true of the two runs it compares.      *)
THEOREM CommentsAreTrue == ReportSpec => []CommentIsTrue
<1>1. ReportInv => CommentIsTrue
    <2> SUFFICES ASSUME ReportInv, comment.baseline # 0, NEW s \in SuiteKeys, NEW n \in DOMAIN FeaturesOf
                 PROVE  LET new == Ending(comment.raw, s, n)
                            old == Ending(recorded[comment.baseline], s, n)
                            deltas == comment.deltas[s]
                        IN /\ n \in deltas.new_non_passing
                                <=> new \in NonPassingStatuses /\ old \notin NonPassingStatuses
                           /\ n \in deltas.still_non_passing <=> old \in NonPassingStatuses /\ new = old
                           /\ n \in deltas.no_longer_non_passing <=> old \in NonPassingStatuses /\ new = "pass"
                           /\ n \in deltas.changed_non_passing
                                <=> old \in NonPassingStatuses /\ new \notin {"pass", old}
        BY DEF CommentIsTrue
    <2> DEFINE b == comment.baseline
               raw == comment.raw
               candidate == NormalizedRun(0, raw, TRUE).suites[s]
               baseline == Existing(page)[b].suites[s]
               new == Ending(raw, s, n)
               old == Ending(recorded[b], s, n)
               kept == StatusNamed(baseline.cases, n)
               deltas == comment.deltas[s]
    <2>1. b \in DOMAIN recorded /\ raw \in Candidates /\ deltas = SuiteDeltas(candidate, baseline)
        <3>1. comment # NoComment
            BY DEF NoComment
        <3>2. /\ comment.baseline \in DOMAIN recorded /\ comment.raw \in Candidates
              /\ comment.deltas = [t \in SuiteKeys |->
                    SuiteDeltas(NormalizedRun(0, comment.raw, TRUE).suites[t],
                                Existing(page)[comment.baseline].suites[t])]
            BY <3>1 DEF ReportInv, CommentInv
        <3>3. comment.deltas[s] = SuiteDeltas(NormalizedRun(0, comment.raw, TRUE).suites[s],
                                              Existing(page)[comment.baseline].suites[s])
            BY <3>2
        <3> QED BY <3>2, <3>3
    <2>2. candidate = Suite(s, raw.lines[s], raw.exit[s], TRUE, TRUE)
        BY DEF NormalizedRun
    <2>3. candidate.cases = CasesOf(s, raw.lines[s], TRUE) /\ HasAllCases(candidate)
        BY <2>2, WholeSuites
    <2>4. IsSequence(candidate.cases) /\ HasStatuses(candidate.cases) /\ new = StatusNamed(candidate.cases, n)
        <3> DEFINE lines == raw.lines[s]
                   yes == TRUE
        <3>1. IsSequence(lines)
            BY <2>1, LinesAreSequences
        <3> HIDE DEF lines, yes
        <3>2. IsSequence(CasesOf(s, lines, yes)) /\ HasStatuses(CasesOf(s, lines, yes))
            BY <3>1, CasesOfLines, CasesHaveStatuses
        <3>3. new = StatusNamed(CasesOf(s, lines, yes), n)
            BY EndingIsStatus DEF lines, yes
        <3>4. candidate.cases = CasesOf(s, lines, yes)
            BY <2>3 DEF lines, yes
        <3> HIDE DEF new, candidate
        <3> QED BY <3>2, <3>3, <3>4
    <2>5. PICK markers \in BOOLEAN : KeepsOf(baseline, s, CasesOf(s, recorded[b].lines[s], markers))
        BY <2>1 DEF ReportInv, RunsInv, IsOf
    <2>6. recorded[b] \in Results
        BY <2>1 DEF ReportInv, RunsInv
    <2> HIDE DEF baseline, candidate, new
    <2>7. /\ IsSequence(baseline.cases) /\ HasStatuses(baseline.cases)
          /\ kept \in NonPassingStatuses <=> old \in NonPassingStatuses
          /\ kept \in NonPassingStatuses => kept = old
          /\ HasAllCases(baseline) \/ kept \in NonPassingStatuses \cup {"absent"}
        BY <2>5, <2>6, KeptCasesTellEndings
    <2> HIDE DEF old, deltas
    <2> DEFINE of == SuiteDeltas(candidate, baseline)
    <2>8. /\ n \in of.new_non_passing <=> new \in NonPassingStatuses /\ kept \notin NonPassingStatuses
          /\ n \in of.still_non_passing <=> kept \in NonPassingStatuses /\ new = kept
          /\ n \in of.no_longer_non_passing <=> kept \in NonPassingStatuses /\ new = "pass"
          /\ n \in of.changed_non_passing <=> kept \in NonPassingStatuses /\ new \notin {"pass", kept}
        <3> DEFINE fresh == StatusNamed(candidate.cases, n)
        <3>1. /\ n \in of.new_non_passing <=> fresh \in NonPassingStatuses /\ kept \notin NonPassingStatuses
              /\ n \in of.still_non_passing <=> kept \in NonPassingStatuses /\ fresh = kept
              /\ n \in of.no_longer_non_passing <=> kept \in NonPassingStatuses /\ fresh = "pass"
              /\ n \in of.changed_non_passing <=> kept \in NonPassingStatuses /\ fresh \notin {"pass", kept}
            BY <2>3, <2>4, <2>7, DeltasOfEndings
        <3> HIDE DEF of, kept
        <3> QED BY <2>4, <3>1
    <2>9. deltas = of
        BY <2>1
    <2> HIDE DEF of, kept
    <2>10. /\ n \in deltas.new_non_passing <=> new \in NonPassingStatuses /\ old \notin NonPassingStatuses
           /\ n \in deltas.still_non_passing <=> old \in NonPassingStatuses /\ new = old
           /\ n \in deltas.no_longer_non_passing <=> old \in NonPassingStatuses /\ new = "pass"
           /\ n \in deltas.changed_non_passing <=> old \in NonPassingStatuses /\ new \notin {"pass", old}
        BY <2>7, <2>8, <2>9
    <2> QED BY <2>10 DEF new, old, deltas
<1> QED BY <1>1, ReportInvariant, PTL

-----------------------------------------------------------------------------
SameEnding(c, d) == c.name = d.name /\ c.status = d.status /\ c.message = d.message

(* The cases that a suite keeps end as its lines do, all that did not pass *)
(* are kept, and a name decides the features.                              *)
LEMMA KeptCasesAreOfLines ==
    ASSUME NEW s, NEW lines, IsSequence(lines), NEW markers, NEW others, NEW suite,
           KeepsOf(suite, s, CasesOf(s, lines, markers))
    PROVE  LET all == CasesOf(s, lines, others)
               kept == suite.cases
           IN /\ IsSequence(kept)
              /\ \A i \in DOMAIN kept : \E j \in DOMAIN all : SameEnding(kept[i], all[j])
              /\ \A j \in DOMAIN all : all[j].status # "pass" => \E i \in DOMAIN kept : SameEnding(kept[i], all[j])
              /\ \A i, j \in DOMAIN kept : kept[i].name = kept[j].name => kept[i].features = kept[j].features
<1> DEFINE all == CasesOf(s, lines, others)
           cases == CasesOf(s, lines, markers)
           kept == suite.cases
           P == {i \in DOMAIN cases : cases[i].status \in NonPassingStatuses}
           S == {cases[i] : i \in DOMAIN cases}
<1>1. /\ DOMAIN all = 1..Len(Parsed(s, lines))
      /\ \A i \in DOMAIN all : all[i] = CaseOf(s, Parsed(s, lines)[i], others)
    BY CasesOfLines
<1>2. /\ IsSequence(cases) /\ DOMAIN cases = 1..Len(Parsed(s, lines))
      /\ \A i \in DOMAIN cases : cases[i] = CaseOf(s, Parsed(s, lines)[i], markers)
    BY CasesOfLines
<1>3. HasStatuses(cases)
    BY CasesHaveStatuses
<1> DEFINE F(n) == IF s = "mint" \/ markers THEN FeaturesOf[n] ELSE {FileFeature}
<1>4. /\ DOMAIN all = DOMAIN cases
      /\ \A i \in DOMAIN cases : SameEnding(cases[i], all[i]) /\ cases[i].features = F(cases[i].name)
    <2>1. \A line : /\ CaseOf(s, line, markers).name = line.name /\ CaseOf(s, line, others).name = line.name
                    /\ CaseOf(s, line, markers).status = CaseOf(s, line, others).status
                    /\ CaseOf(s, line, markers).message = CaseOf(s, line, others).message
                    /\ CaseOf(s, line, markers).features = F(line.name)
        BY DEF CaseOf
    <2> HIDE DEF all, cases, F
    <2>2. ASSUME NEW i \in DOMAIN cases
          PROVE  SameEnding(cases[i], all[i]) /\ cases[i].features = F(cases[i].name)
        <3> DEFINE line == Parsed(s, lines)[i]
        <3>1. cases[i] = CaseOf(s, line, markers) /\ all[i] = CaseOf(s, line, others)
            BY <1>1, <1>2
        <3> HIDE DEF line
        <3>2. /\ cases[i].name = line.name /\ all[i].name = line.name
              /\ cases[i].status = all[i].status /\ cases[i].message = all[i].message
              /\ cases[i].features = F(line.name)
            <4>1. /\ CaseOf(s, line, markers).name = line.name /\ CaseOf(s, line, others).name = line.name
                  /\ CaseOf(s, line, markers).status = CaseOf(s, line, others).status
                  /\ CaseOf(s, line, markers).message = CaseOf(s, line, others).message
                  /\ CaseOf(s, line, markers).features = F(line.name)
                BY <2>1
            <4> QED BY <3>1, <4>1, Zenon
        <3>3. SameEnding(cases[i], all[i])
            BY <3>2 DEF SameEnding
        <3> QED BY <3>2, <3>3, Zenon
    <2> QED BY <1>1, <1>2, <2>2
<1>5. IsSequence(kept)
      /\ \E p : /\ p \in [DOMAIN kept -> DOMAIN cases]
                /\ \A i \in DOMAIN kept : kept[i] = cases[p[i]]
                /\ \A j \in DOMAIN cases : cases[j].status # "pass" => \E i \in DOMAIN kept : p[i] = j
    <2>1. CASE s = "mint"
        <3>1. kept = cases
            BY <2>1 DEF KeepsOf
        <3> DEFINE p == [i \in DOMAIN cases |-> i]
        <3> HIDE DEF cases, kept
        <3>2. /\ p \in [DOMAIN kept -> DOMAIN cases]
              /\ \A i \in DOMAIN kept : kept[i] = cases[p[i]]
              /\ \A j \in DOMAIN cases : cases[j].status # "pass" => \E i \in DOMAIN kept : p[i] = j
            BY <3>1
        <3> HIDE DEF p
        <3> QED BY <1>2, <3>1, <3>2
    <2>2. CASE s # "mint"
        <3>1. kept = Picked(cases, P)
            BY <2>2 DEF KeepsOf, NonPassing, With
        <3>2. cases \in Seq(S) /\ DOMAIN cases = 1..Len(cases)
            <4> HIDE DEF cases
            <4> QED BY <1>2 DEF IsSequence
        <3> HIDE DEF cases, kept, S
        <3>3. \A j \in DOMAIN cases : cases[j].status # "pass" => j \in P
            BY <1>3 DEF HasStatuses
        <3> HIDE DEF P
        <3>4. kept \in Seq(S) /\ \E p : PicksAt(p, kept, cases, P)
            BY <3>1, <3>2, PickedSelects
        <3>5. PICK p : PicksAt(p, kept, cases, P)
            BY <3>4
        <3>6. IsSequence(kept) /\ DOMAIN kept = 1..Len(kept)
            BY <3>4, OfItsElements
        <3>7. /\ p \in [DOMAIN kept -> DOMAIN cases]
              /\ \A i \in DOMAIN kept : kept[i] = cases[p[i]]
            BY <3>2, <3>5, <3>6 DEF PicksAt
        <3>8. \A j \in DOMAIN cases : cases[j].status # "pass" => \E i \in DOMAIN kept : p[i] = j
            BY <3>2, <3>3, <3>5, <3>6 DEF PicksAt
        <3> QED BY <3>6, <3>7, <3>8
    <2> QED BY <2>1, <2>2
<1> HIDE DEF all, cases, kept, F
<1>6. PICK p : /\ p \in [DOMAIN kept -> DOMAIN cases]
               /\ \A i \in DOMAIN kept : kept[i] = cases[p[i]]
               /\ \A j \in DOMAIN cases : cases[j].status # "pass" => \E i \in DOMAIN kept : p[i] = j
    BY <1>5
<1>7. \A i \in DOMAIN kept : \E j \in DOMAIN all : SameEnding(kept[i], all[j])
    BY <1>4, <1>6
<1>8. \A j \in DOMAIN all : all[j].status # "pass" => \E i \in DOMAIN kept : SameEnding(kept[i], all[j])
    BY <1>4, <1>6 DEF SameEnding
<1>9. \A i, j \in DOMAIN kept : kept[i].name = kept[j].name => kept[i].features = kept[j].features
    BY <1>4, <1>6
<1> QED BY <1>5, <1>7, <1>8, <1>9 DEF all, kept

-----------------------------------------------------------------------------
(* The search rows, by their keys. *)
KeysOf(runs, id) ==
    UNION {{Key(s, c) : c \in ToSet(CaseRows(runs[id], s))} : s \in DOMAIN runs[id].suites}
RunsWith(runs, k) == {id \in DOMAIN runs : k \in KeysOf(runs, id)}
RowOf(runs, k) ==
    LET ids == NewestFirst(RunsWith(runs, k))
        newest == CaseRows(runs[ids[1]], k.suite)
    IN [suite |-> k.suite, ids |-> ids,
        case |-> newest[SelectInSeq(newest, LAMBDA c : Key(k.suite, c) = k)]]

LEMMA RowsAreOfKeys ==
    ASSUME NEW runs
    PROVE  SearchRows(runs) = {RowOf(runs, k) : k \in UNION {KeysOf(runs, id) : id \in DOMAIN runs}}
BY DEF SearchRows, RowOf, RunsWith, KeysOf

LEMMA KeyParts ==
    ASSUME NEW s, NEW c
    PROVE  /\ Key(s, c).suite = s /\ Key(s, c).name = c.name /\ Key(s, c).status = c.status
           /\ Key(s, c).features = c.features /\ Key(s, c).content = Comparable[c.message]
BY DEF Key

LEMMA SameKey ==
    ASSUME NEW s, NEW c, NEW t, NEW d
    PROVE  Key(s, c) = Key(t, d) <=>
             /\ s = t /\ c.name = d.name /\ c.status = d.status /\ c.features = d.features
             /\ Comparable[c.message] = Comparable[d.message]
BY DEF Key

LEMMA KeysAreOfCases ==
    ASSUME NEW runs, NEW id
    PROVE  \A k : k \in KeysOf(runs, id) <=>
             \E s \in DOMAIN runs[id].suites : \E j \in DOMAIN runs[id].suites[s].cases :
                k = Key(s, runs[id].suites[s].cases[j])
BY DEF KeysOf, ToSet, CaseRows

LEMMA RowHasItsKey ==
    ASSUME NEW runs, DOMAIN runs \in SUBSET Int, IsFiniteSet(DOMAIN runs),
           \A id \in DOMAIN runs : \A s \in DOMAIN runs[id].suites : IsSequence(runs[id].suites[s].cases),
           NEW k \in UNION {KeysOf(runs, id) : id \in DOMAIN runs}
    PROVE  LET row == RowOf(runs, k)
           IN /\ row.suite = k.suite /\ Key(row.suite, row.case) = k
              /\ row.ids \in Seq(RunsWith(runs, k)) /\ 1 \in DOMAIN row.ids
              /\ \A i \in 1..Len(row.ids) - 1 : row.ids[i] > row.ids[i + 1]
              /\ \A id \in RunsWith(runs, k) : id \in ToSet(row.ids)
              /\ row.suite \in DOMAIN runs[row.ids[1]].suites
              /\ \E j \in DOMAIN runs[row.ids[1]].suites[row.suite].cases :
                    row.case = runs[row.ids[1]].suites[row.suite].cases[j]
<1> DEFINE H == RunsWith(runs, k)
           ids == NewestFirst(H)
           newest == CaseRows(runs[ids[1]], k.suite)
           I == {j \in 1..Len(newest) : Key(k.suite, newest[j]) = k}
           at == SelectInSeq(newest, LAMBDA c : Key(k.suite, c) = k)
           row == RowOf(runs, k)
<1>1. H \in SUBSET Int /\ IsFiniteSet(H) /\ H # {} /\ H \subseteq DOMAIN runs
    <2>1. H \in SUBSET DOMAIN runs /\ H # {}
        BY DEF RunsWith
    <2> HIDE DEF H
    <2> QED BY <2>1, FS_Subset
<1> HIDE DEF H
<1>2. /\ ids \in Seq(H) /\ Len(ids) = Cardinality(H)
      /\ \A i, j \in 1..Cardinality(H) : i < j => ids[i] > ids[j]
      /\ \A x \in H : \E i \in 1..Cardinality(H) : ids[i] = x
    BY <1>1, DescendingOrder DEF NewestFirst
<1>3. ids[1] \in H
    BY <1>1, NewestIsOne
<1>4. Cardinality(H) \in Nat /\ Cardinality(H) # 0
    BY <1>1, FS_CardinalityType, FS_EmptySet
<1>5. row = [suite |-> k.suite, ids |-> ids, case |-> newest[at]]
    BY DEF RowOf, H
<1> HIDE DEF ids
<1>6. PICK s \in DOMAIN runs[ids[1]].suites : \E j \in DOMAIN runs[ids[1]].suites[s].cases :
                k = Key(s, runs[ids[1]].suites[s].cases[j])
    BY <1>3, KeysAreOfCases DEF H, RunsWith
<1>7. k.suite = s /\ newest = runs[ids[1]].suites[s].cases
    <2>1. PICK j \in DOMAIN runs[ids[1]].suites[s].cases : k = Key(s, runs[ids[1]].suites[s].cases[j])
        BY <1>6
    <2> DEFINE c == runs[ids[1]].suites[s].cases[j]
    <2>2. k = Key(s, c)
        BY <2>1
    <2> HIDE DEF c
    <2>3. k.suite = s
        BY <2>2, KeyParts
    <2>4. newest = runs[ids[1]].suites[k.suite].cases
        BY DEF CaseRows
    <2> HIDE DEF newest
    <2> QED BY <2>3, <2>4
<1>8. IsSequence(newest)
    BY <1>1, <1>3, <1>6, <1>7
<1>9. at = IF I # {} THEN Min(I) ELSE 0
    BY DEF SelectInSeq
<1> HIDE DEF newest, at, row
<1>10. Len(newest) \in Nat /\ DOMAIN newest = 1..Len(newest)
    BY <1>8 DEF IsSequence
<1>11. I # {} /\ I \in SUBSET Nat
    <2>1. PICK j \in DOMAIN runs[ids[1]].suites[s].cases : k = Key(s, runs[ids[1]].suites[s].cases[j])
        BY <1>6
    <2>2. j \in 1..Len(newest) /\ newest[j] = runs[ids[1]].suites[s].cases[j]
        BY <1>7, <1>10, <2>1, Zenon
    <2>3. Key(k.suite, newest[j]) = k
        BY <1>7, <2>1, <2>2, Zenon
    <2>4. j \in I
        BY <2>2, <2>3, Zenon
    <2> QED BY <1>10, <2>4
<1>12. at \in DOMAIN newest /\ Key(k.suite, newest[at]) = k
    <2>1. \A j \in I : j \in DOMAIN newest /\ Key(k.suite, newest[j]) = k
        BY <1>10
    <2> HIDE DEF I
    <2>2. at \in I
        BY <1>9, <1>11, MinIsLeast
    <2> QED BY <2>1, <2>2
<1>13. row.suite = s /\ row.ids = ids /\ row.case = newest[at]
    BY <1>5, <1>7
<1>14. \A i \in 1..Len(ids) - 1 : ids[i] > ids[i + 1]
    <2> SUFFICES ASSUME NEW i \in 1..Len(ids) - 1 PROVE ids[i] > ids[i + 1]
        OBVIOUS
    <2>1. i \in 1..Cardinality(H) /\ i + 1 \in 1..Cardinality(H) /\ i < i + 1
        BY <1>2, <1>4
    <2> QED BY <1>2, <2>1
<1>15. DOMAIN ids = 1..Cardinality(H) /\ 1 \in DOMAIN ids
    BY <1>2, <1>4
<1>16. \A id \in H : id \in ToSet(ids)
    BY <1>2, <1>15 DEF ToSet
<1> QED BY <1>2, <1>6, <1>7, <1>12, <1>13, <1>14, <1>15, <1>16 DEF H, row

-----------------------------------------------------------------------------
(* What the proof needs of the published runs. *)
LEMMA PublishedCases ==
    ASSUME ReportInv, NEW id \in DOMAIN recorded, NEW s \in SuiteKeys
    PROVE  LET all == CasesOf(s, recorded[id].lines[s], TRUE)
               kept == Existing(page)[id].suites[s].cases
           IN /\ IsSequence(kept)
              /\ \A i \in DOMAIN kept : \E c \in ToSet(all) : SameEnding(kept[i], c)
              /\ \A c \in ToSet(all) : c.status # "pass" => \E i \in DOMAIN kept : SameEnding(kept[i], c)
              /\ \A i, j \in DOMAIN kept : kept[i].name = kept[j].name => kept[i].features = kept[j].features
<1> DEFINE lines == recorded[id].lines[s]
           yes == TRUE
           all == CasesOf(s, lines, yes)
           suite == Existing(page)[id].suites[s]
<1>1. IsSequence(lines) /\ IsOf(Existing(page)[id], id, recorded[id])
    BY LinesAreSequences DEF ReportInv, RunsInv
<1>2. PICK markers \in BOOLEAN : KeepsOf(suite, s, CasesOf(s, lines, markers))
    BY <1>1 DEF IsOf
<1> HIDE DEF lines, suite, yes
<1>3. /\ IsSequence(suite.cases)
      /\ \A i \in DOMAIN suite.cases : \E j \in DOMAIN all : SameEnding(suite.cases[i], all[j])
      /\ \A j \in DOMAIN all : all[j].status # "pass" => \E i \in DOMAIN suite.cases : SameEnding(suite.cases[i], all[j])
      /\ \A i, j \in DOMAIN suite.cases :
            suite.cases[i].name = suite.cases[j].name => suite.cases[i].features = suite.cases[j].features
    BY <1>1, <1>2, KeptCasesAreOfLines
<1> HIDE DEF all
<1>4. /\ \A i \in DOMAIN suite.cases : \E c \in ToSet(all) : SameEnding(suite.cases[i], c)
      /\ \A c \in ToSet(all) : c.status # "pass" => \E i \in DOMAIN suite.cases : SameEnding(suite.cases[i], c)
    BY <1>3 DEF ToSet
<1> QED BY <1>3, <1>4 DEF all, lines, suite, yes

AllKeys(runs) == UNION {KeysOf(runs, id) : id \in DOMAIN runs}

(* The row of a key, in the published report. *)
LEMMA PublishedRow ==
    ASSUME ReportInv, NEW k \in AllKeys(Existing(page))
    PROVE  LET runs == Existing(page)
               row == RowOf(runs, k)
           IN /\ row.suite = k.suite /\ Key(row.suite, row.case) = k
              /\ row.ids \in Seq(RunsWith(runs, k)) /\ 1 \in DOMAIN row.ids
              /\ \A i \in 1..Len(row.ids) - 1 : row.ids[i] > row.ids[i + 1]
              /\ \A id \in RunsWith(runs, k) : id \in ToSet(row.ids)
              /\ row.suite \in SuiteKeys
              /\ \E j \in DOMAIN runs[row.ids[1]].suites[row.suite].cases :
                    row.case = runs[row.ids[1]].suites[row.suite].cases[j]
<1> DEFINE runs == Existing(page)
           row == RowOf(runs, k)
<1>1. DOMAIN runs = DOMAIN recorded
    BY DEF ReportInv, RunsInv
<1>2. \A id \in DOMAIN runs : DOMAIN runs[id].suites = SuiteKeys
    BY <1>1 DEF ReportInv, RunsInv, IsRun
<1>3. \A id \in DOMAIN runs : \A s \in DOMAIN runs[id].suites : IsSequence(runs[id].suites[s].cases)
    BY <1>1, <1>2, PublishedCases
<1> HIDE DEF runs
<1>4. DOMAIN runs \in SUBSET Int /\ IsFiniteSet(DOMAIN runs)
    BY <1>1, RunsAreNumbers DEF ReportInv
<1>5. k \in UNION {KeysOf(runs, id) : id \in DOMAIN runs}
    BY DEF AllKeys, runs
<1>6. /\ row.suite = k.suite /\ Key(row.suite, row.case) = k
      /\ row.ids \in Seq(RunsWith(runs, k)) /\ 1 \in DOMAIN row.ids
      /\ \A i \in 1..Len(row.ids) - 1 : row.ids[i] > row.ids[i + 1]
      /\ \A id \in RunsWith(runs, k) : id \in ToSet(row.ids)
      /\ row.suite \in DOMAIN runs[row.ids[1]].suites
      /\ \E j \in DOMAIN runs[row.ids[1]].suites[row.suite].cases :
            row.case = runs[row.ids[1]].suites[row.suite].cases[j]
    BY <1>3, <1>4, <1>5, RowHasItsKey
<1> HIDE DEF row
<1>7. row.suite \in SuiteKeys
    <2>1. row.ids[1] \in DOMAIN runs
        <3>1. row.ids[1] \in RunsWith(runs, k)
            BY <1>6
        <3> QED BY <3>1 DEF RunsWith
    <2> QED BY <1>2, <1>6, <2>1
<1> QED BY <1>6, <1>7 DEF row, runs

LEMMA PublishedKeys ==
    ASSUME ReportInv, NEW id \in DOMAIN recorded
    PROVE  \A k : k \in KeysOf(Existing(page), id) <=>
             \E s \in SuiteKeys : \E j \in DOMAIN Existing(page)[id].suites[s].cases :
                k = Key(s, Existing(page)[id].suites[s].cases[j])
<1> DEFINE runs == Existing(page)
<1>1. DOMAIN runs[id].suites = SuiteKeys
    BY DEF ReportInv, RunsInv, IsRun
<1> HIDE DEF runs
<1>2. \A k : k \in KeysOf(runs, id) <=>
             \E s \in SuiteKeys : \E j \in DOMAIN runs[id].suites[s].cases :
                k = Key(s, runs[id].suites[s].cases[j])
    BY <1>1, KeysAreOfCases
<1> QED BY <1>2 DEF runs

LEMMA RowsHaveTheirCases ==
    ASSUME ReportInv, NEW k \in AllKeys(Existing(page))
    PROVE  LET row == RowOf(Existing(page), k)
           IN \A i \in DOMAIN row.ids :
                \E c \in ToSet(CasesOf(row.suite, recorded[row.ids[i]].lines[row.suite], TRUE)) :
                    /\ c.name = row.case.name /\ c.status = row.case.status
                    /\ Comparable[c.message] = Comparable[row.case.message]
                    /\ i = 1 => c.message = row.case.message
<1> DEFINE runs == Existing(page)
           row == RowOf(runs, k)
<1>1. /\ row.suite = k.suite /\ Key(row.suite, row.case) = k
      /\ row.ids \in Seq(RunsWith(runs, k)) /\ row.suite \in SuiteKeys
      /\ \E j \in DOMAIN runs[row.ids[1]].suites[row.suite].cases :
            row.case = runs[row.ids[1]].suites[row.suite].cases[j]
    BY PublishedRow
<1>2. DOMAIN runs = DOMAIN recorded
    BY DEF ReportInv, RunsInv
<1>3. \A id \in DOMAIN recorded : \A l : l \in KeysOf(runs, id) <=>
             \E s \in SuiteKeys : \E j \in DOMAIN runs[id].suites[s].cases :
                l = Key(s, runs[id].suites[s].cases[j])
    BY PublishedKeys
<1>4. \A id \in DOMAIN recorded : \A s \in SuiteKeys : \A i \in DOMAIN runs[id].suites[s].cases :
            \E c \in ToSet(CasesOf(s, recorded[id].lines[s], TRUE)) : SameEnding(runs[id].suites[s].cases[i], c)
    BY PublishedCases
<1> HIDE DEF runs, row
<1>5. ASSUME NEW i \in DOMAIN row.ids
      PROVE  \E c \in ToSet(CasesOf(row.suite, recorded[row.ids[i]].lines[row.suite], TRUE)) :
                /\ c.name = row.case.name /\ c.status = row.case.status
                /\ Comparable[c.message] = Comparable[row.case.message]
                /\ i = 1 => c.message = row.case.message
    <2> DEFINE id == row.ids[i]
               cases == runs[id].suites[row.suite].cases
    <2>1. id \in RunsWith(runs, k)
        BY <1>1
    <2>2. id \in DOMAIN recorded /\ k \in KeysOf(runs, id)
        BY <1>2, <2>1 DEF RunsWith
    <2>3. PICK j \in DOMAIN cases : Key(row.suite, cases[j]) = k /\ (i = 1 => cases[j] = row.case)
        <3>1. CASE i = 1
            BY <1>1, <3>1
        <3>2. CASE i # 1
            <4>1. PICK s \in SuiteKeys : \E j \in DOMAIN runs[id].suites[s].cases :
                        k = Key(s, runs[id].suites[s].cases[j])
                BY <1>3, <2>2
            <4>2. PICK j \in DOMAIN runs[id].suites[s].cases : k = Key(s, runs[id].suites[s].cases[j])
                BY <4>1
            <4> DEFINE c == runs[id].suites[s].cases[j]
            <4>3. k = Key(s, c)
                BY <4>2
            <4> HIDE DEF c
            <4>4. s = row.suite
                BY <1>1, <4>3, KeyParts
            <4> QED BY <3>2, <4>2, <4>4
        <3> QED BY <3>1, <3>2
    <2>4. PICK c \in ToSet(CasesOf(row.suite, recorded[id].lines[row.suite], TRUE)) : SameEnding(cases[j], c)
        BY <1>1, <1>4, <2>2, <2>3
    <2> HIDE DEF cases
    <2>5. /\ cases[j].name = row.case.name /\ cases[j].status = row.case.status
          /\ Comparable[cases[j].message] = Comparable[row.case.message]
        <3> DEFINE d == cases[j]
                   e == row.case
        <3>1. Key(row.suite, d) = Key(row.suite, e)
            BY <1>1, <2>3
        <3> HIDE DEF d, e
        <3>2. /\ d.name = e.name /\ d.status = e.status
              /\ Comparable[d.message] = Comparable[e.message]
            BY <3>1, SameKey
        <3> QED BY <3>2 DEF d, e
    <2>6. /\ c.name = row.case.name /\ c.status = row.case.status
          /\ Comparable[c.message] = Comparable[row.case.message]
          /\ i = 1 => c.message = row.case.message
        BY <2>3, <2>4, <2>5 DEF SameEnding
    <2> QED BY <2>4, <2>6
<1> QED BY <1>5 DEF row, runs

LEMMA FailuresHaveOneRow ==
    ASSUME ReportInv, NEW id \in DOMAIN recorded, NEW s \in SuiteKeys,
           NEW c \in ToSet(CasesOf(s, recorded[id].lines[s], TRUE)), c.status # "pass"
    PROVE  LET rows == {RowOf(Existing(page), k) : k \in AllKeys(Existing(page))}
           IN Cardinality({row \in rows :
                  /\ id \in ToSet(row.ids) /\ row.suite = s
                  /\ row.case.name = c.name /\ row.case.status = c.status
                  /\ Comparable[row.case.message] = Comparable[c.message]}) = 1
<1> DEFINE runs == Existing(page)
           kept == runs[id].suites[s].cases
           Fits(row) == /\ id \in ToSet(row.ids) /\ row.suite = s
                        /\ row.case.name = c.name /\ row.case.status = c.status
                        /\ Comparable[row.case.message] = Comparable[c.message]
<1>1. PICK i \in DOMAIN kept : SameEnding(kept[i], c)
    BY PublishedCases
<1>2. \A l, j \in DOMAIN kept : kept[l].name = kept[j].name => kept[l].features = kept[j].features
    BY PublishedCases
<1>3. DOMAIN runs = DOMAIN recorded
    BY DEF ReportInv, RunsInv
<1>4. \A l : l \in KeysOf(runs, id) <=>
             \E t \in SuiteKeys : \E j \in DOMAIN runs[id].suites[t].cases :
                l = Key(t, runs[id].suites[t].cases[j])
    BY PublishedKeys
<1>5. \A k \in AllKeys(runs) :
        /\ RowOf(runs, k).suite = k.suite /\ Key(RowOf(runs, k).suite, RowOf(runs, k).case) = k
        /\ RowOf(runs, k).ids \in Seq(RunsWith(runs, k))
        /\ \A x \in RunsWith(runs, k) : x \in ToSet(RowOf(runs, k).ids)
    BY PublishedRow
<1> DEFINE e == kept[i]
           k0 == Key(s, e)
           row0 == RowOf(runs, k0)
<1>6. k0 \in KeysOf(runs, id)
    BY <1>1, <1>4
<1> HIDE DEF runs, kept
<1>7. k0 \in AllKeys(runs) /\ id \in RunsWith(runs, k0)
    BY <1>3, <1>6 DEF AllKeys, RunsWith
<1> HIDE DEF e, k0
<1>8. Fits(row0)
    <2>1. row0.suite = k0.suite /\ Key(row0.suite, row0.case) = k0 /\ id \in ToSet(row0.ids)
        BY <1>5, <1>7
    <2>2. k0 = Key(s, e) /\ SameEnding(e, c)
        BY <1>1 DEF k0, e
    <2> HIDE DEF row0
    <2>3. Key(row0.suite, row0.case) = Key(s, e)
        BY <2>1, <2>2
    <2>4. /\ row0.suite = s /\ row0.case.name = e.name /\ row0.case.status = e.status
          /\ Comparable[row0.case.message] = Comparable[e.message]
        BY <2>3, SameKey
    <2> QED BY <2>1, <2>2, <2>4 DEF SameEnding
<1>9. ASSUME NEW k \in AllKeys(runs), Fits(RowOf(runs, k)) PROVE k = k0
    <2> DEFINE row == RowOf(runs, k)
    <2>1. /\ row.suite = k.suite /\ Key(row.suite, row.case) = k /\ row.ids \in Seq(RunsWith(runs, k))
        BY <1>5
    <2> HIDE DEF row
    <2>2. Fits(row)
        BY <1>9 DEF row
    <2>3. id \in RunsWith(runs, k)
        <3>1. PICK x \in DOMAIN row.ids : row.ids[x] = id
            BY <2>2 DEF ToSet
        <3> QED BY <2>1, <3>1
    <2>4. PICK t \in SuiteKeys : \E j \in DOMAIN runs[id].suites[t].cases :
                k = Key(t, runs[id].suites[t].cases[j])
        BY <1>4, <2>3 DEF RunsWith
    <2>5. PICK j \in DOMAIN runs[id].suites[t].cases : k = Key(t, runs[id].suites[t].cases[j])
        BY <2>4
    <2> DEFINE d == runs[id].suites[t].cases[j]
    <2>6. k = Key(t, d)
        BY <2>5
    <2>7. d = runs[id].suites[t].cases[j]
        OBVIOUS
    <2> HIDE DEF d
    <2>8. t = s
        BY <2>1, <2>2, <2>6, KeyParts
    <2>9. j \in DOMAIN kept /\ d = kept[j]
        BY <2>5, <2>7, <2>8 DEF kept
    <2>10. Key(row.suite, row.case) = Key(t, d)
        BY <2>1, <2>6
    <2>11. /\ d.name = c.name /\ d.status = c.status /\ Comparable[d.message] = Comparable[c.message]
        BY <2>2, <2>10, SameKey
    <2>12. e.name = c.name /\ e.status = c.status /\ e.message = c.message /\ e = kept[i]
        BY <1>1 DEF SameEnding, e
    <2>13. d.features = e.features
        BY <1>1, <1>2, <2>9, <2>11, <2>12
    <2>14. Key(t, d) = Key(s, e)
        BY <2>8, <2>11, <2>12, <2>13, SameKey
    <2> QED BY <2>6, <2>14 DEF k0
<1> DEFINE rows == {RowOf(runs, k) : k \in AllKeys(runs)}
           found == {row \in rows : Fits(row)}
<1> HIDE DEF Fits
<1>10. found = {row0}
    <2>1. row0 \in found
        BY <1>7, <1>8
    <2>2. \A row \in found : row = row0
        BY <1>9
    <2> HIDE DEF found
    <2> QED BY <2>1, <2>2
<1>11. Cardinality(found) = 1
    <2> HIDE DEF found, row0
    <2> QED BY <1>10, FS_Singleton
<1> QED BY <1>11 DEF runs, Fits

(* Every failure that a nightly run recorded is found in exactly one row,  *)
(* and every row tells the truth of the runs it lists.                     *)
THEOREM FailuresAreSearchable == ReportSpec => []FailuresAreFound
<1>1. ReportInv => FailuresAreFound
    <2> SUFFICES ASSUME ReportInv, IsBuilt PROVE FailuresAreFound
        BY DEF FailuresAreFound
    <2> DEFINE runs == Existing(page)
    <2>1. page.search = {RowOf(runs, k) : k \in AllKeys(runs)}
        BY RowsAreOfKeys DEF ReportInv, SiteInv, AllKeys
    <2>2. \A id \in DOMAIN recorded : \A s \in SuiteKeys :
          \A c \in ToSet(CasesOf(s, recorded[id].lines[s], TRUE)) :
            c.status # "pass" =>
              Cardinality({row \in page.search :
                  /\ id \in ToSet(row.ids) /\ row.suite = s
                  /\ row.case.name = c.name /\ row.case.status = c.status
                  /\ Comparable[row.case.message] = Comparable[c.message]}) = 1
        <3> SUFFICES ASSUME NEW id \in DOMAIN recorded, NEW s \in SuiteKeys,
                            NEW c \in ToSet(CasesOf(s, recorded[id].lines[s], TRUE)), c.status # "pass"
                     PROVE  Cardinality({row \in page.search :
                                /\ id \in ToSet(row.ids) /\ row.suite = s
                                /\ row.case.name = c.name /\ row.case.status = c.status
                                /\ Comparable[row.case.message] = Comparable[c.message]}) = 1
            OBVIOUS
        <3> DEFINE rows == {RowOf(runs, k) : k \in AllKeys(runs)}
        <3>1. Cardinality({row \in rows :
                  /\ id \in ToSet(row.ids) /\ row.suite = s
                  /\ row.case.name = c.name /\ row.case.status = c.status
                  /\ Comparable[row.case.message] = Comparable[c.message]}) = 1
            BY FailuresHaveOneRow
        <3>2. page.search = rows
            BY <2>1
        <3> HIDE DEF rows
        <3> QED BY <3>1, <3>2
    <2>3. ASSUME NEW row \in page.search, NEW other \in page.search,
                 row.suite = other.suite, row.case.name = other.case.name,
                 row.case.status = other.case.status, row.case.features = other.case.features,
                 Comparable[row.case.message] = Comparable[other.case.message]
          PROVE  row = other
        <3>1. PICK k \in AllKeys(runs) : row = RowOf(runs, k)
            BY <2>1
        <3>2. PICK l \in AllKeys(runs) : other = RowOf(runs, l)
            BY <2>1
        <3>3. Key(row.suite, row.case) = k
            BY <3>1, PublishedRow
        <3>4. Key(other.suite, other.case) = l
            BY <3>2, PublishedRow
        <3> HIDE DEF runs
        <3>5. Key(row.suite, row.case) = Key(other.suite, other.case)
            BY <2>3, SameKey
        <3> QED BY <3>1, <3>2, <3>3, <3>4, <3>5
    <2>4. ASSUME NEW row \in page.search
          PROVE  /\ \A i \in 1 .. Len(row.ids) - 1 : row.ids[i] > row.ids[i + 1]
                 /\ \A i \in DOMAIN row.ids :
                     \E c \in ToSet(CasesOf(row.suite, recorded[row.ids[i]].lines[row.suite], TRUE)) :
                       /\ c.name = row.case.name /\ c.status = row.case.status
                       /\ Comparable[c.message] = Comparable[row.case.message]
                       /\ i = 1 => c.message = row.case.message
        <3>1. PICK k \in AllKeys(runs) : row = RowOf(runs, k)
            BY <2>1
        <3>2. \A i \in 1..Len(row.ids) - 1 : row.ids[i] > row.ids[i + 1]
            BY <3>1, PublishedRow
        <3> QED BY <3>1, <3>2, RowsHaveTheirCases
    <2> HIDE DEF runs
    <2> QED BY <2>2, <2>3, <2>4 DEF FailuresAreFound
<1> QED BY <1>1, ReportInvariant, PTL
=============================================================================
