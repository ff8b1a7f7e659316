---------------------------- MODULE PagesPublish ----------------------------
(***************************************************************************)
(* The two workflows that publish to the gh-pages branch: nightly.yml adds *)
(* a run to the report, refresh-pages-ui.yml rebuilds its user interface   *)
(* for every push to main.  Each is alone in its concurrency group, but    *)
(* the groups differ, so a nightly run (hours) and refreshes (minutes)     *)
(* overlap.  Each clones the branch, builds a new tree from the clone and  *)
(* pushes it; only the nightly pushes with --force.                        *)
(***************************************************************************)
EXTENDS Integers, FiniteSets

CONSTANTS
    LastCommit,    \* bound: how often main is pushed to
    LastRun,       \* bound: how many nightly runs there are
    LookupsFail    \* `git ls-remote` can fail though the branch exists

ASSUME BoundsArePositive == LastCommit \in Nat \ {0} /\ LastRun \in Nat \ {0}
ASSUME LookupsFailIsFlag == LookupsFail \in BOOLEAN

Jobs == {"nightly", "refresh"}

VARIABLES
    main,    \* the newest commit of main; it determines the user interface
    branch,  \* gh-pages: its head, the runs and the interface it publishes
    jobs,    \* jobs[j]: the step job j is at
    commit,  \* commit[j]: the commit of main j has checked out
    clone,   \* clone[j]: j's .pages-repo
    tree,    \* tree[j]: the pages j has built
    queued,  \* the commit of the pending refresh, 0 when there is none
    ran      \* how many nightly runs have started

pagesVars == <<main, branch, jobs, commit, clone, tree, queued, ran>>

NoTree == [runs |-> {}, ui |-> 0]
Fresh == [head |-> 0, tree |-> NoTree] \* `git init`, no commit

(* The pages have been published once, by the nightly run 0. *)
PagesInit ==
    /\ main = 1
    /\ branch = [head |-> 1, tree |-> [runs |-> {0}, ui |-> 1]]
    /\ jobs = [j \in Jobs |-> "idle"]
    /\ commit = [j \in Jobs |-> 0]
    /\ clone = [j \in Jobs |-> Fresh]
    /\ tree = [j \in Jobs |-> NoTree]
    /\ queued = 0 /\ ran = 0

-----------------------------------------------------------------------------
(* A push to main queues a refresh and drops the one that was pending. *)
PushMain ==
    /\ main < LastCommit
    /\ main' = main + 1
    /\ queued' = main + 1
    /\ UNCHANGED <<branch, jobs, commit, clone, tree, ran>>

(* A nightly run starts with the newest commit, and takes a run id. *)
StartNightly ==
    /\ jobs["nightly"] = "idle" /\ ran < LastRun
    /\ ran' = ran + 1
    /\ jobs' = [jobs EXCEPT !["nightly"] = "clone"]
    /\ commit' = [commit EXCEPT !["nightly"] = main]
    /\ UNCHANGED <<main, branch, clone, tree, queued>>

(* A refresh checks out the commit it was queued for. *)
StartRefresh ==
    /\ jobs["refresh"] = "idle" /\ queued # 0
    /\ queued' = 0
    /\ jobs' = [jobs EXCEPT !["refresh"] = "clone"]
    /\ commit' = [commit EXCEPT !["refresh"] = queued]
    /\ UNCHANGED <<main, branch, clone, tree, ran>>

(* "Prepare gh-pages checkout": when `git ls-remote` does not succeed, the *)
(* job takes the branch to be missing and starts an empty one.             *)
Prepare(j) ==
    /\ jobs[j] = "clone"
    /\ \/ clone' = [clone EXCEPT ![j] = branch]
       \/ LookupsFail /\ clone' = [clone EXCEPT ![j] = Fresh]
    /\ jobs' = [jobs EXCEPT ![j] = "build"]
    /\ UNCHANGED <<main, branch, commit, tree, queued, ran>>

(* build_pages.py: the clone's runs, with the run of the nightly; the      *)
(* refresh passes a run of the clone as the new one.                       *)
Built(j) ==
    [runs |-> clone[j].tree.runs \cup (IF j = "nightly" THEN {ran} ELSE {}), ui |-> commit[j]]

(* The refresh does not publish a page without a catalog of runs. *)
MayPublish(j) == j = "refresh" => clone[j].tree.runs # {}

(* Building ends well, or the job fails. *)
BuildPages(j) ==
    /\ jobs[j] = "build"
    /\ \/ /\ MayPublish(j)
          /\ tree' = [tree EXCEPT ![j] = Built(j)]
          /\ jobs' = [jobs EXCEPT ![j] = "push"]
       \/ /\ jobs' = [jobs EXCEPT ![j] = "idle"]
          /\ UNCHANGED tree
    /\ UNCHANGED <<main, branch, commit, clone, queued, ran>>

(* Mutant: the refresh pushes with --force, too. *)
AcceptedByForce(j) == TRUE

(* A forced push replaces the branch; any other must extend it. *)
Accepted(j) == j = "nightly" \/ clone[j].head = branch.head

(* The push; nothing is pushed when the tree is the cloned one.  A         *)
(* rejected push fails the job.                                            *)
Push(j) ==
    /\ jobs[j] = "push"
    /\ branch' = IF tree[j] # clone[j].tree /\ Accepted(j)
                 THEN [head |-> branch.head + 1, tree |-> tree[j]]
                 ELSE branch
    /\ jobs' = [jobs EXCEPT ![j] = "idle"]
    /\ UNCHANGED <<main, commit, clone, tree, queued, ran>>

Step(j) == Prepare(j) \/ BuildPages(j) \/ Push(j)

PagesNext == PushMain \/ StartNightly \/ StartRefresh \/ \E j \in Jobs : Step(j)

PagesSpec == PagesInit /\ [][PagesNext]_pagesVars

-----------------------------------------------------------------------------
(* Properties.                                                             *)

(* The nightly pushes a branch without history: it took gh-pages to be     *)
(* missing.                                                                *)
StartsAfresh == jobs["nightly"] = "push" /\ clone["nightly"] = Fresh

(* No push removes a run from the published history, though the nightly    *)
(* replaces the branch with what it built from an old clone, except that   *)
(* of a nightly whose lookup of the branch failed.  A refresh never does:  *)
(* it updates the interface "while preserving existing run history"        *)
(* (README), also when its own lookup failed.                              *)
HistoryIsKept ==
    [][branch.tree.runs \subseteq branch'.tree.runs
       \/ (StartsAfresh /\ jobs'["nightly"] = "idle")]_pagesVars

-----------------------------------------------------------------------------
(* Why history is kept, the inductive invariant of the proof.  The runs of *)
(* the branch change only when it is pushed to; a clone with the head of   *)
(* the branch is the branch; and while a nightly run builds and pushes,    *)
(* only refreshes push, with the runs of the branch they extend.           *)

Trees == [runs : SUBSET Nat, ui : Nat]
Clones == [head : Nat, tree : Trees]

PagesTypeInv ==
    /\ main \in Nat /\ queued \in Nat /\ ran \in Nat
    /\ branch \in Clones /\ branch.head >= 1
    /\ jobs \in [Jobs -> {"idle", "clone", "build", "push"}]
    /\ commit \in [Jobs -> Nat]
    /\ clone \in [Jobs -> Clones] /\ tree \in [Jobs -> Trees]

(* Only pushes make heads. *)
HeadsAreOfTheBranch ==
    \A j \in Jobs : clone[j].head <= branch.head /\ (clone[j].head = branch.head => clone[j] = branch)

(* A nightly run at work has the runs of the branch, or has found none. *)
NightlyKnowsTheRuns ==
    jobs["nightly"] \in {"build", "push"} =>
        clone["nightly"] = Fresh \/ branch.tree.runs \subseteq clone["nightly"].tree.runs

TreesAreBuilt == \A j \in Jobs : jobs[j] = "push" => tree[j] = Built(j)

PagesInv == PagesTypeInv /\ HeadsAreOfTheBranch /\ NightlyKnowsTheRuns /\ TreesAreBuilt
=============================================================================
