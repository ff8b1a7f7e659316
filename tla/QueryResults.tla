---------------------------- MODULE QueryResults ----------------------------
(***************************************************************************)
(* One result of a query (views/query_results.rs, and the execution in     *)
(* utils.rs) over a file that is read through RangeCache: the first batch  *)
(* is fetched when the view comes up, the others one at a time by "Load    *)
(* next batch" or all by an export.                                        *)
(*                                                                         *)
(* A task that polls the stream takes it out of its signal and puts it     *)
(* back with the batch.  The tasks of the view end with it, when it is     *)
(* hidden or its page left; a view that comes up again starts anew.        *)
(* A second reader of the file stands for the other views and the panel.   *)
(*                                                                         *)
(* What a writer refuses is unwrapped: an export of it is a panic, in a    *)
(* task of the page, and stops the page.  The download of what was written *)
(* is taken to succeed.                                                    *)
(***************************************************************************)
EXTENDS RangeCache

CONSTANTS
    Batches,   \* the batches of the query: the rows of each
    RangesOf,  \* the ranges that are read for each batch
    Unwritable,\* the batches that the writer of a format refuses: CSV has no nested columns
    Step,      \* the rows that are shown first, and are added by a click (20)
    OtherReads,\* what the other reader asks for
    MaxClicks, \* bound: clicks
    MaxMounts  \* bound: how often the view comes up

ASSUME BatchesHaveRanges ==
    /\ Batches \in Seq(Nat) /\ DOMAIN RangesOf = DOMAIN Batches
    /\ \A b \in DOMAIN RangesOf : RangesOf[b] \in Seq(Ranges)
ASSUME UnwritableAreBatches == Unwritable \in [{"csv", "parquet"} -> SUBSET DOMAIN Batches]
ASSUME OtherReadsAreRanges == \A ranges \in OtherReads : ranges \in Seq(Ranges)
ASSUME StepIsPositive == Step \in Nat \ {0}

VARIABLES
    mounted,          \* the view is on the page
    physical_plan,    \* there is a plan: the query has run
    record_batches,   \* the batches that have come: which, and the versions of their bytes
    remaining_stream, \* the next batch of the stream; 0 without one
    visible_rows, loading_next_batch,
    execution_error,  \* what failed, or "none"
    tasks,            \* the tasks of the view, by number: what they do, and the stream they took
    saved,            \* how the export ended that the last step has ended
    failed,           \* a poll has failed since the view came up
    clicks, mounts

view == <<mounted, physical_plan, record_batches, remaining_stream, visible_rows, loading_next_batch,
          execution_error, tasks, failed>>
vars == <<cacheVars, view, saved, clicks, mounts>>

Other == 0 \* the other reader; tasks are numbered from 1
NoStream == 0
Ended(outcome, kind, batches, alone) == [outcome |-> outcome, kind |-> kind, batches |-> batches, alone |-> alone]
NothingSaved == Ended("none", "none", <<>>, FALSE)
panicked == saved.outcome = "panic"

Task(kind, stream, alone) == [kind |-> kind, stream |-> stream, alone |-> alone]
Without(n) == [m \in DOMAIN tasks \ {n} |-> tasks[m]]
With(n, task) == [m \in DOMAIN tasks \cup {n} |-> IF m = n THEN task ELSE tasks[m]]

total_rows == FoldLeft(LAMBDA sum, batch : sum + Batches[batch.number], 0, record_batches)
show_rows == IF visible_rows < total_rows THEN visible_rows ELSE total_rows

-----------------------------------------------------------------------------
(* The view comes up: its signals are new, and its first task runs.        *)
ViewInit ==
    /\ mounted = TRUE /\ physical_plan = FALSE /\ record_batches = <<>> /\ remaining_stream = NoStream
    /\ visible_rows = Step /\ loading_next_batch = FALSE /\ execution_error = "none"
    /\ tasks = [n \in {1} |-> Task("query", NoStream, TRUE)]
    /\ failed = FALSE

Init == CacheInit /\ ViewInit /\ saved = NothingSaved /\ clicks = 0 /\ mounts = 1

(* on_hide, or another page. *)
Unmount ==
    /\ mounted /\ mounted' = FALSE
    /\ tasks' = <<>> /\ Forget(DOMAIN tasks)
    /\ saved' = NothingSaved
    /\ UNCHANGED <<physical_plan, record_batches, remaining_stream, visible_rows, loading_next_batch,
                   execution_error, failed, clicks, mounts>>

Mount ==
    /\ ~mounted /\ mounts < MaxMounts /\ mounts' = mounts + 1
    /\ mounted' = TRUE /\ physical_plan' = FALSE /\ record_batches' = <<>> /\ remaining_stream' = NoStream
    /\ visible_rows' = Step /\ loading_next_batch' = FALSE /\ execution_error' = "none"
    /\ tasks' = [n \in {1} |-> Task("query", NoStream, TRUE)]
    /\ failed' = FALSE
    /\ saved' = NothingSaved
    /\ UNCHANGED <<cacheVars, clicks>>

-----------------------------------------------------------------------------
(* The query. *)

(* user_input_to_sql or the planning fails: no plan, and the error shown.  *)
QueryFails(n) ==
    /\ tasks[n].kind = "query" /\ tasks[n].stream = NoStream
    /\ execution_error' = "query" /\ tasks' = Without(n)
    /\ saved' = NothingSaved
    /\ UNCHANGED <<cacheVars, mounted, physical_plan, record_batches, remaining_stream, visible_rows,
                   loading_next_batch, failed, clicks, mounts>>

(* The stream is made and its first batch asked for. *)
QueryStarts(n) ==
    /\ tasks[n].kind = "query" /\ tasks[n].stream = NoStream
    /\ tasks' = [tasks EXCEPT ![n].stream = 1]
    /\ IF Batches = <<>> THEN UNCHANGED cacheVars ELSE Call(n, RangesOf[1]) /\ UNCHANGED <<version, cache>>
    /\ saved' = NothingSaved
    /\ UNCHANGED <<mounted, physical_plan, record_batches, remaining_stream, visible_rows, loading_next_batch,
                   execution_error, failed, clicks, mounts>>

-----------------------------------------------------------------------------
(* Mutant: the stream stays in its signal while it is polled. *)
PollsLeavingTheStream(n, kind, alone, stream) ==
    /\ tasks' = With(n, Task(kind, stream, alone))
    /\ remaining_stream' = stream
    /\ IF stream \in DOMAIN Batches THEN Call(n, RangesOf[stream]) /\ UNCHANGED <<version, cache>>
       ELSE UNCHANGED cacheVars

(* poll_next_batch takes the stream; a task that finds none is told there  *)
(* is no more.                                                             *)
Polls(n, kind, alone, stream) ==
    /\ tasks' = With(n, Task(kind, stream, alone))
    /\ remaining_stream' = NoStream
    /\ IF stream \in DOMAIN Batches THEN Call(n, RangesOf[stream]) /\ UNCHANGED <<version, cache>>
       ELSE UNCHANGED cacheVars

Alone == DOMAIN tasks = {} /\ ~failed

FreshTask == CHOOSE n \in 1..Cardinality(DOMAIN tasks) + 1 : n \notin DOMAIN tasks

Clicked == mounted /\ clicks < MaxClicks /\ clicks' = clicks + 1

Refused(kind) == \E i \in DOMAIN record_batches : record_batches[i].number \in Unwritable[kind]

(* What an export writes: all that has come, unless the writer refuses it. *)
(* There is no Parquet file without a batch, and an empty CSV file is one. *)
Save(kind, alone, error) ==
    IF kind = "parquet" /\ record_batches = <<>>
    THEN execution_error' = "empty" /\ saved' = Ended("error", kind, <<>>, alone)
    ELSE /\ execution_error' = error
         /\ saved' = Ended(IF Refused(kind) THEN "panic" ELSE "file", kind, record_batches, alone)

(* Mutant: what is shown is exported, and the stream is not drained. *)
ExportUndrained(kind) ==
    /\ Clicked /\ physical_plan
    /\ Save(kind, Alone, "none")
    /\ UNCHANGED <<tasks, remaining_stream, cacheVars, mounted, physical_plan, record_batches, visible_rows,
                   loading_next_batch, failed, mounts>>

(* Export to CSV or Parquet: at once when no stream is there to be drained *)
(* (also while another task has it).                                       *)
Export(kind) ==
    /\ Clicked /\ physical_plan
    /\ IF remaining_stream = NoStream
       THEN Save(kind, Alone, "none") /\ UNCHANGED <<tasks, remaining_stream, cacheVars>>
       ELSE /\ execution_error' = "none" /\ saved' = NothingSaved
            /\ Polls(FreshTask, kind, Alone, remaining_stream)
    /\ UNCHANGED <<mounted, physical_plan, record_batches, visible_rows, loading_next_batch, failed, mounts>>

(* The button under the table, which is not shown beside an error. *)
MoreShown ==
    /\ mounted /\ physical_plan /\ execution_error = "none" /\ record_batches # <<>>
    /\ show_rows < total_rows \/ remaining_stream # NoStream

ShowMore ==
    /\ MoreShown /\ ~loading_next_batch /\ show_rows < total_rows
    /\ Clicked
    /\ visible_rows' = visible_rows + Step
    /\ saved' = NothingSaved
    /\ UNCHANGED <<cacheVars, mounted, physical_plan, record_batches, remaining_stream, loading_next_batch,
                   execution_error, tasks, failed, mounts>>

LoadNextBatch ==
    /\ MoreShown /\ ~loading_next_batch /\ ~(show_rows < total_rows)
    /\ Clicked
    /\ loading_next_batch' = TRUE
    /\ Polls(FreshTask, "more", TRUE, remaining_stream)
    /\ saved' = NothingSaved
    /\ UNCHANGED <<mounted, physical_plan, record_batches, visible_rows, execution_error, failed, mounts>>

-----------------------------------------------------------------------------
(* A poll ends. *)

Batch(n) == [number |-> tasks[n].stream, versions |-> ToSet(Filled(calls[n]))]

HasBatch(n) == tasks[n].stream \in DOMAIN Batches

(* The ranges are there, and the batch is decoded from them: bytes of      *)
(* several versions may decode to anything.                                *)
BatchIsRead(n) == HasBatch(n) /\ AllAnswered(calls[n]) /\ ~CallFails(calls[n])

(* The batch joins the others.  The first query's makes the plan known; a  *)
(* click shows the stream and more rows; an export goes on with the next.  *)
BatchComes(n) ==
    /\ BatchIsRead(n)
    /\ record_batches' = Append(record_batches, Batch(n))
    /\ LET next == tasks[n].stream + 1
       IN IF tasks[n].kind \in {"csv", "parquet"}
          THEN /\ cache' = Kept(calls[n]) /\ UNCHANGED version
               /\ tasks' = [tasks EXCEPT ![n].stream = next]
               /\ calls' = IF next \in DOMAIN Batches
                           THEN [calls EXCEPT ![n] = Asked(RangesOf[next], Kept(calls[n]))]
                           ELSE [c \in DOMAIN calls \ {n} |-> calls[c]]
               /\ UNCHANGED <<remaining_stream, physical_plan, visible_rows, loading_next_batch>>
          ELSE /\ Return(n)
               /\ tasks' = Without(n)
               /\ remaining_stream' = next
               /\ physical_plan' = TRUE
               /\ visible_rows' = IF tasks[n].kind = "more" THEN visible_rows + Step ELSE visible_rows
               /\ loading_next_batch' = IF tasks[n].kind = "more" THEN FALSE ELSE loading_next_batch
    /\ saved' = NothingSaved
    /\ UNCHANGED <<mounted, execution_error, failed, clicks, mounts>>

(* A request or the decoding fails: the stream is gone with it. *)
BatchFails(n) ==
    /\ HasBatch(n) /\ AllAnswered(calls[n])
    /\ \/ CallFails(calls[n])
       \/ ~CallFails(calls[n]) /\ Cardinality(Batch(n).versions) > 1
    /\ Return(n)
    /\ tasks' = Without(n)
    /\ execution_error' = tasks[n].kind
    /\ loading_next_batch' = IF tasks[n].kind = "more" THEN FALSE ELSE loading_next_batch
    /\ failed' = TRUE
    /\ saved' = IF tasks[n].kind \in {"csv", "parquet"} THEN Ended("error", tasks[n].kind, <<>>, tasks[n].alone)
                ELSE NothingSaved
    /\ UNCHANGED <<mounted, physical_plan, record_batches, remaining_stream, visible_rows, clicks, mounts>>

(* Mutant: the end of the stream leaves the button off. *)
StreamEndsWithoutReset(n) ==
    /\ tasks[n].stream # NoStream /\ ~HasBatch(n)
    /\ tasks' = Without(n)
    /\ IF tasks[n].kind \in {"csv", "parquet"} THEN Save(tasks[n].kind, tasks[n].alone, execution_error)
       ELSE saved' = NothingSaved /\ UNCHANGED execution_error
    /\ physical_plan' = TRUE
    /\ UNCHANGED <<cacheVars, mounted, record_batches, remaining_stream, visible_rows, loading_next_batch,
                   failed, clicks, mounts>>

(* The stream ends: an export writes what has come. *)
StreamEnds(n) ==
    /\ tasks[n].stream # NoStream /\ ~HasBatch(n)
    /\ tasks' = Without(n)
    /\ IF tasks[n].kind \in {"csv", "parquet"} THEN Save(tasks[n].kind, tasks[n].alone, execution_error)
       ELSE saved' = NothingSaved /\ UNCHANGED execution_error
    /\ physical_plan' = TRUE
    /\ loading_next_batch' = IF tasks[n].kind = "more" THEN FALSE ELSE loading_next_batch
    /\ UNCHANGED <<cacheVars, mounted, record_batches, remaining_stream, visible_rows, failed, clicks, mounts>>

-----------------------------------------------------------------------------
OtherCalls ==
    /\ Other \notin DOMAIN calls
    /\ \E ranges \in OtherReads : Call(Other, ranges)
    /\ saved' = NothingSaved
    /\ UNCHANGED <<version, cache, view, clicks, mounts>>

Answer(c) ==
    /\ c \in DOMAIN calls
    /\ \E k \in DOMAIN calls[c].fetched : FetchAnswers(c, k)
    /\ saved' = NothingSaved
    /\ UNCHANGED <<view, clicks, mounts>>

OtherReturns ==
    /\ Other \in DOMAIN calls /\ Return(Other)
    /\ saved' = NothingSaved
    /\ UNCHANGED <<view, clicks, mounts>>

Republished == Republish /\ saved' = NothingSaved /\ UNCHANGED <<view, clicks, mounts>>

TaskStep(n) == QueryFails(n) \/ QueryStarts(n) \/ BatchComes(n) \/ BatchFails(n) \/ StreamEnds(n)

Next ==
    /\ ~panicked
    /\ \/ Unmount \/ Mount
       \/ \E kind \in {"csv", "parquet"} : Export(kind)
       \/ ShowMore \/ LoadNextBatch
       \/ \E n \in DOMAIN tasks : TaskStep(n)
       \/ OtherCalls \/ OtherReturns \/ Republished
       \/ \E c \in DOMAIN calls : Answer(c)

Spec == Init /\ [][Next]_vars

(* Every request of the view ends, and its tasks run on when theirs have,  *)
(* as long as the page does.                                               *)
FairSpec ==
    /\ Spec
    /\ WF_vars(~panicked /\ \E n \in DOMAIN tasks : TaskStep(n))
    /\ WF_vars(~panicked /\ \E c \in DOMAIN calls \ {Other} : Answer(c))

-----------------------------------------------------------------------------
(* Properties *)

(* The stream is in one place: in its signal, in the one task that polls   *)
(* it, or drained.  What has come is what precedes it, in order and each   *)
(* batch once, whatever is clicked while a poll is out; and the button is  *)
(* off just while its own poll is.                                         *)
StreamIsInOnePlace ==
    LET polling == {n \in DOMAIN tasks : tasks[n].stream # NoStream}
        next == Len(record_batches) + 1
    IN /\ \A i \in DOMAIN record_batches : record_batches[i].number = i
       /\ loading_next_batch /\ mounted => \E n \in DOMAIN tasks : tasks[n].kind = "more"
       /\ mounted /\ physical_plan /\ ~failed =>
            \/ polling = {} /\ remaining_stream = next
            \/ remaining_stream = NoStream /\ \E n \in polling : polling = {n} /\ tasks[n].stream = next
            \/ remaining_stream = NoStream /\ polling = {} /\ Len(record_batches) = Len(Batches)

(* An export ends with a file, an error that is shown, or a panic.  The    *)
(* file is of the first batches, in order and each once, and it is of all  *)
(* batches of the query if it was asked for while no other poll was out    *)
(* and before any had failed.  Such an export ends with an error only when *)
(* its own poll fails, or when it asks for a Parquet file of a query that  *)
(* has no batch; and an export ends with a panic only when a batch has     *)
(* come that its writer refuses.  (One asked for while "Load next batch"   *)
(* polls, or after a failed poll, writes what has come and says nothing.)  *)
ExportsAreComplete ==
    LET numbers == {saved.batches[i].number : i \in DOMAIN saved.batches}
    IN /\ saved.outcome = "file" =>
            /\ \A i \in DOMAIN saved.batches : saved.batches[i].number = i
            /\ saved.alone => Len(saved.batches) = Len(Batches)
            /\ numbers \cap Unwritable[saved.kind] = {}
       /\ saved.outcome = "error" =>
            /\ execution_error # "none"
            /\ saved.alone => failed \/ (saved.kind = "parquet" /\ Batches = <<>>)
       /\ saved.outcome = "panic" => numbers \cap Unwritable[saved.kind] # {}

(* The task of the view, by where the query is: it runs, or has run.       *)
TaskIsTheQuery ==
    1 \in DOMAIN tasks => tasks[1].kind = "query" /\ tasks[1].stream \in {NoStream, 1}

TaskHasTheStream ==
    1 \in DOMAIN tasks =>
        /\ tasks[1].kind \in {"csv", "parquet", "more"}
        /\ tasks[1].stream = Len(record_batches) + 1 /\ remaining_stream = NoStream

(* Inductive, and what both properties rest on: no two polls ever are out, *)
(* as each has taken the one stream, and a poll that fails is the last.    *)
StreamInv ==
    /\ tasks \in [DOMAIN tasks -> [kind : {"query", "csv", "parquet", "more"}, stream : Nat, alone : BOOLEAN]]
    /\ DOMAIN tasks \subseteq IF mounted /\ ~failed THEN {1} ELSE {}
    /\ Len(record_batches) <= Len(Batches)
    /\ \A i \in DOMAIN record_batches : record_batches[i].number = i
    /\ physical_plan => TaskHasTheStream
    /\ ~physical_plan => TaskIsTheQuery /\ record_batches = <<>> /\ remaining_stream = NoStream
    /\ remaining_stream # NoStream => remaining_stream = Len(record_batches) + 1 /\ ~failed
    /\ mounted => (loading_next_batch <=> 1 \in DOMAIN tasks /\ tasks[1].kind = "more")
    /\ mounted /\ physical_plan /\ ~failed /\ DOMAIN tasks = {} /\ remaining_stream = NoStream =>
            Len(record_batches) = Len(Batches)
    /\ ExportsAreComplete

(* A poll ends, with its batch, the end of the stream or an error, and     *)
(* the button comes back, unless an export stops the page.                 *)
PollsEnd == tasks # <<>> ~> panicked \/ (tasks = <<>> /\ (mounted => ~loading_next_batch))
=============================================================================
