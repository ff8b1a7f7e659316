------------------------- MODULE QueryResultsProofs -------------------------
(***************************************************************************)
(* The stream of a query is in one place, and the file of an export that   *)
(* is clicked while nothing else polls has every batch, for any query, any *)
(* number of batches, clicks, failures, batches that a writer refuses, and *)
(* comings and goings of the view; and get_ranges answers each range with  *)
(* its own bytes, for any ranges.                                          *)
(***************************************************************************)
EXTENDS QueryResults, SequenceFacts, FiniteSetTheorems

(* Appending a batch is what it should be on sequences only. *)
BatchesInv == IsSequence(record_batches) /\ StreamInv

-----------------------------------------------------------------------------
LEMMA QueryHasBatches == Len(Batches) \in Nat /\ DOMAIN Batches = 1..Len(Batches)
BY BatchesHaveRanges

LEMMA BatchesAreCounted ==
    ASSUME BatchesInv
    PROVE  Len(record_batches) \in Nat /\ DOMAIN record_batches = 1..Len(record_batches)
BY DEF BatchesInv, IsSequence

(* A task that finds no other gets the number 1. *)
LEMMA FirstTaskIsOne ==
    ASSUME DOMAIN tasks = {}
    PROVE  FreshTask = 1
<1>1. Cardinality(DOMAIN tasks) = 0
    BY FS_EmptySet
<1>2. 1..Cardinality(DOMAIN tasks) + 1 = {1}
    BY <1>1
<1> QED BY <1>2 DEF FreshTask

LEMMA BatchesInvInit == Init => BatchesInv
<1> SUFFICES ASSUME Init PROVE BatchesInv
    OBVIOUS
<1>1. record_batches = <<>> /\ Len(record_batches) = 0 /\ DOMAIN record_batches = {} /\ IsSequence(record_batches)
    BY EmptyIsSequence DEF Init, ViewInit
<1>2. tasks = [n \in {1} |-> Task("query", NoStream, TRUE)] /\ NoStream \in Nat
    BY DEF Init, ViewInit, NoStream
<1>3. /\ mounted /\ ~failed /\ ~physical_plan /\ remaining_stream = NoStream
      /\ ~loading_next_batch /\ saved = NothingSaved
    BY DEF Init, ViewInit
<1> QED BY <1>1, <1>2, <1>3, QueryHasBatches
        DEF BatchesInv, StreamInv, TaskIsTheQuery, Task, ExportsAreComplete, NothingSaved, Ended

-----------------------------------------------------------------------------
(* The steps. *)

LEMMA ViewStaysKeepsInv ==
    ASSUME BatchesInv, UNCHANGED view, saved' = NothingSaved
    PROVE  BatchesInv'
BY DEF BatchesInv, StreamInv, TaskIsTheQuery, TaskHasTheStream, ExportsAreComplete, view, NothingSaved, Ended

LEMMA UnmountKeepsInv == BatchesInv /\ Unmount => BatchesInv'
<1> SUFFICES ASSUME BatchesInv, Unmount PROVE BatchesInv'
    OBVIOUS
<1>1. DOMAIN tasks' = {} /\ tasks' \in [{} -> [kind : {"query", "csv", "parquet", "more"}, stream : Nat, alone : BOOLEAN]]
    BY DEF Unmount
<1>2. ~mounted' /\ saved' = NothingSaved /\ UNCHANGED <<physical_plan, record_batches, remaining_stream, failed>>
    BY DEF Unmount
<1> QED BY <1>1, <1>2 DEF BatchesInv, StreamInv, TaskIsTheQuery, TaskHasTheStream, ExportsAreComplete, NothingSaved, Ended

LEMMA MountKeepsInv == BatchesInv /\ Mount => BatchesInv'
<1> SUFFICES ASSUME Mount PROVE BatchesInv'
    OBVIOUS
<1>1. /\ record_batches' = <<>> /\ Len(record_batches') = 0 /\ DOMAIN record_batches' = {}
      /\ IsSequence(record_batches')
    BY EmptyIsSequence DEF Mount
<1>2. tasks' = [n \in {1} |-> Task("query", NoStream, TRUE)] /\ NoStream \in Nat
    BY DEF Mount, NoStream
<1>3. /\ mounted' /\ ~failed' /\ ~physical_plan' /\ remaining_stream' = NoStream
      /\ ~loading_next_batch' /\ saved' = NothingSaved
    BY DEF Mount
<1> QED BY <1>1, <1>2, <1>3, QueryHasBatches
        DEF BatchesInv, StreamInv, TaskIsTheQuery, Task, ExportsAreComplete, NothingSaved, Ended

(* The task that steps is the only one. *)
LEMMA OneTask ==
    ASSUME BatchesInv, NEW n \in DOMAIN tasks
    PROVE  /\ n = 1 /\ DOMAIN tasks = {1} /\ mounted /\ ~failed
           /\ tasks[1] \in [kind : {"query", "csv", "parquet", "more"}, stream : Nat, alone : BOOLEAN]
           /\ DOMAIN Without(n) = {}
<1>1. n = 1 /\ DOMAIN tasks = {1} /\ mounted /\ ~failed
    BY DEF BatchesInv, StreamInv
<1>2. tasks[1] \in [kind : {"query", "csv", "parquet", "more"}, stream : Nat, alone : BOOLEAN]
    BY <1>1 DEF BatchesInv, StreamInv
<1> QED BY <1>1, <1>2 DEF Without

LEMMA QueryFailsKeepsInv ==
    ASSUME BatchesInv, NEW n \in DOMAIN tasks, QueryFails(n) PROVE BatchesInv'
<1>1. /\ tasks' = Without(n) /\ saved' = NothingSaved
      /\ UNCHANGED <<mounted, physical_plan, record_batches, remaining_stream, loading_next_batch, failed>>
      /\ tasks[n].kind = "query"
    BY DEF QueryFails
<1>2. ~physical_plan /\ ~loading_next_batch
    BY <1>1, OneTask DEF BatchesInv, StreamInv, TaskHasTheStream
<1> QED BY <1>1, <1>2, OneTask DEF BatchesInv, StreamInv, TaskIsTheQuery, ExportsAreComplete, NothingSaved, Ended, Without

LEMMA QueryStartsKeepsInv ==
    ASSUME BatchesInv, NEW n \in DOMAIN tasks, QueryStarts(n) PROVE BatchesInv'
<1>1. /\ tasks' = [tasks EXCEPT ![n].stream = 1] /\ saved' = NothingSaved
      /\ UNCHANGED <<mounted, physical_plan, record_batches, remaining_stream, loading_next_batch, failed>>
      /\ tasks[n].kind = "query"
    BY DEF QueryStarts
<1>2. ~physical_plan /\ ~loading_next_batch
    BY <1>1, OneTask DEF BatchesInv, StreamInv, TaskHasTheStream
<1>3. DOMAIN tasks' = {1} /\ tasks'[1] = [tasks[1] EXCEPT !.stream = 1]
    BY <1>1, OneTask
<1>4. tasks' \in [{1} -> [kind : {"query", "csv", "parquet", "more"}, stream : Nat, alone : BOOLEAN]]
    BY <1>1, <1>3, OneTask
<1>5. tasks'[1].kind = "query" /\ tasks'[1].stream = 1
    BY <1>1, <1>3, OneTask
<1> QED BY <1>1, <1>2, <1>3, <1>4, <1>5, OneTask DEF BatchesInv, StreamInv, TaskIsTheQuery, ExportsAreComplete, NothingSaved, Ended

(* An export that was clicked alone has, when it ends, all the batches. *)
LEMMA SaveIsComplete ==
    ASSUME BatchesInv, NEW kind \in {"csv", "parquet"}, NEW alone \in BOOLEAN, NEW e, Save(kind, alone, e),
           alone => Len(record_batches) = Len(Batches)
    PROVE  ExportsAreComplete'
<1> DEFINE numbers == {record_batches[i].number : i \in DOMAIN record_batches}
<1>1. \A i \in DOMAIN record_batches : record_batches[i].number = i
    BY DEF BatchesInv, StreamInv
<1>2. Refused(kind) <=> numbers \cap Unwritable[kind] # {}
    BY DEF Refused
<1>3. CASE kind = "parquet" /\ record_batches = <<>>
    <2>1. execution_error' = "empty" /\ saved' = Ended("error", kind, <<>>, alone)
        BY <1>3 DEF Save
    <2>2. alone => Batches = <<>>
        BY <1>3, QueryHasBatches, BatchesHaveRanges
    <2> QED BY <1>3, <2>1, <2>2 DEF ExportsAreComplete, Ended
<1>4. CASE ~(kind = "parquet" /\ record_batches = <<>>)
    <2>1. saved' = Ended(IF Refused(kind) THEN "panic" ELSE "file", kind, record_batches, alone)
        BY <1>4, Zenon DEF Save
    <2> DEFINE outcome == IF Refused(kind) THEN "panic" ELSE "file"
    <2>2. /\ saved'.outcome = outcome /\ saved'.kind = kind
          /\ saved'.batches = record_batches /\ saved'.alone = alone
        BY <2>1 DEF Ended
    <2>3. {saved'.batches[i].number : i \in DOMAIN saved'.batches} = numbers
        BY <2>2
    <2> HIDE DEF numbers
    <2> QED BY <1>1, <1>2, <2>2, <2>3, Zenon DEF ExportsAreComplete
<1> QED BY <1>3, <1>4

(* A poll that takes the stream from its signal is the only one. *)
LEMMA PollsKeepsInv ==
    ASSUME BatchesInv, mounted, physical_plan, remaining_stream # NoStream,
           NEW kind \in {"csv", "parquet", "more"}, NEW alone \in BOOLEAN,
           Polls(FreshTask, kind, alone, remaining_stream),
           loading_next_batch' = (IF kind = "more" THEN TRUE ELSE loading_next_batch),
           saved' = NothingSaved, UNCHANGED <<mounted, physical_plan, record_batches, failed>>
    PROVE  BatchesInv'
<1>1. DOMAIN tasks = {} /\ ~loading_next_batch
    BY DEF BatchesInv, StreamInv, TaskHasTheStream
<1>2. /\ DOMAIN tasks' = {1} /\ tasks'[1] = Task(kind, remaining_stream, alone)
      /\ tasks' = [m \in {1} |-> Task(kind, remaining_stream, alone)]
      /\ remaining_stream' = NoStream
    BY <1>1, FirstTaskIsOne DEF Polls, With
<1>3. remaining_stream = Len(record_batches) + 1 /\ ~failed /\ remaining_stream \in Nat
    BY BatchesAreCounted DEF BatchesInv, StreamInv
<1> QED BY <1>1, <1>2, <1>3 DEF BatchesInv, StreamInv, TaskHasTheStream, Task, ExportsAreComplete, NothingSaved, Ended

LEMMA ExportKeepsInv ==
    ASSUME BatchesInv, NEW kind \in {"csv", "parquet"}, Export(kind) PROVE BatchesInv'
<1>1. mounted /\ physical_plan
    BY DEF Export, Clicked
<1>2. UNCHANGED <<mounted, physical_plan, record_batches, loading_next_batch, failed>>
    BY DEF Export
<1>3. CASE remaining_stream = NoStream
    <2>1. UNCHANGED <<tasks, remaining_stream>> /\ Save(kind, Alone, "none")
        BY <1>3 DEF Export
    <2>2. Alone => Len(record_batches) = Len(Batches)
        BY <1>1, <1>3 DEF BatchesInv, StreamInv, Alone
    <2>3. ExportsAreComplete'
        BY <2>1, <2>2, SaveIsComplete DEF Alone
    <2> QED BY <1>2, <2>1, <2>3 DEF BatchesInv, StreamInv, TaskIsTheQuery, TaskHasTheStream
<1>4. CASE remaining_stream # NoStream
    BY <1>1, <1>2, <1>4, PollsKeepsInv DEF Export, Alone
<1> QED BY <1>3, <1>4

LEMMA LoadNextBatchKeepsInv == BatchesInv /\ LoadNextBatch => BatchesInv'
BY PollsKeepsInv DEF LoadNextBatch, MoreShown

LEMMA BatchComesKeepsInv ==
    ASSUME BatchesInv, NEW n \in DOMAIN tasks, BatchComes(n) PROVE BatchesInv'
<1> DEFINE next == tasks[n].stream + 1
<1>1. /\ n = 1 /\ DOMAIN tasks = {1} /\ mounted /\ ~failed /\ remaining_stream = NoStream
      /\ tasks[1] \in [kind : {"query", "csv", "parquet", "more"}, stream : Nat, alone : BOOLEAN]
      /\ tasks[1].stream = Len(record_batches) + 1
      /\ physical_plan <=> tasks[1].kind # "query"
    <2>1. n = 1 /\ DOMAIN tasks = {1} /\ mounted /\ ~failed
          /\ tasks[1] \in [kind : {"query", "csv", "parquet", "more"}, stream : Nat, alone : BOOLEAN]
        BY OneTask
    <2>2. tasks[1].stream # NoStream
        BY <2>1, QueryHasBatches DEF BatchComes, BatchIsRead, HasBatch, NoStream
    <2>3. physical_plan => /\ tasks[1].stream = Len(record_batches) + 1 /\ remaining_stream = NoStream
                           /\ tasks[1].kind # "query"
        BY <2>1 DEF BatchesInv, StreamInv, TaskHasTheStream
    <2>4. ~physical_plan => /\ tasks[1].stream = 1 /\ Len(record_batches) = 0 /\ remaining_stream = NoStream
                            /\ tasks[1].kind = "query"
        BY <2>1, <2>2 DEF BatchesInv, StreamInv, TaskIsTheQuery
    <2> QED BY <2>1, <2>3, <2>4
<1>2. Len(record_batches) + 1 <= Len(Batches)
    BY <1>1, QueryHasBatches, BatchesAreCounted DEF BatchComes, BatchIsRead, HasBatch
<1>3. /\ IsSequence(record_batches') /\ Len(record_batches') = Len(record_batches) + 1
      /\ Len(record_batches) \in Nat
      /\ \A i \in DOMAIN record_batches' : record_batches'[i].number = i
    <2>1. record_batches' = Append(record_batches, Batch(n))
        BY DEF BatchComes
    <2>2. Batch(n).number = Len(record_batches) + 1
        BY <1>1 DEF Batch
    <2>3. /\ IsSequence(record_batches') /\ Len(record_batches) \in Nat
          /\ DOMAIN record_batches = 1..Len(record_batches)
          /\ DOMAIN record_batches' = 1..Len(record_batches) + 1
          /\ record_batches'[Len(record_batches) + 1] = Batch(n)
          /\ \A k \in DOMAIN record_batches : record_batches'[k] = record_batches[k]
        BY <2>1, AppendAtTheEnd DEF BatchesInv
    <2>4. \A k \in DOMAIN record_batches : record_batches[k].number = k
        BY DEF BatchesInv, StreamInv
    <2>5. Len(record_batches') = Len(record_batches) + 1
        BY <2>3 DEF IsSequence
    <2> QED BY <2>2, <2>3, <2>4, <2>5
<1>4. saved' = NothingSaved /\ UNCHANGED <<mounted, failed>>
    BY DEF BatchComes
<1>5. CASE tasks[n].kind \in {"csv", "parquet"}
    <2>1. tasks' = [tasks EXCEPT ![n].stream = next]
          /\ UNCHANGED <<remaining_stream, physical_plan, loading_next_batch>>
        BY <1>5 DEF BatchComes
    <2>2. DOMAIN tasks' = {1} /\ tasks'[1] = [tasks[1] EXCEPT !.stream = next]
        BY <1>1, <2>1
    <2>3. /\ tasks'[1].kind = tasks[1].kind /\ tasks'[1].stream = Len(record_batches') + 1
          /\ tasks' \in [{1} -> [kind : {"query", "csv", "parquet", "more"}, stream : Nat, alone : BOOLEAN]]
        <3>1. next = Len(record_batches') + 1 /\ next \in Nat
            BY <1>1, <1>3
        <3> HIDE DEF next
        <3>2. tasks'[1] \in [kind : {"query", "csv", "parquet", "more"}, stream : Nat, alone : BOOLEAN]
            BY <1>1, <2>2, <3>1
        <3>3. tasks'[1].kind = tasks[1].kind /\ tasks'[1].stream = next
            BY <1>1, <2>2
        <3>4. tasks' = [m \in {1} |-> tasks'[m]]
            BY <1>1, <2>1
        <3> QED BY <3>1, <3>2, <3>3, <3>4
    <2>4. physical_plan /\ (loading_next_batch <=> tasks[1].kind = "more")
        BY <1>1, <1>5 DEF BatchesInv, StreamInv
    <2> QED BY <1>1, <1>2, <1>3, <1>4, <1>5, <2>1, <2>2, <2>3, <2>4
            DEF BatchesInv, StreamInv, TaskHasTheStream, ExportsAreComplete, NothingSaved, Ended
<1>6. CASE tasks[n].kind \notin {"csv", "parquet"}
    <2>1. /\ tasks' = Without(n) /\ remaining_stream' = next /\ physical_plan' = TRUE
          /\ loading_next_batch' = IF tasks[n].kind = "more" THEN FALSE ELSE loading_next_batch
        BY <1>6 DEF BatchComes
    <2>2. ~loading_next_batch'
        BY <1>1, <2>1 DEF BatchesInv, StreamInv
    <2>3. DOMAIN tasks' = {} /\ tasks' = [m \in {} |-> tasks[m]]
        BY <1>1, <2>1 DEF Without
    <2>4. /\ remaining_stream' = Len(record_batches') + 1 /\ Len(record_batches') <= Len(Batches)
          /\ remaining_stream' # NoStream
        BY <1>1, <1>2, <1>3, <2>1 DEF NoStream
    <2>5. tasks' \in [DOMAIN tasks' -> [kind : {"query", "csv", "parquet", "more"}, stream : Nat, alone : BOOLEAN]]
        BY <2>3
    <2> HIDE DEF next
    <2> QED BY <1>1, <1>3, <1>4, <2>1, <2>2, <2>3, <2>4, <2>5
            DEF BatchesInv, StreamInv, TaskHasTheStream, ExportsAreComplete, NothingSaved, Ended
<1> QED BY <1>5, <1>6

LEMMA BatchFailsKeepsInv ==
    ASSUME BatchesInv, NEW n \in DOMAIN tasks, BatchFails(n) PROVE BatchesInv'
<1>1. n = 1 /\ DOMAIN tasks = {1} /\ mounted /\ ~failed
    BY OneTask
<1>2. /\ tasks' = Without(n) /\ failed' = TRUE
      /\ loading_next_batch' = IF tasks[n].kind = "more" THEN FALSE ELSE loading_next_batch
      /\ UNCHANGED <<mounted, physical_plan, record_batches, remaining_stream>>
    BY DEF BatchFails
<1>3. remaining_stream = NoStream /\ ~loading_next_batch'
    BY <1>1, <1>2 DEF BatchesInv, StreamInv, TaskHasTheStream
<1>4. DOMAIN tasks' = {} /\ tasks' = [m \in {} |-> tasks[m]]
    BY <1>1, <1>2 DEF Without
<1>5. ExportsAreComplete'
    <2>1. /\ execution_error' = tasks[n].kind
          /\ saved' = NothingSaved \/ \E kind, alone : saved' = Ended("error", kind, <<>>, alone)
        BY DEF BatchFails
    <2>2. execution_error' # "none"
        BY <2>1, OneTask
    <2> QED BY <1>2, <2>1, <2>2 DEF ExportsAreComplete, NothingSaved, Ended
<1> QED BY <1>1, <1>2, <1>3, <1>4, <1>5
        DEF BatchesInv, StreamInv, TaskIsTheQuery, TaskHasTheStream

LEMMA StreamEndsKeepsInv ==
    ASSUME BatchesInv, NEW n \in DOMAIN tasks, StreamEnds(n) PROVE BatchesInv'
<1>1. /\ n = 1 /\ DOMAIN tasks = {1} /\ mounted /\ ~failed
      /\ tasks[1] \in [kind : {"query", "csv", "parquet", "more"}, stream : Nat, alone : BOOLEAN]
    BY OneTask
<1>2. /\ tasks' = Without(n)
      /\ IF tasks[n].kind \in {"csv", "parquet"} THEN Save(tasks[n].kind, tasks[n].alone, execution_error)
         ELSE saved' = NothingSaved
      /\ physical_plan' = TRUE
      /\ loading_next_batch' = IF tasks[n].kind = "more" THEN FALSE ELSE loading_next_batch
      /\ UNCHANGED <<mounted, record_batches, remaining_stream, failed>>
      /\ tasks[n].stream # NoStream /\ tasks[n].stream \notin DOMAIN Batches
    BY DEF StreamEnds, HasBatch
<1>3. tasks[1].stream = Len(record_batches) + 1 /\ remaining_stream = NoStream /\ ~loading_next_batch'
    <2>1. CASE physical_plan
        BY <1>1, <1>2, <2>1 DEF BatchesInv, StreamInv, TaskHasTheStream
    <2>2. CASE ~physical_plan
        BY <1>1, <1>2, <2>2 DEF BatchesInv, StreamInv, TaskIsTheQuery
    <2> QED BY <2>1, <2>2
<1>4. Len(record_batches) = Len(Batches)
    <2>1. Len(record_batches) \in Nat /\ Len(record_batches) <= Len(Batches)
        BY BatchesAreCounted DEF BatchesInv, StreamInv
    <2> QED BY <1>1, <1>2, <1>3, <2>1, QueryHasBatches
<1>5. ExportsAreComplete'
    <2>1. CASE tasks[n].kind \in {"csv", "parquet"}
        <3>1. Save(tasks[n].kind, tasks[n].alone, execution_error) /\ tasks[n].alone \in BOOLEAN
            BY <1>1, <1>2, <2>1
        <3> QED BY <1>4, <2>1, <3>1, SaveIsComplete
    <2>2. CASE tasks[n].kind \notin {"csv", "parquet"}
        <3>1. saved' = NothingSaved
            BY <1>2, <2>2
        <3> QED BY <3>1 DEF ExportsAreComplete, NothingSaved, Ended
    <2> QED BY <2>1, <2>2
<1>6. DOMAIN tasks' = {} /\ tasks' = [m \in {} |-> tasks[m]]
    BY <1>1, <1>2 DEF Without
<1> QED BY <1>1, <1>2, <1>3, <1>4, <1>5, <1>6 DEF BatchesInv, StreamInv, TaskHasTheStream

LEMMA BatchesInvNext == BatchesInv /\ [Next]_vars => BatchesInv'
<1> SUFFICES ASSUME BatchesInv, [Next]_vars PROVE BatchesInv'
    OBVIOUS
<1>1. CASE Unmount \/ Mount
    BY <1>1, UnmountKeepsInv, MountKeepsInv
<1>2. CASE \E kind \in {"csv", "parquet"} : Export(kind)
    BY <1>2, ExportKeepsInv
<1>3. CASE ShowMore
    BY <1>3 DEF ShowMore, BatchesInv, StreamInv, TaskIsTheQuery, TaskHasTheStream, ExportsAreComplete, NothingSaved, Ended
<1>4. CASE LoadNextBatch
    BY <1>4, LoadNextBatchKeepsInv
<1>5. CASE \E n \in DOMAIN tasks : TaskStep(n)
    BY <1>5, QueryFailsKeepsInv, QueryStartsKeepsInv, BatchComesKeepsInv, BatchFailsKeepsInv, StreamEndsKeepsInv
       DEF TaskStep
<1>6. CASE OtherCalls \/ OtherReturns \/ Republished \/ \E c \in DOMAIN calls : Answer(c)
    <2>1. UNCHANGED view /\ saved' = NothingSaved
        BY <1>6 DEF OtherCalls, OtherReturns, Republished, Answer
    <2> QED BY <2>1, ViewStaysKeepsInv
<1>7. CASE UNCHANGED vars
    BY <1>7 DEF vars, view, BatchesInv, StreamInv, TaskIsTheQuery, TaskHasTheStream, ExportsAreComplete
<1> QED BY <1>1, <1>2, <1>3, <1>4, <1>5, <1>6, <1>7 DEF Next

LEMMA BatchesInvariant == Spec => []BatchesInv
BY BatchesInvInit, BatchesInvNext, PTL DEF Spec

-----------------------------------------------------------------------------
(* The stream is in its signal, in the one task that polls it, or drained, *)
(* and the batches that have come are those before it, each once.          *)
THEOREM StreamIsNeverShared == Spec => []StreamIsInOnePlace
<1>1. BatchesInv => StreamIsInOnePlace
    <2> SUFFICES ASSUME BatchesInv PROVE StreamIsInOnePlace
        OBVIOUS
    <2> DEFINE polling == {n \in DOMAIN tasks : tasks[n].stream # NoStream}
    <2>1. loading_next_batch /\ mounted => \E n \in DOMAIN tasks : tasks[n].kind = "more"
        BY DEF BatchesInv, StreamInv
    <2>2. ASSUME mounted, physical_plan, ~failed
          PROVE  \/ polling = {} /\ remaining_stream = Len(record_batches) + 1
                 \/ remaining_stream = NoStream /\ \E n \in polling : polling = {n} /\ tasks[n].stream = Len(record_batches) + 1
                 \/ remaining_stream = NoStream /\ polling = {} /\ Len(record_batches) = Len(Batches)
        <3>1. CASE 1 \in DOMAIN tasks
            <4>1. DOMAIN tasks = {1} /\ tasks[1].stream = Len(record_batches) + 1 /\ remaining_stream = NoStream
                BY <2>2, <3>1 DEF BatchesInv, StreamInv, TaskHasTheStream
            <4>2. tasks[1].stream # NoStream
                BY <4>1, BatchesAreCounted DEF NoStream
            <4>3. polling = {1}
                BY <4>1, <4>2
            <4> QED BY <4>1, <4>3
        <3>2. CASE 1 \notin DOMAIN tasks
            <4>1. DOMAIN tasks = {}
                BY <2>2, <3>2 DEF BatchesInv, StreamInv
            <4> QED BY <2>2, <4>1 DEF BatchesInv, StreamInv
        <3> QED BY <3>1, <3>2
    <2>3. \A i \in DOMAIN record_batches : record_batches[i].number = i
        BY DEF BatchesInv, StreamInv
    <2> QED BY <2>1, <2>2, <2>3 DEF StreamIsInOnePlace
<1> QED BY <1>1, BatchesInvariant, PTL

(* The file of an export that nothing else polled beside is the result of  *)
(* the query, all of it; without a file its own poll failed, the query has *)
(* no batch, or the writer refused one (utils.rs unwraps what it says).    *)
THEOREM LoneExportsAreComplete == Spec => []ExportsAreComplete
<1>1. BatchesInv => ExportsAreComplete
    BY DEF BatchesInv, StreamInv
<1> QED BY <1>1, BatchesInvariant, PTL

-----------------------------------------------------------------------------
(* The loops of get_ranges. *)

(* The first loop pushes a range that has no entry. *)
Pushes(h, ranges, kept) ==
    /\ h \in [0..Len(ranges) -> Seq(Ranges)]
    /\ h[0] = <<>> /\ Missing(ranges, kept) = h[Len(ranges)]
    /\ \A k \in 1..Len(ranges) :
          h[k] = IF ranges[k] \in DOMAIN kept THEN h[k - 1] ELSE Append(h[k - 1], ranges[k])

LEMMA MissingBySteps ==
    ASSUME NEW ranges \in Seq(Ranges), NEW kept
    PROVE  \E h : Pushes(h, ranges, kept)
<1> DEFINE n == Len(ranges)
           V == Seq(Ranges)
           step == [p \in V \X (1..n) |-> IF ranges[p[2]] \in DOMAIN kept THEN p[1] ELSE Append(p[1], ranges[p[2]])]
           iter == CHOOSE iter : iter = [t \in SUBSET DOMAIN ranges |->
                       IF t = {} THEN <<>>
                       ELSE IF ranges[Max(t)] \in DOMAIN kept THEN iter[t \ {Max(t)}]
                            ELSE Append(iter[t \ {Max(t)}], ranges[Max(t)])]
           h == [k \in 0..n |-> iter[1..k]]
<1>1. n \in Nat /\ DOMAIN ranges = 1..n /\ <<>> \in V /\ \A k \in 1..n : ranges[k] \in Ranges
    OBVIOUS
<1>2. step \in [V \X (1..n) -> V]
    <2>1. \A s \in V, r \in Ranges : Append(s, r) \in V
        OBVIOUS
    <2> HIDE DEF V
    <2> QED BY <1>1, <2>1
<1>3. PICK G : FoldsBy(G, n, V, <<>>, step)
    <2> HIDE DEF step, n, V, iter, h
    <2> QED BY <1>1, <1>2, FoldRuns, Zenon
<1>4. G = [t \in SUBSET DOMAIN ranges |->
              IF t = {} THEN <<>>
              ELSE IF ranges[Max(t)] \in DOMAIN kept THEN G[t \ {Max(t)}]
                   ELSE Append(G[t \ {Max(t)}], ranges[Max(t)])]
    <2> HIDE DEF V
    <2>1. ASSUME NEW t \in SUBSET (1..n), t # {}
          PROVE  G[t] = IF ranges[Max(t)] \in DOMAIN kept THEN G[t \ {Max(t)}]
                        ELSE Append(G[t \ {Max(t)}], ranges[Max(t)])
        <3>1. Max(t) \in 1..n /\ t \ {Max(t)} \in SUBSET (1..n)
            BY <1>1, <2>1, MaxOfIndices
        <3> QED BY <1>1, <1>3, <2>1, <3>1 DEF FoldsBy
    <2> QED BY <1>1, <1>3, <2>1 DEF FoldsBy
<1>5. iter = [t \in SUBSET DOMAIN ranges |->
              IF t = {} THEN <<>>
              ELSE IF ranges[Max(t)] \in DOMAIN kept THEN iter[t \ {Max(t)}]
                   ELSE Append(iter[t \ {Max(t)}], ranges[Max(t)])]
    BY <1>4, Zenon
<1>6. Missing(ranges, kept) = iter[DOMAIN ranges]
    BY DEF Missing, FoldLeft, MapThenFoldSet
<1> HIDE DEF iter, step
<1>7. h[0] = <<>> /\ h[n] = Missing(ranges, kept)
    <2>1. 1..0 = {}
        OBVIOUS
    <2> QED BY <1>1, <1>5, <1>6, <2>1
<1>8. ASSUME NEW k \in 1..n
      PROVE  h[k] = IF ranges[k] \in DOMAIN kept THEN h[k - 1] ELSE Append(h[k - 1], ranges[k])
    <2>1. 1..k \in SUBSET (1..n) /\ 1..k # {} /\ Max(1..k) = k /\ (1..k) \ {k} = 1..(k - 1)
        <3> HIDE DEF n, h
        <3> QED BY <1>1, SegmentIsNext
    <2>2. iter[1..k] = IF ranges[k] \in DOMAIN kept THEN iter[1..(k - 1)] ELSE Append(iter[1..(k - 1)], ranges[k])
        BY <1>1, <1>5, <2>1
    <2>3. h[k] = iter[1..k] /\ h[k - 1] = iter[1..(k - 1)]
        BY <1>1
    <2> HIDE DEF h
    <2> QED BY <2>2, <2>3
<1> HIDE DEF h
<1>9. \A k \in 0..n : h[k] \in V
    <2> DEFINE T == {k \in 0..n : h[k] \in V}
    <2>1. 0 \in T
        <3> HIDE DEF V
        <3> QED BY <1>1, <1>7
    <2>2. \A k \in 0..n - 1 : k \in T => k + 1 \in T
        <3> SUFFICES ASSUME NEW k \in 0..n - 1, k \in T PROVE k + 1 \in T
            OBVIOUS
        <3>1. k + 1 \in 1..n /\ (k + 1) - 1 = k /\ ranges[k + 1] \in Ranges
            BY <1>1
        <3>2. Append(h[k], ranges[k + 1]) \in V
            BY <3>1
        <3>3. h[k + 1] \in V
            <4> HIDE DEF V
            <4> QED BY <1>8, <3>1, <3>2
        <3> QED BY <3>1, <3>3
    <2> HIDE DEF T
    <2>3. \A k \in 0..n : k \in T
        BY <1>1, <2>1, <2>2, InductionUpTo
    <2> QED BY <2>3 DEF T
<1>10. h \in [0..n -> V]
    <2> HIDE DEF V
    <2> QED BY <1>9 DEF h
<1>11. Pushes(h, ranges, kept)
    BY <1>7, <1>8, <1>10 DEF Pushes
<1> QED BY <1>11

(* Where the missing ranges come from, in order: the results without bytes.*)
Places(m, call) ==
    /\ m \in [DOMAIN call.missing -> DOMAIN call.ranges]
    /\ \A j, l \in DOMAIN call.missing : j < l => m[j] < m[l]
    /\ \A j \in DOMAIN call.missing : call.ranges[m[j]] = call.missing[j] /\ call.results[m[j]] = None
    /\ \A i \in DOMAIN call.ranges : call.results[i] = None => \E j \in DOMAIN call.missing : m[j] = i

LEMMA MissingHasPlaces ==
    ASSUME NEW ranges \in Seq(Ranges), NEW kept, \A r \in DOMAIN kept : kept[r] # None
    PROVE  /\ Missing(ranges, kept) \in Seq(Ranges)
           /\ \E m : Places(m, Asked(ranges, kept))
<1>0. PICK h : Pushes(h, ranges, kept)
    BY MissingBySteps
<1>1. /\ h \in [0..Len(ranges) -> Seq(Ranges)] /\ h[0] = <<>> /\ Missing(ranges, kept) = h[Len(ranges)]
      /\ \A k \in 1..Len(ranges) :
            h[k] = IF ranges[k] \in DOMAIN kept THEN h[k - 1] ELSE Append(h[k - 1], ranges[k])
    BY <1>0 DEF Pushes
<1> DEFINE n == Len(ranges)
           Fits(m, k) == /\ m \in [1..Len(h[k]) -> 1..k]
                         /\ \A j, l \in 1..Len(h[k]) : j < l => m[j] < m[l]
                         /\ \A j \in 1..Len(h[k]) : ranges[m[j]] = h[k][j] /\ ranges[m[j]] \notin DOMAIN kept
                         /\ \A i \in 1..k : ranges[i] \notin DOMAIN kept => \E j \in 1..Len(h[k]) : m[j] = i
           T == {k \in 0..n : \E m : Fits(m, k)}
<1>2. n \in Nat /\ DOMAIN ranges = 1..n /\ \A k \in 0..n : h[k] \in Seq(Ranges) /\ Len(h[k]) \in Nat
    BY <1>1
<1>3. 0 \in T
    <2> DEFINE e == [j \in 1..0 |-> 0]
    <2>0. Len(h[0]) = 0 /\ 1..0 = {}
        BY <1>1
    <2>1. Fits(e, 0)
        BY <2>0
    <2> HIDE DEF e
    <2> QED BY <1>2, <2>1
<1>4. ASSUME NEW k \in 0..n - 1, k \in T PROVE k + 1 \in T
    <2>1. PICK m : Fits(m, k)
        BY <1>4
    <2>2. k + 1 \in 1..n /\ (k + 1) - 1 = k /\ k \in 0..n /\ k + 1 \in 0..n /\ ranges[k + 1] \in Ranges
        BY <1>2
    <2>3. CASE ranges[k + 1] \in DOMAIN kept
        <3>1. h[k + 1] = h[k]
            BY <1>1, <2>2, <2>3
        <3>2. m \in [1..Len(h[k + 1]) -> 1..k + 1]
            BY <2>1, <3>1
        <3>3. \A i \in 1..k + 1 : ranges[i] \notin DOMAIN kept => i \in 1..k
            BY <2>2, <2>3
        <3>4. Fits(m, k + 1)
            BY <2>1, <3>1, <3>2, <3>3
        <3> QED BY <2>2, <3>4
    <2>4. CASE ranges[k + 1] \notin DOMAIN kept
        <3> DEFINE c == Len(h[k])
                   q == [j \in 1..c + 1 |-> IF j = c + 1 THEN k + 1 ELSE m[j]]
        <3>1. h[k + 1] = Append(h[k], ranges[k + 1])
            BY <1>1, <2>2, <2>4
        <3>2. /\ c \in Nat /\ Len(h[k + 1]) = c + 1 /\ h[k + 1][c + 1] = ranges[k + 1]
              /\ \A j \in 1..c : h[k + 1][j] = h[k][j]
            BY <1>2, <2>2, <3>1
        <3> HIDE DEF c
        <3>3. m \in [1..c -> 1..k] /\ \A j, l \in 1..c : j < l => m[j] < m[l]
            BY <2>1 DEF c
        <3>4. q \in [1..c + 1 -> 1..k + 1]
            BY <3>2, <3>3
        <3>5. \A j, l \in 1..c + 1 : j < l => q[j] < q[l]
            BY <3>2, <3>3
        <3>6. \A j \in 1..c + 1 : ranges[q[j]] = h[k + 1][j] /\ ranges[q[j]] \notin DOMAIN kept
            BY <2>1, <2>4, <3>2 DEF c
        <3>7. \A i \in 1..k + 1 : ranges[i] \notin DOMAIN kept => \E j \in 1..c + 1 : q[j] = i
            <4> SUFFICES ASSUME NEW i \in 1..k + 1, ranges[i] \notin DOMAIN kept
                         PROVE  \E j \in 1..c + 1 : q[j] = i
                OBVIOUS
            <4>1. CASE i = k + 1
                <5>1. c + 1 \in 1..c + 1 /\ q[c + 1] = i
                    BY <3>2, <4>1
                <5> QED BY <5>1
            <4>2. CASE i # k + 1
                <5>1. i \in 1..k
                    BY <4>2, <2>2
                <5>2. PICK j \in 1..c : m[j] = i
                    BY <2>1, <5>1 DEF c
                <5>3. j \in 1..c + 1 /\ j # c + 1
                    BY <3>2
                <5> QED BY <5>2, <5>3
            <4> QED BY <4>1, <4>2
        <3> HIDE DEF q
        <3>8. Fits(q, k + 1)
            BY <3>2, <3>4, <3>5, <3>6, <3>7
        <3> QED BY <2>2, <3>8
    <2> QED BY <2>3, <2>4
<1>5. PICK m : Fits(m, n)
    <2> HIDE DEF T, n
    <2>1. \A k \in 0..n : k \in T
        BY <1>2, <1>3, <1>4, InductionUpTo
    <2>2. n \in 0..n
        BY <1>2
    <2> QED BY <2>1, <2>2 DEF T
<1> DEFINE call == Asked(ranges, kept)
           w == Missing(ranges, kept)
<1>6. w = h[n] /\ w \in Seq(Ranges) /\ DOMAIN w = 1..Len(h[n])
    BY <1>1, <1>2
<1>7. call.ranges = ranges /\ call.missing = w /\ call.results = LookedUp(ranges, kept)
    BY DEF Asked
<1>8. \A i \in DOMAIN ranges : LookedUp(ranges, kept)[i] = None <=> ranges[i] \notin DOMAIN kept
    BY DEF LookedUp
<1> HIDE DEF call, w, n
<1>9. Places(m, call)
    <2>1. \A j \in 1..Len(h[n]) : m[j] \in 1..n
        BY <1>5
    <2>2. DOMAIN call.missing = 1..Len(h[n]) /\ DOMAIN call.ranges = 1..n
        BY <1>2, <1>6, <1>7
    <2>3. m \in [DOMAIN call.missing -> DOMAIN call.ranges]
        BY <1>5, <2>2
    <2>4. \A j \in DOMAIN call.missing : call.ranges[m[j]] = call.missing[j] /\ call.results[m[j]] = None
        BY <1>2, <1>5, <1>6, <1>7, <1>8, <2>1, <2>2
    <2>5. \A i \in DOMAIN call.ranges : call.results[i] = None => \E j \in DOMAIN call.missing : m[j] = i
        BY <1>2, <1>5, <1>7, <1>8, <2>2
    <2>6. \A j, l \in DOMAIN call.missing : j < l => m[j] < m[l]
        BY <1>5, <2>2
    <2> QED BY <2>3, <2>4, <2>5, <2>6 DEF Places
<1> QED BY <1>6, <1>9 DEF call, w

-----------------------------------------------------------------------------
(* The last loop fills an answer in. *)
FilledIn(results, call, k) ==
    LET empty == {i \in DOMAIN results : call.ranges[i] = call.missing[k] /\ results[i] = None}
    IN IF empty = {} THEN results ELSE [results EXCEPT ![Min(empty)] = call.fetched[k]]

CallInv(call) ==
    /\ call.ranges \in Seq(Ranges) /\ call.missing \in Seq(Ranges)
    /\ call.results \in [DOMAIN call.ranges -> 0..version]
    /\ call.fetched \in [DOMAIN call.missing -> -1..version]
    /\ \E m : Places(m, call)

Fills(h, call) ==
    /\ h \in [0..Len(call.missing) -> [DOMAIN call.ranges -> Int]]
    /\ h[0] = call.results /\ Filled(call) = h[Len(call.missing)]
    /\ \A k \in 1..Len(call.missing) : h[k] = FilledIn(h[k - 1], call, k)

LEMMA FilledInType ==
    ASSUME version \in Nat, NEW call, CallInv(call), NEW results \in [DOMAIN call.ranges -> Int],
           NEW k \in DOMAIN call.missing
    PROVE  FilledIn(results, call, k) \in [DOMAIN call.ranges -> Int]
<1> DEFINE empty == {i \in DOMAIN results : call.ranges[i] = call.missing[k] /\ results[i] = None}
<1>1. call.fetched[k] \in Int
    BY DEF CallInv
<1>2. FilledIn(results, call, k) = IF empty = {} THEN results ELSE [results EXCEPT ![Min(empty)] = call.fetched[k]]
    BY DEF FilledIn
<1> HIDE DEF empty
<1> QED BY <1>1, <1>2

LEMMA FilledBySteps ==
    ASSUME version \in Nat, NEW call, CallInv(call)
    PROVE  \E h : Fills(h, call)
<1> DEFINE n == Len(call.missing)
           V == [DOMAIN call.ranges -> Int]
           indices == [i \in DOMAIN call.fetched |-> i]
           step == [p \in V \X (1..n) |-> FilledIn(p[1], call, p[2])]
           iter == CHOOSE iter : iter = [t \in SUBSET DOMAIN indices |->
                       IF t = {} THEN call.results ELSE FilledIn(iter[t \ {Max(t)}], call, indices[Max(t)])]
           h == [k \in 0..n |-> iter[1..k]]
<1>1. n \in Nat /\ DOMAIN call.missing = 1..n /\ DOMAIN indices = 1..n /\ \A k \in 1..n : indices[k] = k
    BY DEF CallInv
<1>2. call.results \in V
    BY DEF CallInv
<1>3. step \in [V \X (1..n) -> V]
    <2> HIDE DEF V
    <2>1. \A results \in V, k \in 1..n : FilledIn(results, call, k) \in V
        BY <1>1, FilledInType DEF V
    <2> QED BY <2>1
<1>4. PICK G : FoldsBy(G, n, V, call.results, step)
    <2> HIDE DEF step, n, V, iter, h
    <2> QED BY <1>1, <1>2, <1>3, FoldRuns, Zenon
<1>5. G = [t \in SUBSET DOMAIN indices |->
              IF t = {} THEN call.results ELSE FilledIn(G[t \ {Max(t)}], call, indices[Max(t)])]
    <2> HIDE DEF V, indices
    <2>1. ASSUME NEW t \in SUBSET (1..n), t # {}
          PROVE  G[t] = FilledIn(G[t \ {Max(t)}], call, indices[Max(t)])
        <3>1. Max(t) \in 1..n /\ t \ {Max(t)} \in SUBSET (1..n)
            BY <1>1, <2>1, MaxOfIndices
        <3> QED BY <1>1, <1>4, <2>1, <3>1 DEF FoldsBy
    <2> QED BY <1>1, <1>4, <2>1 DEF FoldsBy
<1>6. iter = [t \in SUBSET DOMAIN indices |->
              IF t = {} THEN call.results ELSE FilledIn(iter[t \ {Max(t)}], call, indices[Max(t)])]
    <2> HIDE DEF indices
    <2> QED BY <1>5, Zenon
<1>7. Filled(call) = iter[DOMAIN indices]
    BY DEF Filled, FilledIn, FoldLeftDomain, FoldLeft, MapThenFoldSet
<1> HIDE DEF iter, step, indices
<1>8. h[0] = call.results /\ h[n] = Filled(call)
    <2>1. 1..0 = {}
        OBVIOUS
    <2> QED BY <1>1, <1>6, <1>7, <2>1
<1>9. ASSUME NEW k \in 1..n
      PROVE  h[k] = FilledIn(h[k - 1], call, k)
    <2>1. 1..k \in SUBSET (1..n) /\ 1..k # {} /\ Max(1..k) = k /\ (1..k) \ {k} = 1..(k - 1)
        <3> HIDE DEF n, h
        <3> QED BY <1>1, SegmentIsNext
    <2>2. iter[1..k] = FilledIn(iter[1..(k - 1)], call, k)
        <3>1. iter[1..k] = FilledIn(iter[(1..k) \ {Max(1..k)}], call, indices[Max(1..k)])
            BY <1>1, <1>6, <2>1
        <3>2. indices[Max(1..k)] = k
            BY <1>1, <2>1
        <3> QED BY <2>1, <3>1, <3>2
    <2>3. h[k] = iter[1..k] /\ h[k - 1] = iter[1..(k - 1)]
        BY <1>1
    <2> HIDE DEF h
    <2> QED BY <2>2, <2>3
<1> HIDE DEF h
<1>10. \A k \in 0..n : h[k] \in V
    <2> DEFINE T == {k \in 0..n : h[k] \in V}
    <2> HIDE DEF V
    <2>1. 0 \in T
        BY <1>1, <1>2, <1>8
    <2>2. \A k \in 0..n - 1 : k \in T => k + 1 \in T
        <3> SUFFICES ASSUME NEW k \in 0..n - 1, k \in T PROVE k + 1 \in T
            OBVIOUS
        <3>1. k + 1 \in 1..n /\ (k + 1) - 1 = k /\ h[k] \in V
            BY <1>1
        <3>2. h[k + 1] = FilledIn(h[k], call, k + 1)
            BY <1>9, <3>1
        <3>3. FilledIn(h[k], call, k + 1) \in V
            BY <1>1, <3>1, FilledInType DEF V
        <3> QED BY <3>1, <3>2, <3>3
    <2> HIDE DEF T
    <2>3. \A k \in 0..n : k \in T
        BY <1>1, <2>1, <2>2, InductionUpTo
    <2> QED BY <2>3 DEF T
<1>11. h \in [0..n -> V]
    <2> HIDE DEF V
    <2> QED BY <1>10 DEF h
<1>12. Fills(h, call)
    BY <1>8, <1>9, <1>11 DEF Fills
<1> QED BY <1>12

(* Each answer lands at its place, and nothing else changes. *)
LEMMA AnswersLand ==
    ASSUME version \in Nat, NEW call, CallInv(call), AllAnswered(call)
    PROVE  \E m : /\ Places(m, call)
                  /\ \A j \in DOMAIN call.missing : Filled(call)[m[j]] = call.fetched[j]
                  /\ \A i \in DOMAIN call.ranges :
                        call.results[i] # None => Filled(call)[i] = call.results[i]
<1>1. PICK m : Places(m, call)
    BY DEF CallInv
<1>2. PICK h : Fills(h, call)
    BY FilledBySteps
<1> DEFINE n == Len(call.missing)
           T == {k \in 0..n : /\ \A j \in 1..k : h[k][m[j]] = call.fetched[j]
                              /\ \A i \in DOMAIN call.ranges :
                                    (\A j \in 1..k : m[j] # i) => h[k][i] = call.results[i]}
<1>3. n \in Nat /\ DOMAIN call.missing = 1..n /\ DOMAIN call.fetched = 1..n
    BY DEF CallInv
<1>4. DOMAIN call.ranges \in SUBSET Nat
    BY DEF CallInv
<1>5. /\ m \in [1..n -> DOMAIN call.ranges]
      /\ \A j, l \in 1..n : j < l => m[j] < m[l]
      /\ \A j \in 1..n : call.ranges[m[j]] = call.missing[j] /\ call.results[m[j]] = None
      /\ \A i \in DOMAIN call.ranges : call.results[i] = None => \E j \in 1..n : m[j] = i
    BY <1>1, <1>3 DEF Places
<1>6. /\ h \in [0..n -> [DOMAIN call.ranges -> Int]] /\ h[0] = call.results /\ Filled(call) = h[n]
      /\ \A k \in 1..n : h[k] = FilledIn(h[k - 1], call, k)
    BY <1>2 DEF Fills
<1>7. \A j \in 1..n : call.fetched[j] # None
    BY <1>3 DEF AllAnswered
<1> HIDE DEF n
<1>8. 0 \in T
    BY <1>3, <1>6
<1>9. ASSUME NEW k \in 0..n - 1, k \in T PROVE k + 1 \in T
    <2> DEFINE r == h[k]
               empty == {i \in DOMAIN r : call.ranges[i] = call.missing[k + 1] /\ r[i] = None}
    <2>1. k + 1 \in 1..n /\ (k + 1) - 1 = k /\ k \in 0..n
        BY <1>3
    <2>2. r \in [DOMAIN call.ranges -> Int] /\ DOMAIN r = DOMAIN call.ranges
        BY <1>6, <2>1
    <2>3. /\ \A j \in 1..k : r[m[j]] = call.fetched[j]
          /\ \A i \in DOMAIN call.ranges : (\A j \in 1..k : m[j] # i) => r[i] = call.results[i]
        BY <1>9
    <2>4. h[k + 1] = IF empty = {} THEN r ELSE [r EXCEPT ![Min(empty)] = call.fetched[k + 1]]
        <3>1. h[k + 1] = FilledIn(r, call, k + 1)
            BY <1>6, <2>1
        <3> QED BY <3>1 DEF FilledIn
    <2> HIDE DEF r
    <2>5. \A j \in 1..k : j \in 1..n /\ m[j] # m[k + 1]
        BY <1>3, <1>4, <1>5, <2>1
    <2>6. m[k + 1] \in empty
        BY <1>5, <2>1, <2>2, <2>3, <2>5
    <2>7. ASSUME NEW i \in empty PROVE m[k + 1] <= i
        <3>1. i \in DOMAIN call.ranges /\ r[i] = None
            BY <2>2
        <3>2. \A j \in 1..k : m[j] # i
            BY <1>7, <2>3, <2>5, <3>1
        <3>3. call.results[i] = None
            BY <2>3, <3>1, <3>2
        <3>4. PICK j \in 1..n : m[j] = i
            BY <1>5, <3>1, <3>3
        <3>5. j = k + 1 \/ k + 1 < j
            BY <1>3, <3>2, <3>4, <2>1
        <3> QED BY <1>4, <1>5, <2>1, <3>4, <3>5
    <2>8. empty \in SUBSET Nat /\ empty # {}
        BY <1>4, <2>2, <2>6
    <2> HIDE DEF empty
    <2>9. Min(empty) = m[k + 1]
        <3>1. Min(empty) \in empty /\ \A x \in empty : Min(empty) <= x
            BY <2>8, MinIsLeast
        <3>2. Min(empty) \in Nat /\ m[k + 1] \in Nat /\ Min(empty) <= m[k + 1] /\ m[k + 1] <= Min(empty)
            BY <2>6, <2>7, <2>8, <3>1
        <3> QED BY <3>2
    <2>10. h[k + 1] = [r EXCEPT ![m[k + 1]] = call.fetched[k + 1]]
        BY <2>4, <2>8, <2>9
    <2>11. m[k + 1] \in DOMAIN r
        BY <1>5, <2>1, <2>2
    <2>12. ASSUME NEW j \in 1..k + 1 PROVE h[k + 1][m[j]] = call.fetched[j]
        <3>1. CASE j = k + 1
            BY <2>10, <2>11, <3>1
        <3>2. CASE j # k + 1
            <4>1. j \in 1..k
                BY <2>1, <3>2
            <4>2. m[j] \in DOMAIN r /\ m[j] # m[k + 1]
                BY <1>5, <2>2, <2>5, <4>1
            <4> QED BY <2>3, <2>10, <4>1, <4>2
        <3> QED BY <3>1, <3>2
    <2>13. ASSUME NEW i \in DOMAIN call.ranges, \A j \in 1..k + 1 : m[j] # i
           PROVE  h[k + 1][i] = call.results[i]
        <3>1. i # m[k + 1] /\ \A j \in 1..k : m[j] # i
            BY <2>1, <2>13
        <3> QED BY <2>2, <2>3, <2>10, <3>1
    <2> QED BY <2>1, <2>12, <2>13
<1>10. n \in T
    <2> HIDE DEF T
    <2>1. \A k \in 0..n : k \in T
        BY <1>3, <1>8, <1>9, InductionUpTo
    <2> QED BY <1>3, <2>1
<1>11. \A i \in DOMAIN call.ranges : call.results[i] # None => \A j \in 1..n : m[j] # i
    BY <1>5
<1> QED BY <1>1, <1>3, <1>6, <1>10, <1>11

-----------------------------------------------------------------------------
(* The requests before the first that failed have bytes. *)
LEMMA TakenHaveBytes ==
    ASSUME version \in Nat, NEW call, CallInv(call), AllAnswered(call)
    PROVE  /\ Taken(call) \subseteq DOMAIN call.fetched
           /\ \A k \in Taken(call) : call.fetched[k] \in 1..version
<1> DEFINE n == Len(call.missing)
           failures == {i \in 1..Len(call.fetched) : call.fetched[i] = Lost}
<1>1. n \in Nat /\ DOMAIN call.fetched = 1..n /\ \A k \in 1..n : call.fetched[k] \in -1..version
    BY DEF CallInv
<1>2. Len(call.fetched) = n
    <2>1. call.fetched \in [1..n -> -1..version]
        BY <1>1 DEF CallInv
    <2>2. call.fetched \in Seq(-1..version)
        BY <1>1, <2>1, SeqDef
    <2> QED BY <1>1, <2>2
<1>3. \A k \in 1..n : call.fetched[k] # None /\ (call.fetched[k] # Lost => call.fetched[k] \in 1..version)
    BY <1>1 DEF AllAnswered, None, Lost
<1>4. Taken(call) = IF failures = {} THEN DOMAIN call.fetched
                    ELSE IF Min(failures) = 0 THEN DOMAIN call.fetched ELSE 1..Min(failures) - 1
    BY DEF Taken, SelectInSeq
<1>5. CASE failures = {}
    BY <1>1, <1>2, <1>3, <1>4, <1>5
<1>6. CASE failures # {}
    <2>1. failures \in SUBSET Nat
        BY <1>1, <1>2
    <2>2. Min(failures) \in failures /\ \A x \in failures : Min(failures) <= x
        <3> HIDE DEF failures
        <3> QED BY <2>1, <1>6, MinIsLeast
    <2>3. Min(failures) \in 1..n
        BY <1>2, <2>2
    <2>4. Taken(call) = 1..Min(failures) - 1
        BY <1>4, <1>6, <2>3
    <2>5. ASSUME NEW k \in Taken(call) PROVE k \in 1..n /\ call.fetched[k] # Lost
        <3>1. k \in 1..n /\ ~(Min(failures) <= k)
            BY <1>1, <2>3, <2>4
        <3>2. k \notin failures
            BY <2>2, <3>1
        <3> QED BY <1>2, <3>1, <3>2
    <2> QED BY <1>1, <1>3, <2>5
<1> QED BY <1>5, <1>6

(* A call that does not fail has an answer to every request. *)
LEMMA AnsweredHaveBytes ==
    ASSUME version \in Nat, NEW call, CallInv(call), AllAnswered(call), ~CallFails(call)
    PROVE  \A k \in DOMAIN call.fetched : call.fetched[k] \in 1..version
BY TakenHaveBytes DEF CallFails

(* No two requests share a place, and every result has bytes in the end.   *)
LEMMA AnswersAreOfRanges ==
    ASSUME version \in Nat, NEW call, CallInv(call), AllAnswered(call), ~CallFails(call),
           NEW i \in DOMAIN call.ranges
    PROVE  /\ Filled(call)[i] \in 1..version
           /\ \/ Filled(call)[i] = call.results[i]
              \/ \E k \in DOMAIN call.missing :
                    call.missing[k] = call.ranges[i] /\ Filled(call)[i] = call.fetched[k]
<1>1. PICK m : /\ Places(m, call)
               /\ \A j \in DOMAIN call.missing : Filled(call)[m[j]] = call.fetched[j]
               /\ \A k \in DOMAIN call.ranges :
                     call.results[k] # None => Filled(call)[k] = call.results[k]
    BY AnswersLand
<1>2. CASE call.results[i] # None
    <2>1. call.results[i] \in 0..version
        BY DEF CallInv
    <2> QED BY <1>1, <1>2, <2>1 DEF None
<1>3. CASE call.results[i] = None
    <2>1. PICK j \in DOMAIN call.missing : m[j] = i
        BY <1>1, <1>3 DEF Places
    <2>2. call.missing[j] = call.ranges[i] /\ Filled(call)[i] = call.fetched[j]
        BY <1>1, <2>1 DEF Places
    <2>3. j \in DOMAIN call.fetched
        BY <2>1 DEF CallInv
    <2> QED BY <2>1, <2>2, <2>3, AnsweredHaveBytes
<1> QED BY <1>2, <1>3

LEMMA KeptIsOfVersions ==
    ASSUME version \in Nat, NEW call, CallInv(call), AllAnswered(call),
           \A r \in DOMAIN cache : cache[r] \in 1..version
    PROVE  \A r \in DOMAIN Kept(call) : Kept(call)[r] \in 1..version
<1> DEFINE kept == {call.missing[k] : k \in Taken(call)}
           of(r) == {k \in Taken(call) : call.missing[k] = r}
           last(r) == CHOOSE k \in Taken(call) : /\ call.missing[k] = r
                                                 /\ \A l \in Taken(call) : call.missing[l] = r => l <= k
<1>1. Kept(call) = [r \in DOMAIN cache \cup kept |-> IF r \in kept THEN call.fetched[last(r)] ELSE cache[r]]
    BY DEF Kept
<1>2. Taken(call) \subseteq 1..Len(call.missing) /\ Len(call.missing) \in Nat
    <2>1. Taken(call) \subseteq DOMAIN call.fetched
        BY TakenHaveBytes
    <2>2. DOMAIN call.fetched = 1..Len(call.missing) /\ Len(call.missing) \in Nat
        BY DEF CallInv
    <2> QED BY <2>1, <2>2
<1>3. ASSUME NEW r \in kept PROVE last(r) \in Taken(call)
    <2>1. of(r) \in SUBSET (1..Len(call.missing)) /\ of(r) # {}
        BY <1>2
    <2>2. Max(of(r)) \in of(r) /\ \A x \in of(r) : x <= Max(of(r))
        <3> HIDE DEF of
        <3> QED BY <1>2, <2>1, MaxOfIndices
    <2>3. \E k \in Taken(call) : /\ call.missing[k] = r
                                 /\ \A l \in Taken(call) : call.missing[l] = r => l <= k
        BY <2>2
    <2> QED BY <2>3
<1> HIDE DEF kept, last
<1> QED BY <1>1, <1>3, TakenHaveBytes

LEMMA AskedIsACall ==
    ASSUME version \in Nat, NEW ranges \in Seq(Ranges), NEW kept, \A r \in DOMAIN kept : kept[r] \in 1..version
    PROVE  CallInv(Asked(ranges, kept))
<1> DEFINE call == Asked(ranges, kept)
<1>1. \A r \in DOMAIN kept : kept[r] # None
    BY DEF None
<1>2. Missing(ranges, kept) \in Seq(Ranges) /\ \E m : Places(m, call)
    BY <1>1, MissingHasPlaces
<1>3. call.ranges = ranges /\ call.missing = Missing(ranges, kept) /\ call.results = LookedUp(ranges, kept)
      /\ call.fetched = [k \in DOMAIN Missing(ranges, kept) |-> None]
    BY DEF Asked
<1>4. LookedUp(ranges, kept) \in [DOMAIN ranges -> 0..version]
    BY DEF LookedUp, None
<1>5. call.fetched \in [DOMAIN call.missing -> -1..version]
    BY <1>3 DEF None
<1> HIDE DEF call
<1>6. CallInv(call)
    BY <1>2, <1>3, <1>4, <1>5 DEF CallInv
<1> QED BY <1>6 DEF call

(* What is cached, and the calls in flight, at any time. *)
CacheInv ==
    /\ version \in Nat /\ version >= 1
    /\ \A r \in DOMAIN cache : cache[r] \in 1..version
    /\ \A c \in DOMAIN calls : CallInv(calls[c])

LEMMA CallMakesACall ==
    ASSUME CacheInv, NEW caller, NEW ranges \in Seq(Ranges), Call(caller, ranges), UNCHANGED <<version, cache>>
    PROVE  CacheInv' /\ DOMAIN calls' = DOMAIN calls \cup {caller}
<1>1. CallInv(Asked(ranges, cache))
    BY AskedIsACall DEF CacheInv
<1>2. \A call : CallInv(call)' <=> CallInv(call)
    BY DEF CallInv, Places
<1> QED BY <1>1, <1>2 DEF CacheInv, Call

LEMMA ReturnKeepsTheCalls ==
    ASSUME CacheInv, NEW caller \in DOMAIN calls, Return(caller)
    PROVE  CacheInv' /\ DOMAIN calls' = DOMAIN calls \ {caller}
<1>1. AllAnswered(calls[caller]) /\ cache' = Kept(calls[caller]) /\ UNCHANGED version
      /\ calls' = [c \in DOMAIN calls \ {caller} |-> calls[c]]
    BY DEF Return
<1>2. \A r \in DOMAIN Kept(calls[caller]) : Kept(calls[caller])[r] \in 1..version
    BY <1>1, KeptIsOfVersions DEF CacheInv
<1>3. \A call : CallInv(call)' <=> CallInv(call)
    BY <1>1 DEF CallInv, Places
<1> QED BY <1>1, <1>2, <1>3 DEF CacheInv

LEMMA ForgetKeepsTheCalls ==
    ASSUME CacheInv, NEW callers, Forget(callers)
    PROVE  CacheInv'
<1>1. UNCHANGED <<version, cache>> /\ calls' = [c \in DOMAIN calls \ callers |-> calls[c]]
    BY DEF Forget
<1>2. \A call : CallInv(call)' <=> CallInv(call)
    BY <1>1 DEF CallInv, Places
<1> QED BY <1>1, <1>2 DEF CacheInv

LEMMA RepublishKeepsTheCalls ==
    ASSUME CacheInv, Republish PROVE CacheInv' /\ UNCHANGED calls
<1>1. version \in Nat /\ version' = version + 1 /\ UNCHANGED <<cache, calls>>
    BY DEF Republish, CacheInv
<1>2. 0..version \subseteq 0..version' /\ -1..version \subseteq -1..version' /\ 1..version \subseteq 1..version'
    BY <1>1
<1>3. \A call : CallInv(call) => CallInv(call)'
    BY <1>2 DEF CallInv, Places
<1> QED BY <1>1, <1>2, <1>3 DEF CacheInv

LEMMA AnswerKeepsTheCalls ==
    ASSUME CacheInv, NEW caller \in DOMAIN calls, NEW k \in DOMAIN calls[caller].fetched, FetchAnswers(caller, k)
    PROVE  CacheInv' /\ DOMAIN calls' = DOMAIN calls
<1>1. UNCHANGED <<version, cache>>
    BY DEF FetchAnswers
<1>2. PICK answer \in {version, Lost} : calls' = [calls EXCEPT ![caller].fetched[k] = answer]
    BY DEF FetchAnswers
<1> DEFINE call == calls[caller]
           after == [call EXCEPT !.fetched[k] = answer]
<1>3. answer \in -1..version
    BY DEF Lost, CacheInv
<1>4. CallInv(call)
    BY DEF CacheInv
<1>5. calls' = [calls EXCEPT ![caller] = after]
    BY <1>2
<1>6. after.fetched = [call.fetched EXCEPT ![k] = answer] /\ after.ranges = call.ranges
      /\ after.missing = call.missing /\ after.results = call.results
    OBVIOUS
<1>7. CallInv(after)
    <2>1. k \in DOMAIN call.fetched
        OBVIOUS
    <2> HIDE DEF after, call
    <2>2. after.fetched \in [DOMAIN after.missing -> -1..version]
        BY <1>3, <1>4, <1>6, <2>1 DEF CallInv
    <2>3. PICK m : Places(m, call)
        BY <1>4 DEF CallInv
    <2>4. Places(m, after)
        BY <1>6, <2>3 DEF Places
    <2> QED BY <1>4, <1>6, <2>2, <2>4 DEF CallInv
<1> HIDE DEF after
<1>8. \A c : CallInv(c)' <=> CallInv(c)
    BY <1>1 DEF CallInv, Places
<1> QED BY <1>1, <1>5, <1>7, <1>8 DEF CacheInv

-----------------------------------------------------------------------------
(* Inductive: a task that waits for a batch has a call. *)
BytesInv ==
    /\ BatchesInv
    /\ CacheInv
    /\ \A n \in DOMAIN tasks : HasBatch(n) => n \in DOMAIN calls

LEMMA RangesAreThere ==
    ASSUME NEW stream \in DOMAIN Batches PROVE RangesOf[stream] \in Seq(Ranges)
BY BatchesHaveRanges

LEMMA BytesInvInit == Init => BytesInv
<1> SUFFICES ASSUME Init PROVE BytesInv
    OBVIOUS
<1>1. CacheInv
    BY DEF Init, CacheInit, CacheInv
<1>2. \A n \in DOMAIN tasks : ~HasBatch(n)
    BY QueryHasBatches DEF Init, ViewInit, Task, HasBatch, NoStream
<1> QED BY <1>1, <1>2, BatchesInvInit DEF BytesInv

(* A step that leaves the cache and takes no task on. *)
LEMMA TasksOnlyEnd ==
    ASSUME BytesInv, UNCHANGED cacheVars,
           \A n \in DOMAIN tasks' : HasBatch(n)' => n \in DOMAIN tasks /\ HasBatch(n)
    PROVE  CacheInv' /\ \A n \in DOMAIN tasks' : HasBatch(n)' => n \in DOMAIN calls'
<1>1. \A call : CallInv(call)' <=> CallInv(call)
    BY DEF CallInv, Places, cacheVars
<1> QED BY <1>1 DEF BytesInv, CacheInv, cacheVars

LEMMA PollsKeepBytes ==
    ASSUME BytesInv, NEW n, NEW kind, NEW alone, NEW stream, Polls(n, kind, alone, stream)
    PROVE  CacheInv' /\ \A m \in DOMAIN tasks' : HasBatch(m)' => m \in DOMAIN calls'
<1>1. /\ tasks' = [m \in DOMAIN tasks \cup {n} |-> IF m = n THEN Task(kind, stream, alone) ELSE tasks[m]]
      /\ IF stream \in DOMAIN Batches THEN Call(n, RangesOf[stream]) /\ UNCHANGED <<version, cache>>
         ELSE UNCHANGED cacheVars
    BY DEF Polls, With
<1>2. HasBatch(n)' <=> stream \in DOMAIN Batches
    BY <1>1 DEF HasBatch, Task
<1>3. \A m \in DOMAIN tasks' : m # n => m \in DOMAIN tasks /\ (HasBatch(m)' <=> HasBatch(m))
    BY <1>1 DEF HasBatch
<1>4. CASE stream \in DOMAIN Batches
    <2>1. CacheInv' /\ DOMAIN calls' = DOMAIN calls \cup {n}
        BY <1>1, <1>4, RangesAreThere, CallMakesACall DEF BytesInv
    <2> QED BY <1>3, <2>1 DEF BytesInv
<1>5. CASE stream \notin DOMAIN Batches
    BY <1>1, <1>2, <1>3, <1>5, TasksOnlyEnd
<1> QED BY <1>4, <1>5

LEMMA BatchComesKeepsBytes ==
    ASSUME BytesInv, NEW n \in DOMAIN tasks, BatchComes(n)
    PROVE  CacheInv' /\ \A m \in DOMAIN tasks' : HasBatch(m)' => m \in DOMAIN calls'
<1> DEFINE next == tasks[n].stream + 1
<1>1. n \in DOMAIN calls /\ AllAnswered(calls[n]) /\ n = 1 /\ DOMAIN tasks = {1}
    BY OneTask DEF BatchComes, BatchIsRead, BytesInv
<1>2. CASE tasks[n].kind \in {"csv", "parquet"}
    <2>1. /\ cache' = Kept(calls[n]) /\ UNCHANGED version
          /\ tasks' = [tasks EXCEPT ![n].stream = next]
          /\ calls' = IF next \in DOMAIN Batches
                      THEN [calls EXCEPT ![n] = Asked(RangesOf[next], Kept(calls[n]))]
                      ELSE [c \in DOMAIN calls \ {n} |-> calls[c]]
        BY <1>2 DEF BatchComes
    <2>2. \A r \in DOMAIN Kept(calls[n]) : Kept(calls[n])[r] \in 1..version
        BY <1>1, KeptIsOfVersions DEF BytesInv, CacheInv
    <2>3. \A call : CallInv(call)' <=> CallInv(call)
        BY <2>1 DEF CallInv, Places
    <2>4. DOMAIN tasks' = {1} /\ tasks'[n].stream = next
        BY <1>1, <2>1, OneTask DEF BytesInv
    <2> HIDE DEF next
    <2>5. CASE next \in DOMAIN Batches
        <3>1. CallInv(Asked(RangesOf[next], Kept(calls[n])))
            BY <2>2, <2>5, RangesAreThere, AskedIsACall DEF BytesInv, CacheInv
        <3> QED BY <1>1, <2>1, <2>2, <2>3, <2>4, <2>5, <3>1 DEF BytesInv, CacheInv
    <2>6. CASE next \notin DOMAIN Batches
        BY <1>1, <2>1, <2>2, <2>3, <2>4, <2>6 DEF BytesInv, CacheInv, HasBatch
    <2> QED BY <2>5, <2>6
<1>3. CASE tasks[n].kind \notin {"csv", "parquet"}
    <2>1. Return(n) /\ tasks' = Without(n)
        BY <1>3 DEF BatchComes
    <2>2. DOMAIN tasks' = {}
        BY <1>1, <2>1 DEF Without
    <2> QED BY <1>1, <2>1, <2>2, ReturnKeepsTheCalls DEF BytesInv
<1> QED BY <1>2, <1>3

LEMMA TaskStepKeepsBytes ==
    ASSUME BytesInv, NEW n \in DOMAIN tasks, TaskStep(n)
    PROVE  CacheInv' /\ \A m \in DOMAIN tasks' : HasBatch(m)' => m \in DOMAIN calls'
<1>0. n = 1 /\ DOMAIN tasks = {1} /\ DOMAIN Without(n) = {}
    BY OneTask DEF BytesInv
<1>1. CASE QueryFails(n)
    <2>1. UNCHANGED cacheVars /\ tasks' = Without(n)
        BY <1>1 DEF QueryFails
    <2> QED BY <1>0, <2>1, TasksOnlyEnd
<1>2. CASE QueryStarts(n)
    <2>1. tasks' = [tasks EXCEPT ![n].stream = 1]
          /\ IF Batches = <<>> THEN UNCHANGED cacheVars ELSE Call(n, RangesOf[1]) /\ UNCHANGED <<version, cache>>
        BY <1>2 DEF QueryStarts
    <2>2. DOMAIN tasks' = {1} /\ tasks'[n].stream = 1
        BY <1>0, <2>1, OneTask DEF BytesInv
    <2>3. CASE Batches = <<>>
        <3>1. ~HasBatch(n)'
            BY <2>2, <2>3 DEF HasBatch
        <3> QED BY <1>0, <2>1, <2>2, <2>3, <3>1, TasksOnlyEnd
    <2>4. CASE Batches # <<>>
        <3>1. 1 \in DOMAIN Batches
            BY <2>4, BatchesHaveRanges
        <3>2. CacheInv' /\ DOMAIN calls' = DOMAIN calls \cup {n}
            BY <2>1, <2>4, <3>1, RangesAreThere, CallMakesACall DEF BytesInv
        <3> QED BY <1>0, <2>2, <3>2
    <2> QED BY <2>3, <2>4
<1>3. CASE BatchComes(n)
    BY <1>3, BatchComesKeepsBytes
<1>4. CASE BatchFails(n)
    <2>1. Return(n) /\ tasks' = Without(n) /\ n \in DOMAIN calls
        BY <1>4 DEF BatchFails, BytesInv
    <2> QED BY <1>0, <2>1, ReturnKeepsTheCalls DEF BytesInv
<1>5. CASE StreamEnds(n)
    <2>1. UNCHANGED cacheVars /\ tasks' = Without(n)
        BY <1>5 DEF StreamEnds
    <2> QED BY <1>0, <2>1, TasksOnlyEnd
<1> QED BY <1>1, <1>2, <1>3, <1>4, <1>5 DEF TaskStep

LEMMA BytesInvNext == BytesInv /\ [Next]_vars => BytesInv'
<1> SUFFICES ASSUME BytesInv, [Next]_vars PROVE BytesInv'
    OBVIOUS
<1>0. BatchesInv'
    BY BatchesInvNext DEF BytesInv
<1> SUFFICES CacheInv' /\ \A n \in DOMAIN tasks' : HasBatch(n)' => n \in DOMAIN calls'
    BY <1>0 DEF BytesInv
<1>1. CASE Unmount
    <2>1. DOMAIN tasks' = {} /\ Forget(DOMAIN tasks)
        BY <1>1 DEF Unmount
    <2> QED BY <2>1, ForgetKeepsTheCalls DEF BytesInv
<1>2. CASE Mount
    <2>1. UNCHANGED cacheVars /\ \A n \in DOMAIN tasks' : ~HasBatch(n)'
        BY <1>2, QueryHasBatches DEF Mount, HasBatch, Task, NoStream
    <2> QED BY <2>1, TasksOnlyEnd
<1>3. CASE \E kind \in {"csv", "parquet"} : Export(kind)
    <2>1. PICK kind \in {"csv", "parquet"} : Export(kind)
        BY <1>3
    <2>2. CASE remaining_stream = NoStream
        <3>1. UNCHANGED <<tasks, cacheVars>>
            BY <2>1, <2>2 DEF Export
        <3> QED BY <3>1, TasksOnlyEnd DEF HasBatch
    <2>3. CASE remaining_stream # NoStream
        BY <2>1, <2>3, PollsKeepBytes DEF Export
    <2> QED BY <2>2, <2>3
<1>4. CASE ShowMore
    <2>1. UNCHANGED <<tasks, cacheVars>>
        BY <1>4 DEF ShowMore
    <2> QED BY <2>1, TasksOnlyEnd DEF HasBatch
<1>5. CASE LoadNextBatch
    BY <1>5, PollsKeepBytes DEF LoadNextBatch
<1>6. CASE \E n \in DOMAIN tasks : TaskStep(n)
    BY <1>6, TaskStepKeepsBytes
<1>7. CASE OtherCalls
    <2>1. UNCHANGED <<version, cache, tasks>> /\ \E ranges \in OtherReads : Call(Other, ranges)
        BY <1>7 DEF OtherCalls, view
    <2>2. CacheInv' /\ DOMAIN calls' = DOMAIN calls \cup {Other}
        BY <2>1, OtherReadsAreRanges, CallMakesACall DEF BytesInv
    <2> QED BY <2>1, <2>2 DEF BytesInv, HasBatch
<1>8. CASE OtherReturns
    <2>1. Other \in DOMAIN calls /\ Return(Other) /\ UNCHANGED tasks
        BY <1>8 DEF OtherReturns, view
    <2>2. CacheInv' /\ DOMAIN calls' = DOMAIN calls \ {Other}
        BY <2>1, ReturnKeepsTheCalls DEF BytesInv
    <2>3. \A n \in DOMAIN tasks : n # Other
        BY OneTask DEF BytesInv, Other
    <2> QED BY <2>1, <2>2, <2>3 DEF BytesInv, HasBatch
<1>9. CASE Republished
    <2>1. CacheInv' /\ UNCHANGED <<calls, tasks>>
        BY <1>9, RepublishKeepsTheCalls DEF Republished, view, BytesInv
    <2> QED BY <2>1 DEF BytesInv, HasBatch
<1>10. CASE \E c \in DOMAIN calls : Answer(c)
    <2>1. PICK c \in DOMAIN calls : \E k \in DOMAIN calls[c].fetched : FetchAnswers(c, k)
        BY <1>10 DEF Answer
    <2>2. CacheInv' /\ DOMAIN calls' = DOMAIN calls
        BY <2>1, AnswerKeepsTheCalls DEF BytesInv
    <2>3. UNCHANGED tasks
        BY <1>10 DEF Answer, view
    <2> QED BY <2>2, <2>3 DEF BytesInv, HasBatch
<1>11. CASE UNCHANGED vars
    BY <1>11, TasksOnlyEnd DEF vars, view, HasBatch
<1> QED BY <1>1, <1>2, <1>3, <1>4, <1>5, <1>6, <1>7, <1>8, <1>9, <1>10, <1>11 DEF Next

(* get_ranges answers every range it was asked for with bytes of that      *)
(* range that the cache had or that were fetched for it, also a range that *)
(* was asked for twice: its last unwrap finds no result empty.             *)
THEOREM EveryRangeIsAnswered == Spec => []AnswersAreOfTheirRanges
<1>1. BytesInv => AnswersAreOfTheirRanges
    <2> SUFFICES ASSUME BytesInv PROVE AnswersAreOfTheirRanges
        OBVIOUS
    <2>1. version \in Nat /\ \A c \in DOMAIN calls : CallInv(calls[c])
        BY DEF BytesInv, CacheInv
    <2>2. ASSUME NEW c \in DOMAIN calls, AllAnswered(calls[c]), ~CallFails(calls[c]), NEW i \in DOMAIN calls[c].ranges
          PROVE  /\ Filled(calls[c])[i] \in 1..version
                 /\ \/ Filled(calls[c])[i] = calls[c].results[i]
                    \/ \E k \in DOMAIN calls[c].missing :
                          calls[c].missing[k] = calls[c].ranges[i] /\ Filled(calls[c])[i] = calls[c].fetched[k]
        BY <2>1, <2>2, AnswersAreOfRanges
    <2> QED BY <2>2 DEF AnswersAreOfTheirRanges, BytesInv, CacheInv
<1> QED BY <1>1, BytesInvInit, BytesInvNext, PTL DEF Spec
=============================================================================
