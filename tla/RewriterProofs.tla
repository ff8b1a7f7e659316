--------------------------- MODULE RewriterProofs ---------------------------
(***************************************************************************)
(* The list of the rewriter and the lists its rewrites took along have one *)
(* schema, for any inputs and any number of reads, edits and rewrites; no  *)
(* rewrite changes the list; and what is downloaded is what was shown when *)
(* the rewrite was asked for.                                              *)
(***************************************************************************)
EXTENDS Rewriter, SequenceFacts

SequencesOnly == IsSequence(files) /\ IsSequence(reads) /\ IsSequence(rewrites)

(* Inductive: removing and appending are what they should be on sequences  *)
(* only, and the files of a rewrite had one schema when it was clicked.    *)
SchemaInv == SequencesOnly /\ SchemasAgree

-----------------------------------------------------------------------------
(* Lists of files. *)

LEMMA OneSchemaOfPart ==
    ASSUME NEW fs, OneSchema(fs), NEW part,
           \A i \in DOMAIN part : \E k \in DOMAIN fs : part[i] = fs[k]
    PROVE  OneSchema(part)
BY DEF OneSchema

(* add_file keeps one schema: it compares with the first of the list. *)
LEMMA AddFileKeepsOneSchema ==
    ASSUME IsSequence(files), OneSchema(files), error # "remaining", NEW info, AddFile(info)
    PROVE  IsSequence(files') /\ OneSchema(files') /\ error' # "remaining"
<1>1. CASE files # <<>> /\ files[1].schema # info.schema
    BY <1>1 DEF AddFile
<1>2. CASE ~(files # <<>> /\ files[1].schema # info.schema)
    <2>1. files' = Append(files, info) /\ error' = "none"
        BY <1>2 DEF AddFile
    <2>2. /\ IsSequence(files')
          /\ \A i \in DOMAIN files' : files'[i] = info \/ \E k \in DOMAIN files : files'[i] = files[k]
        BY <2>1, AppendIsSequence
    <2>3. files # <<>> => 1 \in DOMAIN files
        BY DEF IsSequence
    <2>4. \A k \in DOMAIN files : files[k].schema = info.schema
        BY <1>2, <2>3 DEF OneSchema
    <2> QED BY <2>1, <2>2, <2>4 DEF OneSchema
<1> QED BY <1>1, <1>2

(* remove_file keeps one schema, so its own check of it never fails. *)
LEMMA RemoveFileKeepsOneSchema ==
    ASSUME IsSequence(files), OneSchema(files), NEW n \in DOMAIN files, RemoveFile(n)
    PROVE  IsSequence(files') /\ OneSchema(files') /\ error' # "remaining"
<1>1. files' = RemoveAt(files, n) /\ error' = IF schemas_match' THEN "none" ELSE "remaining"
    BY DEF RemoveFile
<1>2. IsSequence(files') /\ \A i \in DOMAIN files' : \E k \in DOMAIN files : files'[i] = files[k]
    BY <1>1, RemoveAtIsSequence
<1>3. OneSchema(files')
    BY <1>2, OneSchemaOfPart
<1>4. \A i \in DOMAIN files' : 1 \in DOMAIN files'
    BY <1>2 DEF IsSequence
<1>5. schemas_match'
    BY <1>3, <1>4 DEF schemas_match, OneSchema
<1> QED BY <1>1, <1>2, <1>3, <1>5

-----------------------------------------------------------------------------
(* The steps. *)

LEMMA SchemaInvInit == Init => SchemaInv
BY EmptyIsSequence DEF Init, SchemaInv, SequencesOnly, SchemasAgree, OneSchema

LEMMA EditsLeaveTheLists == EditSettings => UNCHANGED <<state, reads, rewrites>>
BY DEF EditSettings, ResetSettings, UpdatePageSize, UpdateRowGroupSize, UpdateDictionaryPageSize, UpdateCompression,
       TogglePageIndex, ToggleBloomFilter, TogglePerColumnCompression, ChooseForColumn, Edit

LEMMA SchemaInvNext == SchemaInv /\ [Next]_vars => SchemaInv'
<1> SUFFICES ASSUME SchemaInv, [Next]_vars
             PROVE  SchemaInv'
    OBVIOUS
<1> USE DEF SchemaInv, SequencesOnly, SchemasAgree
<1>1. CASE DropFile
    BY <1>1, AppendIsSequence DEF DropFile, state
<1>2. CASE ClearAll
    BY <1>2, EmptyIsSequence DEF ClearAll, OneSchema
<1>3. CASE Leave
    BY <1>3, EmptyIsSequence DEF Leave, OneSchema
<1>4. CASE EditSettings
    BY <1>4, EditsLeaveTheLists DEF state
<1>5. CASE DoRewrite
    <2>1. rewrites' = Append(rewrites, Asked) /\ UNCHANGED <<files, error, reads>> /\ Asked.files = files
        BY <1>5 DEF DoRewrite, Asked
    <2>2. \A n \in DOMAIN rewrites' : OneSchema(rewrites'[n].files)
        BY <2>1, AppendIsSequence
    <2> QED BY <2>1, <2>2, AppendIsSequence
<1>6. CASE \E n \in DOMAIN reads : FileIsRead(n)
    <2>1. PICK n \in DOMAIN reads : FileIsRead(n)
        BY <1>6
    <2>2. IsSequence(reads') /\ UNCHANGED rewrites
        BY <2>1, RemoveAtIsSequence DEF FileIsRead
    <2>3. IsSequence(files') /\ OneSchema(files') /\ error' # "remaining"
        BY <2>1, AddFileKeepsOneSchema DEF FileIsRead
    <2> QED BY <2>2, <2>3
<1>7. CASE \E n \in DOMAIN files : RemoveFile(n)
    <2>1. PICK n \in DOMAIN files : RemoveFile(n)
        BY <1>7
    <2>2. UNCHANGED <<reads, rewrites>>
        BY <2>1 DEF RemoveFile
    <2> QED BY <2>1, <2>2, RemoveFileKeepsOneSchema
<1>8. CASE \E n \in DOMAIN rewrites : RewriteEnds(n)
    <2>1. PICK n \in DOMAIN rewrites : RewriteEnds(n)
        BY <1>8
    <2>2. rewrites' = RemoveAt(rewrites, n) /\ UNCHANGED <<files, reads>> /\ error' \in {"failed", error}
        BY <2>1 DEF RewriteEnds
    <2>3. IsSequence(rewrites') /\ \A i \in DOMAIN rewrites' : \E k \in DOMAIN rewrites : rewrites'[i] = rewrites[k]
        BY <2>2, RemoveAtIsSequence
    <2> QED BY <2>2, <2>3
<1>9. CASE UNCHANGED vars
    BY <1>9 DEF vars, state
<1> QED BY <1>1, <1>2, <1>3, <1>4, <1>5, <1>6, <1>7, <1>8, <1>9 DEF Next

(* The files of the list and of every rewrite have one schema: whatever is *)
(* read, removed and cleared in whatever order, rewrite_parquet_files gets *)
(* files that agree with the first one's schema.                           *)
THEOREM ListsHaveOneSchema == Spec => []SchemasAgree
<1>1. SchemaInv => SchemasAgree
    BY DEF SchemaInv
<1> QED BY <1>1, SchemaInvInit, SchemaInvNext, PTL DEF Spec

(* do_rewrite and the end of its task leave the list as it is: what was    *)
(* added and removed meanwhile stays so.                                   *)
THEOREM RewritesLeaveFiles == Spec => RewritesLeaveTheList
<1>1. [Next]_vars => [rewrites' # rewrites /\ clears' = clears => files' = files]_vars
    <2> SUFFICES ASSUME [Next]_vars, rewrites' # rewrites, clears' = clears, ~UNCHANGED vars
                 PROVE  files' = files
        OBVIOUS
    <2>1. CASE DropFile BY <2>1 DEF DropFile
    <2>2. CASE ClearAll BY <2>2 DEF ClearAll
    <2>3. CASE Leave BY <2>3 DEF Leave
    <2>4. CASE EditSettings BY <2>4, EditsLeaveTheLists
    <2>5. CASE DoRewrite BY <2>5 DEF DoRewrite
    <2>6. CASE \E n \in DOMAIN reads : FileIsRead(n) BY <2>6 DEF FileIsRead
    <2>7. CASE \E n \in DOMAIN files : RemoveFile(n) BY <2>7 DEF RemoveFile
    <2>8. CASE \E n \in DOMAIN rewrites : RewriteEnds(n) BY <2>8 DEF RewriteEnds
    <2> QED BY <2>1, <2>2, <2>3, <2>4, <2>5, <2>6, <2>7, <2>8 DEF Next
<1> QED BY <1>1, PTL DEF Spec, RewritesLeaveTheList
-----------------------------------------------------------------------------
(* The writer: row groups of rows.                                         *)

(* How many groups there are, and where they begin. *)
LEMMA GroupBounds ==
    ASSUME NEW len \in Nat, NEW size \in Nat \ {0},
           NEW n, n = (len + size - 1) \div size
    PROVE  /\ n \in Nat /\ n * size >= len /\ (n = 0 => len = 0)
           /\ \A k \in 1..n : (k - 1) * size \in Nat /\ (k - 1) * size < len /\ k * size = (k - 1) * size + size
<1> DEFINE t == len + size - 1
<1>1. t \in Nat /\ size \in Nat /\ size > 0
    OBVIOUS
<1>2. n \in Nat /\ n * size <= t /\ t < n * size + size
    <2>1. n = t \div size
        OBVIOUS
    <2> HIDE DEF t
    <2> QED BY <1>1, <2>1, SMTT(30)
<1>3. n * size \in Nat
    BY <1>1, <1>2, SMTT(30)
<1>4. n * size >= len
    BY <1>1, <1>2, <1>3
<1>5. n = 0 => len = 0
    <2> SUFFICES ASSUME n = 0 PROVE len = 0
        OBVIOUS
    <2>1. n * size = 0
        BY <1>1
    <2> QED BY <1>4, <2>1
<1>6. ASSUME NEW k \in 1..n
      PROVE  (k - 1) * size \in Nat /\ (k - 1) * size < len /\ k * size = (k - 1) * size + size
    <2>1. k \in Nat /\ k >= 1 /\ k <= n
        BY <1>2
    <2>2. PICK d \in Nat : n = k + d
        BY <1>2, <2>1
    <2>3. k * size = (k - 1) * size + size
        BY <1>1, <2>1, SMTT(30)
    <2>4. (k - 1) * size \in Nat
        BY <1>1, <2>1, SMTT(30)
    <2>5. n * size = k * size + d * size /\ d * size \in Nat
        BY <1>1, <2>1, <2>2, SMTT(30)
    <2> QED BY <1>1, <1>2, <2>3, <2>4, <2>5
<1> QED BY <1>2, <1>4, <1>5, <1>6

(* Every row is in one group, in order, and no group is empty or overfull. *)
LEMMA GroupsHoldTheRows ==
    ASSUME NEW S, NEW rows \in Seq(S), NEW size \in Nat \ {0}
    PROVE  /\ FlattenSeq(InGroups(rows, size)) = rows
           /\ \A k \in DOMAIN InGroups(rows, size) : Len(InGroups(rows, size)[k]) \in 1..size
<1> DEFINE len == Len(rows)
           n == (len + size - 1) \div size
           groups == InGroups(rows, size)
           End(k) == IF k * size < len THEN k * size ELSE len
           g == [k \in 0..n |-> SubSeq(rows, 1, End(k))]
<1>1. len \in Nat /\ size \in Nat /\ size > 0
    OBVIOUS
<1>2. /\ n \in Nat /\ n * size >= len /\ (n = 0 => len = 0)
      /\ \A k \in 1..n : (k - 1) * size \in Nat /\ (k - 1) * size < len /\ k * size = (k - 1) * size + size
    <2> HIDE DEF len
    <2> QED BY <1>1, GroupBounds
<1>3. groups = [k \in 1..n |-> SubSeq(rows, (k - 1) * size + 1, End(k))]
    BY DEF InGroups
<1> HIDE DEF groups, n
<1>4. ASSUME NEW k \in 1..n
      PROVE  /\ End(k - 1) = (k - 1) * size /\ End(k) \in End(k - 1) + 1..End(k - 1) + size /\ End(k) <= len
             /\ End(k) \in Nat
    <2> DEFINE b == (k - 1) * size
    <2>1. b \in Nat /\ b < len /\ k * size = b + size
        BY <1>2
    <2>2. End(k - 1) = b
        BY <2>1
    <2>3. End(k) = IF b + size < len THEN b + size ELSE len
        BY <2>1
    <2> HIDE DEF b, End, len
    <2> QED BY <1>1, <2>1, <2>2, <2>3 DEF b
<1>5. ASSUME NEW k \in 1..n
      PROVE  groups[k] \in Seq(S) /\ Len(groups[k]) \in 1..size /\ g[k] = g[k - 1] \o groups[k]
    <2> DEFINE b == (k - 1) * size
               e == End(k)
    <2>1. b \in Nat /\ e \in b + 1..b + size /\ e <= len /\ End(k - 1) = b /\ e \in Nat
        BY <1>2, <1>4
    <2>2. k - 1 \in 0..n /\ k \in 0..n
        BY <1>2
    <2>3. groups[k] = SubSeq(rows, b + 1, e) /\ g[k] = SubSeq(rows, 1, e)
        BY <1>3, <2>2
    <2>4. g[k - 1] = SubSeq(rows, 1, b)
        <3>1. g[k - 1] = SubSeq(rows, 1, End(k - 1))
            BY <2>2
        <3> HIDE DEF g, End
        <3> QED BY <2>1, <3>1
    <2> HIDE DEF b, e, g, End
    <2>5. /\ b + 1 \in Nat /\ SubSeq(rows, b + 1, e) \in Seq(S) /\ Len(SubSeq(rows, b + 1, e)) = e - b
        <3>1. b + 1 \in 1..len + 1 /\ e \in (b + 1) - 1..len
            BY <1>1, <2>1
        <3>2. \A i \in b + 1..e : rows[i] \in S
            BY <1>1, <2>1
        <3>3. /\ SubSeq(rows, b + 1, e) \in Seq(S)
              /\ Len(SubSeq(rows, b + 1, e)) = IF b + 1 <= e THEN e - (b + 1) + 1 ELSE 0
            BY <1>1, <2>1, <3>1, <3>2, SubSeqProperties
        <3> QED BY <1>1, <2>1, <3>3
    <2>6. SubSeq(rows, 1, b) \o SubSeq(rows, b + 1, e) = SubSeq(rows, 1, e)
        <3>1. 1 \in 1..len + 1 /\ b \in 1 - 1..len /\ e \in b..len
            BY <1>1, <2>1
        <3> QED BY <3>1, ConcatAdjacentSubSeq
    <2>7. Len(groups[k]) \in 1..size
        BY <1>1, <2>1, <2>3, <2>5
    <2> QED BY <2>3, <2>4, <2>5, <2>6, <2>7
<1>6. groups \in Seq(Seq(S)) /\ Len(groups) = n /\ DOMAIN groups = 1..n
    <2>1. groups \in [1..n -> Seq(S)]
        BY <1>3, <1>5
    <2> QED BY <1>2, <2>1, SeqDef
<1>7. g[0] = <<>>
    <2>1. 0 * size = 0 /\ 0 \in 0..n
        BY <1>1, <1>2
    <2>2. End(0) = 0
        BY <1>1, <2>1
    <2>3. g[0] = SubSeq(rows, 1, End(0))
        BY <2>1
    <2>4. SubSeq(rows, 1, 0) = <<>>
        BY SubSeqEmpty, <1>1
    <2> HIDE DEF g, End
    <2> QED BY <2>2, <2>3, <2>4
<1>8. g[n] = rows
    <2>1. n \in 0..n /\ End(n) = len
        BY <1>1, <1>2
    <2>2. g[n] = SubSeq(rows, 1, End(n))
        BY <2>1
    <2>3. SubSeq(rows, 1, len) = rows
        BY SubSeqFull
    <2> HIDE DEF g, End
    <2> QED BY <2>1, <2>2, <2>3
<1> HIDE DEF g
<1>9. FlattenSeq(groups) = g[Len(groups)]
    BY <1>5, <1>6, <1>7, FlattenIs
<1>10. FlattenSeq(groups) = rows /\ \A k \in DOMAIN groups : Len(groups[k]) \in 1..size
    BY <1>5, <1>6, <1>8, <1>9
<1> QED BY <1>10 DEF groups

-----------------------------------------------------------------------------
(* What is asked for, and what is written.                                 *)
Infos == {ParquetFileInfo(f) : f \in Inputs}
Names == UNION {{f.schema[i].name : i \in DOMAIN f.schema} : f \in Inputs}
ChoicesMade == UNION {[names -> Codecs \ {"default"}] : names \in SUBSET Names}
SettingsType ==
    [compression : Codecs, data_page_size : Nat \ {0}, dictionary_page_size : Nat \ {0}, row_group_size : Nat \ {0},
     page_index_enabled : BOOLEAN, bloom_filter_enabled : BOOLEAN, per_column_compression : BOOLEAN,
     column_compressions : ChoicesMade]

NamesOf(fs) == {fs[1].schema[i].name : i \in DOMAIN fs[1].schema}
ShownOf(fs, s) ==
    [s EXCEPT !.column_compressions =
        IF s.per_column_compression
        THEN [name \in NamesOf(fs) |-> IF name \in DOMAIN s.column_compressions
                                       THEN s.column_compressions[name] ELSE "default"]
        ELSE [name \in {} |-> "default"]]

(* What a rewrite took along was on the page when it was asked for. *)
WasShown(asked) ==
    /\ asked.files \in Seq(Infos) /\ asked.files # <<>>
    /\ asked.settings \in SettingsType
    /\ asked.list.total_rows = Total([i \in DOMAIN asked.files |-> asked.files[i].row_count])
    /\ asked.shown = ShownOf(asked.files, asked.settings)

Written(asked) == RewriteParquetFiles(asked.files, asked.settings)

AskedInv ==
    /\ reads \in Seq(Inputs) /\ files \in Seq(Infos)
    /\ settings \in SettingsType
    /\ IsSequence(rewrites) /\ \A n \in DOMAIN rewrites : WasShown(rewrites[n])
    /\ downloaded # NothingDownloaded =>
          \E asked : /\ WasShown(asked) /\ ~Written(asked).failed
                     /\ downloaded = [asked |-> asked, saved |-> Written(asked)]

(* The rows that are written are those of the files, in their order, and   *)
(* as many as their footers say.                                           *)
LEMMA RowsAreThoseOfTheFiles ==
    ASSUME NEW fs \in Seq(Infos)
    PROVE  LET rows == FlattenSeq([i \in DOMAIN fs |-> Rows(fs[i].data)])
           IN /\ rows \in Seq(Int)
              /\ rows = FlattenSeq(FlattenSeq([i \in DOMAIN fs |-> fs[i].data.groups]))
              /\ Len(rows) = Total([i \in DOMAIN fs |-> fs[i].row_count])
<1> DEFINE n == Len(fs)
           groups == [i \in DOMAIN fs |-> fs[i].data.groups]
           each == [i \in DOMAIN fs |-> Rows(fs[i].data)]
           rowCounts == [i \in DOMAIN fs |-> fs[i].row_count]
<1>1. n \in Nat /\ DOMAIN fs = 1..n
    OBVIOUS
<1>2. ASSUME NEW i \in 1..n
      PROVE  /\ groups[i] \in Seq(Seq(Int)) /\ each[i] = FlattenSeq(groups[i])
             /\ each[i] \in Seq(Int) /\ rowCounts[i] = Len(each[i])
    <2>1. fs[i] \in Infos
        BY <1>1
    <2>2. PICK f \in Inputs : fs[i] = ParquetFileInfo(f)
        BY <2>1 DEF Infos
    <2>3. /\ fs[i].data = f /\ fs[i].row_count = Total([g \in DOMAIN f.groups |-> Len(f.groups[g])])
        BY <2>2 DEF ParquetFileInfo
    <2>4. f.groups \in Seq(Seq(Int))
        BY InputsAreFiles
    <2>5. /\ FlattenSeq(f.groups) \in Seq(Int)
          /\ Len(FlattenSeq(f.groups)) = Total([g \in DOMAIN f.groups |-> Len(f.groups[g])])
        BY <2>4, FlattenLen
    <2> QED BY <1>1, <2>3, <2>4, <2>5 DEF Rows
<1>3. /\ groups \in Seq(Seq(Seq(Int))) /\ DOMAIN groups = 1..n
      /\ each \in Seq(Seq(Int)) /\ DOMAIN each = 1..n
    <2>1. groups \in [1..n -> Seq(Seq(Int))] /\ each \in [1..n -> Seq(Int)]
        BY <1>1, <1>2
    <2> QED BY <1>1, <2>1, SeqDef
<1>4. each = [i \in DOMAIN groups |-> FlattenSeq(groups[i])]
    BY <1>1, <1>2, <1>3
<1>5. rowCounts = [i \in DOMAIN each |-> Len(each[i])]
    BY <1>1, <1>2, <1>3
<1> HIDE DEF groups, each, rowCounts
<1>6. FlattenSeq(FlattenSeq(groups)) = FlattenSeq(each)
    BY <1>3, <1>4, FlattenNested
<1>7. FlattenSeq(each) \in Seq(Int) /\ Len(FlattenSeq(each)) = Total(rowCounts)
    BY <1>3, <1>5, FlattenLen
<1> QED BY <1>6, <1>7 DEF groups, each, rowCounts

(* A plain column is written under the codec that was shown for it.        *)
LEMMA CodecIsTheOneShown ==
    ASSUME NEW fs, NEW s \in SettingsType, NEW i \in DOMAIN fs[1].schema
    PROVE  Writer(s, <<fs[1].schema[i].name>>) = CodecShown(ShownOf(fs, s), fs[1].schema[i])
<1> DEFINE name == fs[1].schema[i].name
           column == fs[1].schema[i]
           leaf == <<name>>
           choices == s.column_compressions
<1>1. name \in NamesOf(fs)
    BY DEF NamesOf
<1>2. PICK names \in SUBSET Names : choices \in [names -> Codecs \ {"default"}]
    BY DEF SettingsType, ChoicesMade
<1>3. \A m \in DOMAIN choices : choices[m] # "default"
    BY <1>2
<1>4. Len(leaf) = 1 /\ leaf[1] = name
    OBVIOUS
<1>5. ShownOf(fs, s).compression = s.compression
    BY DEF ShownOf, SettingsType
<1>6. Writer(s, leaf) = IF s.per_column_compression /\ name \in DOMAIN choices THEN choices[name] ELSE s.compression
    <2> HIDE DEF leaf
    <2> QED BY <1>4 DEF Writer
<1> DEFINE shown == ShownOf(fs, s).column_compressions
<1>7. CodecShown(ShownOf(fs, s), column) =
        IF name \in DOMAIN shown /\ shown[name] # "default" THEN shown[name] ELSE s.compression
    BY <1>5 DEF CodecShown
<1>8. CASE s.per_column_compression
    <2>1. ShownOf(fs, s).column_compressions =
            [m \in NamesOf(fs) |-> IF m \in DOMAIN choices THEN choices[m] ELSE "default"]
        BY <1>8 DEF ShownOf, SettingsType
    <2>2. shown[name] = IF name \in DOMAIN choices THEN choices[name] ELSE "default"
        BY <1>1, <2>1
    <2>3. name \in DOMAIN shown
        BY <1>1, <2>1
    <2> HIDE DEF name, leaf, choices, shown, column
    <2>4. Writer(s, leaf) = CodecShown(ShownOf(fs, s), column)
        BY <1>3, <1>6, <1>7, <1>8, <2>2, <2>3
    <2> QED BY <2>4 DEF column, leaf, name
<1>9. CASE ~s.per_column_compression
    <2>1. ShownOf(fs, s).column_compressions = [m \in {} |-> "default"]
        BY <1>9 DEF ShownOf, SettingsType
    <2>2. name \notin DOMAIN shown
        BY <2>1
    <2> HIDE DEF name, leaf, choices, shown, column
    <2>3. Writer(s, leaf) = CodecShown(ShownOf(fs, s), column)
        BY <1>6, <1>7, <1>9, <2>2
    <2> QED BY <2>3 DEF column, leaf, name
<1> QED BY <1>8, <1>9

LEMMA ShownKeepsTheRest ==
    ASSUME NEW fs, NEW s \in SettingsType
    PROVE  LET shown == ShownOf(fs, s)
           IN /\ shown.row_group_size = s.row_group_size /\ shown.page_index_enabled = s.page_index_enabled
              /\ shown.bloom_filter_enabled = s.bloom_filter_enabled
BY DEF ShownOf, SettingsType

(* So every rewrite that ends without an error writes what was shown.      *)
LEMMA WritesWhatWasShown ==
    ASSUME AskedInv
    PROVE  OutputIsWhatWasShown
<1> SUFFICES ASSUME downloaded # NothingDownloaded
             PROVE  OutputIsWhatWasShown
    BY DEF OutputIsWhatWasShown
<1>1. PICK asked : /\ WasShown(asked) /\ ~Written(asked).failed
                   /\ downloaded = [asked |-> asked, saved |-> Written(asked)]
    BY DEF AskedInv
<1> DEFINE fs == asked.files
           s == asked.settings
           saved == Written(asked)
           rows == FlattenSeq([i \in DOMAIN fs |-> Rows(fs[i].data)])
<1>2. /\ fs \in Seq(Infos) /\ s \in SettingsType /\ asked.shown = ShownOf(fs, s)
      /\ asked.list.total_rows = Total([i \in DOMAIN fs |-> fs[i].row_count])
    BY <1>1 DEF WasShown
<1>3. downloaded.asked = asked /\ downloaded.saved = saved
    BY <1>1
<1>4. /\ saved.schema = fs[1].schema /\ saved.groups = InGroups(rows, s.row_group_size)
      /\ saved.codecs = [leaf \in Leaves(fs[1].schema) |-> Writer(s, leaf)]
      /\ saved.page_index = s.page_index_enabled /\ saved.bloom_filter = s.bloom_filter_enabled
    <2>1. ~\E i \in DOMAIN fs : ~fs[i].data.sound
        BY <1>1 DEF Written, RewriteParquetFiles, Failed
    <2> QED BY <2>1 DEF Written, RewriteParquetFiles
<1>5. /\ rows \in Seq(Int)
      /\ rows = FlattenSeq(FlattenSeq([i \in DOMAIN fs |-> fs[i].data.groups]))
      /\ Len(rows) = asked.list.total_rows
    BY <1>2, RowsAreThoseOfTheFiles
<1>6. s.row_group_size \in Nat \ {0}
    BY <1>2 DEF SettingsType
<1> HIDE DEF rows, saved, fs, s
<1>7. /\ FlattenSeq(saved.groups) = rows
      /\ \A k \in DOMAIN saved.groups : Len(saved.groups[k]) \in 1..s.row_group_size
    BY <1>4, <1>5, <1>6, GroupsHoldTheRows
<1>8. ASSUME NEW i \in DOMAIN saved.schema, saved.schema[i].leaves = {<<saved.schema[i].name>>}
      PROVE  saved.codecs[<<saved.schema[i].name>>] = CodecShown(asked.shown, saved.schema[i])
    <2>1. <<saved.schema[i].name>> \in Leaves(fs[1].schema)
        BY <1>4, <1>8 DEF Leaves
    <2>2. saved.codecs[<<saved.schema[i].name>>] = Writer(s, <<saved.schema[i].name>>)
        BY <1>4, <2>1
    <2>3. Writer(s, <<fs[1].schema[i].name>>) = CodecShown(ShownOf(fs, s), fs[1].schema[i])
        BY <1>2, <1>4, CodecIsTheOneShown
    <2> QED BY <1>2, <1>4, <2>2, <2>3
<1>9. /\ asked.shown.row_group_size = s.row_group_size /\ asked.shown.page_index_enabled = s.page_index_enabled
      /\ asked.shown.bloom_filter_enabled = s.bloom_filter_enabled
    BY <1>2, ShownKeepsTheRest
<1> QED BY <1>3, <1>4, <1>5, <1>7, <1>8, <1>9 DEF OutputIsWhatWasShown, fs

-----------------------------------------------------------------------------
(* The steps keep it.                                                      *)

LEMMA EmptyChoices == [name \in {} |-> DefaultCodec] \in ChoicesMade
<1>1. [name \in {} |-> DefaultCodec] \in [{} -> Codecs \ {"default"}] /\ {} \in SUBSET Names
    OBVIOUS
<1> QED BY <1>1 DEF ChoicesMade

LEMMA DefaultSettingsTyped == DefaultSettings \in SettingsType
BY EmptyChoices, DefaultIsACodec DEF DefaultSettings, SettingsType, DefaultSize

LEMMA AskedInvInit == Init => AskedInv
<1> SUFFICES ASSUME Init PROVE AskedInv
    OBVIOUS
<1>1. files = <<>> /\ reads = <<>> /\ rewrites = <<>> /\ settings = DefaultSettings /\ downloaded = NothingDownloaded
    BY DEF Init
<1>2. IsSequence(rewrites) /\ DOMAIN rewrites = {}
    BY <1>1, EmptyIsSequence
<1>3. files \in Seq(Infos) /\ reads \in Seq(Inputs)
    BY <1>1
<1> QED BY <1>1, <1>2, <1>3, DefaultSettingsTyped DEF AskedInv

(* The columns of the list are columns of the inputs. *)
LEMMA ColumnsHaveNames ==
    ASSUME files \in Seq(Infos)
    PROVE  ColumnNames \subseteq Names
<1> SUFFICES ASSUME files # <<>> PROVE ColumnNames \subseteq Names
    BY DEF ColumnNames
<1>1. files[1] \in Infos
    OBVIOUS
<1>2. PICK f \in Inputs : files[1] = ParquetFileInfo(f)
    BY <1>1 DEF Infos
<1>3. files[1].schema = f.schema
    BY <1>2 DEF ParquetFileInfo
<1> QED BY <1>3 DEF ColumnNames, Names

(* A choice is taken up or dropped; "default" is never kept. *)
LEMMA ChoosingKeepsChoices ==
    ASSUME NEW old \in ChoicesMade, NEW name \in Names, NEW choice \in Codecs \cup {"default"}
    PROVE  LET names == DOMAIN old \cup {name}
           IN (IF choice = "default" THEN Restrict(old, DOMAIN old \ {name})
               ELSE [n \in names |-> IF n = name THEN choice ELSE old[n]]) \in ChoicesMade
<1> DEFINE C == Codecs \ {"default"}
<1>1. PICK names \in SUBSET Names : old \in [names -> C]
    BY DEF ChoicesMade
<1>2. DOMAIN old = names /\ \A n \in names : old[n] \in C
    BY <1>1
<1>3. CASE choice = "default"
    <2>1. Restrict(old, DOMAIN old \ {name}) \in [names \ {name} -> C]
        BY <1>2 DEF Restrict
    <2>2. names \ {name} \in SUBSET Names
        OBVIOUS
    <2>3. Restrict(old, DOMAIN old \ {name}) \in ChoicesMade
        BY <2>1, <2>2 DEF ChoicesMade
    <2> QED BY <1>3, <2>3
<1>4. CASE choice # "default"
    <2> DEFINE new == [n \in DOMAIN old \cup {name} |-> IF n = name THEN choice ELSE old[n]]
    <2>1. new \in [names \cup {name} -> C]
        BY <1>2, <1>4
    <2>2. names \cup {name} \in SUBSET Names
        OBVIOUS
    <2> HIDE DEF new
    <2>3. new \in ChoicesMade
        BY <2>1, <2>2 DEF ChoicesMade
    <2> QED BY <1>4, <2>3 DEF new
<1> QED BY <1>3, <1>4

LEMMA EditsKeepSettingsTyped ==
    ASSUME files \in Seq(Infos), settings \in SettingsType, EditSettings
    PROVE  settings' \in SettingsType /\ downloaded' = NothingDownloaded
<1> USE DEF Edit
<1>1. CASE ResetSettings
    BY <1>1, DefaultSettingsTyped DEF ResetSettings
<1>2. CASE TogglePageIndex
    BY <1>2 DEF TogglePageIndex, SettingsType
<1>3. CASE ToggleBloomFilter
    BY <1>3 DEF ToggleBloomFilter, SettingsType
<1>4. CASE TogglePerColumnCompression
    BY <1>4 DEF TogglePerColumnCompression, SettingsType
<1>5. CASE \E size \in Sizes : UpdatePageSize(size) \/ UpdateRowGroupSize(size) \/ UpdateDictionaryPageSize(size)
    <2>1. PICK size \in Sizes : UpdatePageSize(size) \/ UpdateRowGroupSize(size) \/ UpdateDictionaryPageSize(size)
        BY <1>5
    <2>2. size \in Nat \ {0}
        BY <2>1 DEF UpdatePageSize, UpdateRowGroupSize, UpdateDictionaryPageSize, Counts
    <2>3. CASE UpdatePageSize(size)
        BY <2>2, <2>3 DEF UpdatePageSize, SettingsType
    <2>4. CASE UpdateRowGroupSize(size)
        BY <2>2, <2>4 DEF UpdateRowGroupSize, SettingsType
    <2>5. CASE UpdateDictionaryPageSize(size)
        BY <2>2, <2>5 DEF UpdateDictionaryPageSize, SettingsType
    <2> QED BY <2>1, <2>3, <2>4, <2>5
<1>6. CASE \E codec \in Codecs : UpdateCompression(codec)
    BY <1>6 DEF UpdateCompression, SettingsType
<1>7. CASE \E name \in ColumnNames, choice \in Codecs \cup {"default"} : ChooseForColumn(name, choice)
    <2>1. PICK name \in ColumnNames, choice \in Codecs \cup {"default"} : ChooseForColumn(name, choice)
        BY <1>7
    <2> DEFINE old == settings.column_compressions
               new == LET names == DOMAIN old \cup {name}
                      IN IF choice = "default" THEN Restrict(old, DOMAIN old \ {name})
                         ELSE [n \in names |-> IF n = name THEN choice ELSE old[n]]
    <2>2. name \in Names
        BY ColumnsHaveNames
    <2>3. old \in ChoicesMade
        BY DEF SettingsType
    <2>4. new \in ChoicesMade
        <3> HIDE DEF old
        <3> QED BY <2>2, <2>3, ChoosingKeepsChoices
    <2>5. settings' = [settings EXCEPT !.column_compressions = new] /\ downloaded' = NothingDownloaded
        BY <2>1 DEF ChooseForColumn
    <2> HIDE DEF new, old
    <2> QED BY <2>4, <2>5 DEF SettingsType
<1> QED BY <1>1, <1>2, <1>3, <1>4, <1>5, <1>6, <1>7 DEF EditSettings

(* What do_rewrite takes along is what is on the page. *)
LEMMA AskedIsShown ==
    ASSUME files \in Seq(Infos), files # <<>>, settings \in SettingsType
    PROVE  WasShown(Asked)
<1>1. Asked.files = files /\ Asked.settings = settings /\ Asked.list = FileList /\ Asked.shown = SettingsShown
    BY DEF Asked
<1>2. FileList.total_rows = Total([i \in DOMAIN files |-> files[i].row_count])
    BY DEF FileList, total_rows
<1>3. SettingsShown = ShownOf(files, settings)
    <2>1. ColumnNames = NamesOf(files)
        BY DEF ColumnNames, NamesOf
    <2> QED BY <2>1 DEF SettingsShown, ShownOf, ColumnRows
<1> QED BY <1>1, <1>2, <1>3 DEF WasShown

LEMMA AskedInvNext == AskedInv /\ [Next]_vars => AskedInv'
<1> SUFFICES ASSUME AskedInv, [Next]_vars
             PROVE  AskedInv'
    OBVIOUS
<1>0. /\ reads \in Seq(Inputs) /\ files \in Seq(Infos) /\ settings \in SettingsType
      /\ IsSequence(rewrites) /\ \A n \in DOMAIN rewrites : WasShown(rewrites[n])
    BY DEF AskedInv
(* Only the end of a rewrite downloads: any other step needs the rest.     *)
<1> DEFINE Rest == /\ reads' \in Seq(Inputs) /\ files' \in Seq(Infos) /\ settings' \in SettingsType
                   /\ IsSequence(rewrites') /\ \A n \in DOMAIN rewrites' : WasShown(rewrites'[n])
<1>01. ASSUME Rest, downloaded' = NothingDownloaded PROVE AskedInv'
    BY <1>01 DEF AskedInv, WasShown, NothingDownloaded
<1>1. CASE DropFile
    <2>1. reads' \in Seq(Inputs)
        <3>1. PICK f \in Inputs : reads' = IF f.parquet THEN Append(reads, f) ELSE reads
            BY <1>1 DEF DropFile
        <3>2. Append(reads, f) \in Seq(Inputs)
            BY <1>0, AppendProperties
        <3> QED BY <1>0, <3>1, <3>2
    <2>2. UNCHANGED <<files, settings, rewrites>> /\ downloaded' = NothingDownloaded
        BY <1>1 DEF DropFile, state
    <2> QED BY <1>0, <1>01, <2>1, <2>2
<1>2. CASE ClearAll
    <2>1. files' = <<>> /\ UNCHANGED <<reads, settings, rewrites>> /\ downloaded' = NothingDownloaded
        BY <1>2 DEF ClearAll
    <2>2. files' \in Seq(Infos)
        BY <2>1
    <2> QED BY <1>0, <1>01, <2>1, <2>2
<1>3. CASE Leave
    <2>1. /\ files' = <<>> /\ reads' = <<>> /\ rewrites' = <<>> /\ settings' = DefaultSettings
          /\ downloaded' = NothingDownloaded
        BY <1>3 DEF Leave
    <2>2. files' \in Seq(Infos) /\ reads' \in Seq(Inputs) /\ IsSequence(rewrites') /\ DOMAIN rewrites' = {}
        BY <2>1, EmptyIsSequence
    <2> QED BY <1>01, <2>1, <2>2, DefaultSettingsTyped
<1>4. CASE EditSettings
    <2>1. settings' \in SettingsType /\ downloaded' = NothingDownloaded
        BY <1>0, <1>4, EditsKeepSettingsTyped
    <2>2. UNCHANGED <<files, reads, rewrites>>
        BY <1>4, EditsLeaveTheLists DEF state
    <2> QED BY <1>0, <1>01, <2>1, <2>2
<1>5. CASE DoRewrite
    <2>1. /\ rewrites' = Append(rewrites, Asked) /\ UNCHANGED <<files, settings, reads>> /\ files # <<>>
          /\ downloaded' = NothingDownloaded
        BY <1>5 DEF DoRewrite, ButtonEnabled, CanRewrite
    <2>2. WasShown(Asked)
        BY <1>0, <2>1, AskedIsShown
    <2>3. IsSequence(rewrites') /\ \A n \in DOMAIN rewrites' : WasShown(rewrites'[n])
        BY <1>0, <2>1, <2>2, AppendIsSequence
    <2> QED BY <1>0, <1>01, <2>1, <2>3
<1>6. CASE \E n \in DOMAIN reads : FileIsRead(n)
    <2>1. PICK n \in DOMAIN reads : FileIsRead(n)
        BY <1>6
    <2>2. reads' \in Seq(Inputs) /\ UNCHANGED <<settings, rewrites>> /\ downloaded' = NothingDownloaded
        BY <1>0, <2>1, RemoveAtOf DEF FileIsRead
    <2>3. ParquetFileInfo(reads[n]) \in Infos
        <3>1. reads[n] \in Inputs
            BY <1>0
        <3> QED BY <3>1 DEF Infos
    <2>4. files' = files \/ files' = Append(files, ParquetFileInfo(reads[n]))
        BY <2>1 DEF FileIsRead, AddFile
    <2>5. Append(files, ParquetFileInfo(reads[n])) \in Seq(Infos)
        BY <1>0, <2>3, AppendProperties
    <2>6. files' \in Seq(Infos)
        BY <1>0, <2>4, <2>5
    <2> QED BY <1>0, <1>01, <2>2, <2>6
<1>7. CASE \E n \in DOMAIN files : RemoveFile(n)
    <2>1. PICK n \in DOMAIN files : RemoveFile(n)
        BY <1>7
    <2>2. /\ files' = RemoveAt(files, n) /\ UNCHANGED <<reads, settings, rewrites>>
          /\ downloaded' = NothingDownloaded
        BY <2>1 DEF RemoveFile
    <2>3. files' \in Seq(Infos)
        BY <1>0, <2>2, RemoveAtOf
    <2> QED BY <1>0, <1>01, <2>2, <2>3
<1>8. CASE \E n \in DOMAIN rewrites : RewriteEnds(n)
    <2>1. PICK n \in DOMAIN rewrites : RewriteEnds(n)
        BY <1>8
    <2>2. /\ rewrites' = RemoveAt(rewrites, n) /\ UNCHANGED <<files, settings, reads>>
          /\ downloaded' = IF Written(rewrites[n]).failed THEN NothingDownloaded
                           ELSE [asked |-> rewrites[n], saved |-> Written(rewrites[n])]
        BY <2>1 DEF RewriteEnds, Written
    <2>3. IsSequence(rewrites') /\ \A i \in DOMAIN rewrites' : \E k \in DOMAIN rewrites : rewrites'[i] = rewrites[k]
        BY <1>0, <2>2, RemoveAtIsSequence
    <2>4. Rest
        BY <1>0, <2>2, <2>3
    <2>5. CASE Written(rewrites[n]).failed
        BY <1>01, <2>2, <2>4, <2>5
    <2>6. CASE ~Written(rewrites[n]).failed
        <3>1. WasShown(rewrites[n])
            BY <1>0
        <3>2. \E asked : /\ WasShown(asked) /\ ~Written(asked).failed
                         /\ downloaded' = [asked |-> asked, saved |-> Written(asked)]
            BY <2>2, <2>6, <3>1
        <3> QED BY <2>4, <3>2 DEF AskedInv
    <2> QED BY <2>5, <2>6
<1>9. CASE UNCHANGED vars
    <2>1. UNCHANGED <<files, reads, settings, rewrites, downloaded>>
        BY <1>9 DEF vars, state
    <2> QED BY <2>1 DEF AskedInv
<1> QED BY <1>1, <1>2, <1>3, <1>4, <1>5, <1>6, <1>7, <1>8, <1>9 DEF Next

(* A download is what the page showed when the rewrite was asked for: all  *)
(* rows of the listed files in order, as many as the total, in groups of   *)
(* the size that was set, every plain column under the codec shown for it. *)
THEOREM OutputWasShown == Spec => []OutputIsWhatWasShown
<1> QED BY AskedInvInit, AskedInvNext, WritesWhatWasShown, PTL DEF Spec
=============================================================================
