------------------------------ MODULE Rewriter ------------------------------
(***************************************************************************)
(* The Parquet rewriter of the viewer (views/parquet_rewriter/tool.rs):    *)
(* files are read and listed, the settings of the writer are edited, and a *)
(* click rewrites the listed files into one that is downloaded.            *)
(*                                                                         *)
(* The page is single-threaded: an action is what runs between two awaits. *)
(* A click on Rewrite takes its files and its settings along; the task it  *)
(* spawns runs later, and other handlers run in between.  Files are read   *)
(* concurrently and are listed in the order their reads end.  The page is  *)
(* rendered again before the next event: what is shown is computed from    *)
(* the state, by the operators under "What is shown".                      *)
(***************************************************************************)
EXTENDS Integers, Sequences, SequencesExt, Lists

CONSTANTS
    Inputs,        \* the files that can be dropped or chosen
    Codecs,        \* CompressionChoice
    Sizes,         \* what can be typed into a size: numbers, and text that is none
    MaxReads,      \* bound: files dropped
    MaxEdits,      \* bound: changes of the settings
    MaxClears      \* bound: presses of Clear all, and visits to another page

DefaultCodec == "lz4_raw" \* CompressionChoice::default
DefaultSize == 1000000 \* of pages and row groups: more than is typed or read

(* A column is a name and its leaves; a plain column is its own leaf.      *)
ASSUME InputsAreFiles ==
    \A f \in Inputs : /\ {"parquet", "readable", "sound", "schema", "groups", "codec"} \subseteq DOMAIN f
                      /\ f.groups \in Seq(Seq(Int))
ASSUME DefaultIsACodec == DefaultCodec \in Codecs
ASSUME BoundsAreNats == MaxReads \in Nat /\ MaxEdits \in Nat /\ MaxClears \in Nat

VARIABLES
    files,        \* RewriteState.files
    is_rewriting, \* RewriteState.is_rewriting
    error,        \* RewriteState.error, by its cause
    settings,     \* RewriteSettings
    reads,        \* the files being read
    rewrites,     \* the rewrites that were clicked and have not run
    downloaded,   \* what the last step has downloaded, and what was asked for
    dropped, edits, clears \* how often they happened

state == <<files, is_rewriting, error>>
counts == <<dropped, edits, clears>>
vars == <<state, settings, reads, rewrites, downloaded, counts>>

-----------------------------------------------------------------------------
(* Files. *)

Rows(f) == FlattenSeq(f.groups)

(* read_parquet_file_info, once the buffer is there *)
ParquetFileInfo(f) ==
    [schema      |-> f.schema,
     data        |-> f,
     row_count   |-> Total([g \in DOMAIN f.groups |-> Len(f.groups[g])]),
     compression |-> IF f.groups = <<>> THEN "uncompressed" ELSE f.codec]

schemas_match == \A i \in DOMAIN files : files[i].schema = files[1].schema

total_rows == Total([i \in DOMAIN files |-> files[i].row_count])

(* Settings. *)

DefaultSettings ==
    [compression            |-> DefaultCodec,
     data_page_size         |-> DefaultSize,
     dictionary_page_size   |-> DefaultSize,
     row_group_size         |-> DefaultSize,
     page_index_enabled     |-> TRUE,
     bloom_filter_enabled   |-> FALSE,
     per_column_compression |-> FALSE,
     column_compressions    |-> [name \in {} |-> DefaultCodec]]

-----------------------------------------------------------------------------
(* What is shown. *)

CanRewrite == files # <<>> /\ schemas_match

ColumnNames == IF files = <<>> THEN {} ELSE {files[1].schema[i].name : i \in DOMAIN files[1].schema}

(* column_rows: the codec shown beside each column *)
ColumnRows ==
    [name \in ColumnNames |-> IF name \in DOMAIN settings.column_compressions
                              THEN settings.column_compressions[name] ELSE "default"]

(* The rows of the list, each with what is known of the file, and the sum below. *)
FileList ==
    [items |-> [i \in DOMAIN files |-> [rows |-> files[i].row_count, compression |-> files[i].compression]],
     total_rows |-> total_rows]

(* The settings: the overrides are there only under their toggle. *)
SettingsShown ==
    [settings EXCEPT !.column_compressions =
        IF settings.per_column_compression THEN ColumnRows ELSE [name \in {} |-> "default"]]

(* The button is enabled or turns. *)
Spinner == is_rewriting
ButtonEnabled == CanRewrite /\ ~is_rewriting

-----------------------------------------------------------------------------
(* The writer. *)

(* Mutant: the choices are used with their toggle off. *)
WriterIgnoringToggle(s, leaf) ==
    IF Len(leaf) = 1 /\ leaf[1] \in DOMAIN s.column_compressions
    THEN s.column_compressions[leaf[1]] ELSE s.compression

(* The codec of a leaf.  A choice is set for the path that has the name of *)
(* the column as its one part: no leaf of a nested column has that path.   *)
Writer(s, leaf) ==
    IF s.per_column_compression /\ Len(leaf) = 1 /\ leaf[1] \in DOMAIN s.column_compressions
    THEN s.column_compressions[leaf[1]] ELSE s.compression

(* ArrowWriter: a row group is closed when it is full.                     *)
InGroups(rows, size) ==
    [k \in 1..((Len(rows) + size - 1) \div size) |->
        SubSeq(rows, (k - 1) * size + 1, IF k * size < Len(rows) THEN k * size ELSE Len(rows))]

Leaves(schema) == UNION {schema[i].leaves : i \in DOMAIN schema}

Failed == [failed |-> TRUE]
NothingDownloaded == [failed |-> TRUE]

(* rewrite_parquet_files of a list that is not empty: the rows of the      *)
(* files one after the other, or nothing when a page cannot be decoded.    *)
RewriteParquetFiles(fs, s) ==
    IF \E i \in DOMAIN fs : ~fs[i].data.sound THEN Failed
    ELSE [failed |-> FALSE,
          schema |-> fs[1].schema,
          groups |-> InGroups(FlattenSeq([i \in DOMAIN fs |-> Rows(fs[i].data)]), s.row_group_size),
          codecs |-> [leaf \in Leaves(fs[1].schema) |-> Writer(s, leaf)],
          data_page_size |-> s.data_page_size,
          dictionary_page_size |-> s.dictionary_page_size,
          page_index |-> s.page_index_enabled,
          bloom_filter |-> s.bloom_filter_enabled]

-----------------------------------------------------------------------------
(* Files come and go. *)

Init ==
    /\ files = <<>> /\ is_rewriting = FALSE /\ error = "none"
    /\ settings = DefaultSettings
    /\ reads = <<>> /\ rewrites = <<>>
    /\ downloaded = NothingDownloaded
    /\ dropped = 0 /\ edits = 0 /\ clears = 0

(* handle_file_data and read_web_file of one of the files dropped or       *)
(* chosen: another extension is refused in a toast.                        *)
DropFile ==
    /\ dropped < MaxReads /\ dropped' = dropped + 1
    /\ \E f \in Inputs : reads' = IF f.parquet THEN Append(reads, f) ELSE reads
    /\ downloaded' = NothingDownloaded
    /\ UNCHANGED <<state, settings, rewrites, edits, clears>>

(* Mutant: the schema is not compared. *)
AddFileUnchecked(info) == files' = Append(files, info) /\ error' = "none"

(* add_file: the state is that of the moment the read has ended. *)
AddFile(info) ==
    IF files # <<>> /\ files[1].schema # info.schema
    THEN error' = "mismatch" /\ UNCHANGED files
    ELSE files' = Append(files, info) /\ error' = "none"

(* The end of read_parquet_file_info: a file that is no Parquet file is    *)
(* refused in a toast.                                                     *)
FileIsRead(n) ==
    /\ IF reads[n].readable THEN AddFile(ParquetFileInfo(reads[n])) ELSE UNCHANGED <<files, error>>
    /\ reads' = RemoveAt(reads, n)
    /\ downloaded' = NothingDownloaded
    /\ UNCHANGED <<is_rewriting, settings, rewrites, counts>>

RemoveFile(i) ==
    /\ files' = RemoveAt(files, i)
    /\ error' = IF schemas_match' THEN "none" ELSE "remaining"
    /\ downloaded' = NothingDownloaded
    /\ UNCHANGED <<is_rewriting, settings, reads, rewrites, counts>>

(* clear_all sets a new state: the flag of a rewrite in flight with it.    *)
ClearAll ==
    /\ files # <<>>
    /\ clears < MaxClears /\ clears' = clears + 1
    /\ files' = <<>> /\ is_rewriting' = FALSE /\ error' = "none"
    /\ downloaded' = NothingDownloaded
    /\ UNCHANGED <<settings, reads, rewrites, dropped, edits>>

(* Another page is opened: the component and its tasks are dropped. *)
Leave ==
    /\ clears < MaxClears /\ clears' = clears + 1
    /\ files' = <<>> /\ is_rewriting' = FALSE /\ error' = "none"
    /\ settings' = DefaultSettings
    /\ reads' = <<>> /\ rewrites' = <<>>
    /\ downloaded' = NothingDownloaded
    /\ UNCHANGED <<dropped, edits>>

-----------------------------------------------------------------------------
(* The settings are edited. *)

Edit(s) ==
    /\ edits < MaxEdits /\ edits' = edits + 1
    /\ settings' = s
    /\ downloaded' = NothingDownloaded
    /\ UNCHANGED <<state, reads, rewrites, dropped, clears>>

ResetSettings == Edit(DefaultSettings)

(* What is typed counts when it is a number above zero. *)
Counts(size) == size \in Nat /\ size > 0

UpdatePageSize(size) == Counts(size) /\ Edit([settings EXCEPT !.data_page_size = size])
UpdateRowGroupSize(size) == Counts(size) /\ Edit([settings EXCEPT !.row_group_size = size])
UpdateDictionaryPageSize(size) == Counts(size) /\ Edit([settings EXCEPT !.dictionary_page_size = size])
UpdateCompression(codec) == Edit([settings EXCEPT !.compression = codec])
TogglePageIndex == Edit([settings EXCEPT !.page_index_enabled = ~@])
ToggleBloomFilter == Edit([settings EXCEPT !.bloom_filter_enabled = ~@])
TogglePerColumnCompression == Edit([settings EXCEPT !.per_column_compression = ~@])

(* A choice beside a column; the choices are kept by name, whatever files  *)
(* are listed.                                                             *)
ChooseForColumn(name, choice) ==
    /\ settings.per_column_compression
    /\ LET old == settings.column_compressions
           names == DOMAIN old \cup {name}
       IN Edit([settings EXCEPT !.column_compressions =
                   IF choice = "default" THEN Restrict(old, DOMAIN old \ {name})
                   ELSE [n \in names |-> IF n = name THEN choice ELSE old[n]]])

EditSettings ==
    \/ ResetSettings \/ TogglePageIndex \/ ToggleBloomFilter \/ TogglePerColumnCompression
    \/ \E size \in Sizes : UpdatePageSize(size) \/ UpdateRowGroupSize(size) \/ UpdateDictionaryPageSize(size)
    \/ \E codec \in Codecs : UpdateCompression(codec)
    \/ \E name \in ColumnNames, choice \in Codecs \cup {"default"} : ChooseForColumn(name, choice)

-----------------------------------------------------------------------------
(* A rewrite. *)

Asked == [files |-> files, settings |-> settings, list |-> FileList, shown |-> SettingsShown]

(* do_rewrite, up to the task it spawns.  The checks of the handler repeat *)
(* the button's.                                                           *)
DoRewrite ==
    /\ ButtonEnabled
    /\ is_rewriting' = TRUE
    /\ rewrites' = Append(rewrites, Asked)
    /\ downloaded' = NothingDownloaded
    /\ UNCHANGED <<files, error, settings, reads, counts>>

(* Mutant: the state taken at the click is written back. *)
RewriteEndsWithItsState(n) ==
    LET asked == rewrites[n]
        rewritten == RewriteParquetFiles(asked.files, asked.settings)
    IN /\ is_rewriting' = FALSE /\ files' = asked.files
       /\ error' = IF rewritten.failed THEN "failed" ELSE error
       /\ downloaded' = IF rewritten.failed THEN NothingDownloaded ELSE [asked |-> asked, saved |-> rewritten]
       /\ rewrites' = RemoveAt(rewrites, n)
       /\ UNCHANGED <<settings, reads, counts>>

(* Mutant: a failed rewrite leaves the flag. *)
RewriteEndsWithoutReset(n) ==
    LET asked == rewrites[n]
        rewritten == RewriteParquetFiles(asked.files, asked.settings)
    IN /\ is_rewriting' = (is_rewriting /\ rewritten.failed)
       /\ error' = IF rewritten.failed THEN "failed" ELSE error
       /\ downloaded' = IF rewritten.failed THEN NothingDownloaded ELSE [asked |-> asked, saved |-> rewritten]
       /\ rewrites' = RemoveAt(rewrites, n)
       /\ UNCHANGED <<files, settings, reads, counts>>

(* The spawned task: rewrites, downloads, and ends in the state of then.   *)
(* An error that was shown before stays when the rewrite succeeds.         *)
RewriteEnds(n) ==
    LET asked == rewrites[n]
        rewritten == RewriteParquetFiles(asked.files, asked.settings)
    IN /\ rewrites' = RemoveAt(rewrites, n)
       /\ UNCHANGED <<files, settings, reads, counts>>
       /\ is_rewriting' = FALSE
       /\ error' = IF rewritten.failed THEN "failed" ELSE error
       /\ downloaded' = IF rewritten.failed THEN NothingDownloaded ELSE [asked |-> asked, saved |-> rewritten]

-----------------------------------------------------------------------------
Next ==
    \/ DropFile \/ ClearAll \/ Leave \/ EditSettings \/ DoRewrite
    \/ \E n \in DOMAIN reads : FileIsRead(n)
    \/ \E i \in DOMAIN files : RemoveFile(i)
    \/ \E n \in DOMAIN rewrites : RewriteEnds(n)

Spec == Init /\ [][Next]_vars

(* Spawned tasks run: the executor polls what it was given. *)
FairSpec ==
    /\ Spec
    /\ WF_vars(\E n \in DOMAIN rewrites : RewriteEnds(n))

-----------------------------------------------------------------------------
(* Properties *)

(* The files of the list, and of every rewrite under way, have one schema, *)
(* in whatever order concurrent reads end and files are removed; what a    *)
(* file claims is what it holds; the error "Schema mismatch between        *)
(* remaining files" is never shown.  The rows written are then of one kind.*)
OneSchema(fs) == \A i, j \in DOMAIN fs : fs[i].schema = fs[j].schema
SchemasAgree ==
    /\ OneSchema(files) /\ \A n \in DOMAIN rewrites : OneSchema(rewrites[n].files)
    /\ error # "remaining"

(* What is downloaded is what the page showed when it was asked for: the   *)
(* rows of the files of the list one after the other, as many as the total *)
(* said, in row groups of the size that was set, every plain column under  *)
(* the codec shown for it, the page index and the bloom filter as switched.*)
(* Edits made while the rewrite was under way have no part in it.  The     *)
(* choice shown beside a column with nested leaves has none either.        *)
CodecShown(shown, column) ==
    LET choices == shown.column_compressions
    IN IF column.name \in DOMAIN choices /\ choices[column.name] # "default"
       THEN choices[column.name] ELSE shown.compression
OutputIsWhatWasShown ==
    downloaded # NothingDownloaded =>
        LET saved == downloaded.saved
            shown == downloaded.asked.shown
            listed == downloaded.asked.files
            rows == FlattenSeq(saved.groups)
        IN /\ rows = FlattenSeq(FlattenSeq([i \in DOMAIN listed |-> listed[i].data.groups]))
           /\ Len(rows) = downloaded.asked.list.total_rows
           /\ \A k \in DOMAIN saved.groups : Len(saved.groups[k]) \in 1..shown.row_group_size
           /\ \A i \in DOMAIN saved.schema :
                 LET column == saved.schema[i]
                 IN column.leaves = {<<column.name>>} => saved.codecs[<<column.name>>] = CodecShown(shown, column)
           /\ saved.page_index = shown.page_index_enabled
           /\ saved.bloom_filter = shown.bloom_filter_enabled

(* Starting and ending a rewrite leaves the list alone: files added and    *)
(* removed while it was under way stay so.                                 *)
RewritesLeaveTheList ==
    [][rewrites' # rewrites /\ clears' = clears => files' = files]_vars

(* The button always comes back, whether the rewrite succeeds or fails.    *)
ButtonComesBack == []<>~Spinner
=============================================================================
