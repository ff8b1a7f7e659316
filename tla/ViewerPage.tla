---------------------------- MODULE ViewerPage ------------------------------
(***************************************************************************)
(* The viewer and the panel of its last file, composed: the panel is there *)
(* while the viewer is the page and a file is loaded, and is given the     *)
(* next file when one has been loaded.  A render follows every change of   *)
(* the state before anything else happens.  An index out of bounds is a    *)
(* panic, and stops the page.                                              *)
(***************************************************************************)
EXTENDS ParquetViewer, FilePanel

CONSTANT MaxClicks \* bound: selections and cells asked

ASSUME ContentsAreParquet == \A n \in DOMAIN Contents : IsParquet(Contents[n])
ASSUME ObjectsAreContents == \A e \in Endpoints, s \in Sources : Object[e][s] \in {0} \cup DOMAIN Contents

VARIABLE clicks

vars == <<viewerVars, panelVars, clicks>>

(* The file the panel is given, by its place in the list: 0 for no panel. *)
Given == IF route = "viewer" THEN Len(files) ELSE 0
FileAt(n) == Contents[files[n].contents]

PanelFollows ==
    IF Given' = Given THEN UNCHANGED panelVars
    ELSE IF Given' = 0 THEN PanelUnmounts
    ELSE IF Given = 0 THEN PanelMounts(Given', FileAt(Given)')
    ELSE PanelIsGiven(Given', FileAt(Given)', FileAt(Given))

Init == ViewerInit /\ PanelInit /\ clicks = 0

Click(A) == clicks < MaxClicks /\ clicks' = clicks + 1 /\ A /\ UNCHANGED viewerVars

PanelNext ==
    /\ Given # 0
    /\ \/ Click(SelectRowGroup(Given, FileAt(Given)))
       \/ Click(SelectColumn(Given, FileAt(Given)))
       \/ \E c \in DOMAIN cells : Click(Ask(Given, c))

PanelWaits ==
    /\ PagesAreRead \/ \E c \in DOMAIN cells : Answers(c, [n \in DOMAIN files |-> FileAt(n)])
    /\ UNCHANGED <<viewerVars, clicks>>

Next ==
    /\ ~panicked
    /\ \/ ViewerNext /\ PanelFollows /\ UNCHANGED clicks
       \/ PanelNext \/ PanelWaits

Spec == Init /\ [][Next]_vars

-----------------------------------------------------------------------------
(* Properties *)

(* Every file of the list is a table of the session under its own key and  *)
(* source, and no two have one name: a second load of a name is refused,   *)
(* also when it was started before the first had ended.  So the chips of   *)
(* the list have different keys.                                           *)
TablesAreOfTheirFiles ==
    /\ \A i \in DOMAIN files :
         LET file == files[i]
         IN file.registered \in DOMAIN tables /\ tables[file.registered] = [key |-> file.key, source |-> file.source]
    /\ \A i, j \in DOMAIN files : i # j => files[i].registered # files[j].registered

(* A query reads the file it was submitted for: its first query, and one   *)
(* that names the file, quoted or between blanks.  The table it reads is   *)
(* that file's, and as long as the endpoint was not changed the bytes are  *)
(* the ones whose metadata is shown.  (A bucket of the same name at        *)
(* another endpoint is read through the store of the first; a name that    *)
(* ends the query is not replaced.)                                        *)
Names(query, file) ==
    \/ query.form \in {"default", "prose"}
    \/ query.form \in {"quoted", "spaced"} /\ query.table = file.table_name
QueriesReadTheirFile ==
    \A i \in DOMAIN results :
        LET entry == results[i]
            name == SqlTable(entry.query, entry.file)
        IN Names(entry.query, entry.file) =>
            /\ name \in DOMAIN tables
            /\ tables[name].source = entry.file.source
            /\ endpoints = 0 => ContentsAt(stores[tables[name].key], tables[name].source) = entry.file.contents

(* A load that ends has added its file and the first query of that file,   *)
(* or the error shown is its own.  Only the load of a dropped file, or of  *)
(* something shorter than a footer, may end without a word, by a panic,    *)
(* and it leaves the page as it was.  However loads end, the files and the *)
(* entries of other loads and of queries submitted meanwhile stay, each    *)
(* under its number, and nothing hidden comes back.                        *)
Kept(before, after) ==
    /\ Len(before) <= Len(after)
    /\ \A i \in DOMAIN before :
         /\ [after[i] EXCEPT !.display = TRUE] = [before[i] EXCEPT !.display = TRUE]
         /\ after[i].display => before[i].display
EndsInTheOpen(load) ==
    \/ error' = <<load.source>> /\ UNCHANGED <<files, results>>
    \/ /\ Len(files') = Len(files) + 1 /\ Last(files').source = load.source
       /\ Last(results') = Entry(Len(results), DefaultQuery, Last(files'))
    \/ (load.source.kind = "file" \/ load.source.short) /\ UNCHANGED page
LoadsEndInTheOpen ==
    [][/\ Len(loads') < Len(loads) =>
            \E i \in DOMAIN loads : loads' = RemoveAt(loads, i) /\ EndsInTheOpen(loads[i])
       /\ IsPrefix(files, files') /\ Kept(results, results')]_vars

(* The panel describes the file it was given.  Each Parquet column has one *)
(* line of the table, in the row of its field, and the rows span the lines *)
(* there are; the compressed sizes of the columns, those of the row groups *)
(* and that of the summary add up alike, and so do the uncompressed ones   *)
(* where the footer gives each group the size of its chunks (it says them  *)
(* separately, and neither they nor its count of rows are checked); a      *)
(* column that is null at most once a row in each group has no more nulls  *)
(* than the groups have rows (a count is cut to a u32: nothing is said of  *)
(* larger files).                                                          *)
(* In a file without nested fields, and with the selection made for it,    *)
(* the chunk shown is of the chosen column.                                *)
SizesAgree(f) ==
    \A g \in DOMAIN f.groups :
        f.groups[g].total_byte_size = SumOver(LAMBDA part : part.encoded, f.groups[g].columns)
Describes(f) ==
    LET lines == Lines(f)
        summary == MetadataSummary(f)
        columns == [i \in DOMAIN Columns(f) |-> ParquetColumn(f, i - 1)]
        groups == [g \in DOMAIN f.groups |-> RowGroupInfo(f, g - 1)]
    IN /\ {lines[i][2] : i \in DOMAIN lines} = ColumnIds(f) /\ Len(lines) = Len(columns)
       /\ \A i \in DOMAIN lines : f.fields[lines[i][1] + 1].name = Column(f, lines[i][2]).path[1]
       /\ SumOver(GroupSize, SchemaRows(f)) = Len(lines)
       /\ SumOver(LAMBDA column : column.compressed_size, columns) = summary.compressed_row_group_size
       /\ SumOver(LAMBDA group : group.compressed, groups) = summary.compressed_row_group_size
       /\ SizesAgree(f) => SumOver(LAMBDA column : column.encoded_size, columns) = summary.uncompressed_size
       /\ TotalRows(f) < U32 =>
             \A i \in DOMAIN columns :
                (\A g \in DOMAIN f.groups : Nulls(Chunk(f, g - 1, i - 1)) <= f.groups[g].rows)
                    => columns[i].null_count \in 0..TotalRows(f)
       /\ (\A i \in DOMAIN f.fields : f.fields[i].leaves = <<<<>>>>) =>
             \A i \in DOMAIN SortedFields(f) :
                 Column(f, SortedFields(f)[i].index).path = <<SortedFields(f)[i].name>>
Described == {n \in DOMAIN Contents : Describes(Contents[n])}
PanelDescribesItsFile == Given # 0 => files[Given].contents \in Described

(* What the panel has fetched is of the chunk and the column it is shown   *)
(* for, once nothing is being read and if it was asked of this file: the   *)
(* pages are those of the selection, a count is of the distinct values of  *)
(* the field of its row, and the encodings are of the pages of the column. *)
(* Only a selection made for an earlier file can be out of bounds, unless  *)
(* a file has row groups and no column.  (What was fetched for an earlier  *)
(* file stays where the new one has the place.)                            *)
CellsAt == [n \in DOMAIN Contents |-> CellsOf(Contents[n])]
PanelShowsItsSelection ==
    /\ chunk.shown # Nothing /\ chunk.reading = Nothing /\ chunk.shown[1] = Given =>
          chunk.shown = <<Given, selected_row_group, selected_column>>
    /\ Given # 0 => DOMAIN cells = CellsAt[files[Given].contents]
    /\ \A c \in DOMAIN cells :
          LET value == cells[c].value
              f == FileAt(Given)
              row == {i \in DOMAIN f.fields : f.fields[i].name = Column(f, c.row[2]).path[1]}
          IN Given # 0 /\ value # Nothing /\ value[1] = "ok" /\ value[2] = Given =>
                IF c.kind = "distinct" THEN \E i \in row : value[3] = f.fields[i].distinct
                ELSE \A g \in DOMAIN f.groups :
                        Chunk(f, g - 1, c.id).readable =>
                            \A p \in ToSet(Chunk(f, g - 1, c.id).pages) : p.sound => p.encoding \in DOMAIN value[3]
    /\ panicked => Len(files) > 1 \/ Columns(FileAt(1)) = <<>>
=============================================================================
