----------------------------- MODULE FilePanel ------------------------------
(***************************************************************************)
(* The panel under the results: the metadata of the file that was loaded   *)
(* last (views/metadata.rs, components/page_info.rs) and its schema table  *)
(* (views/schema.rs).                                                      *)
(*                                                                         *)
(* The panel is given a file n with the contents f and another one when    *)
(* another is loaded.  Its components are kept then, with their selection, *)
(* their resources and the values of their cells, as far as the new file   *)
(* has lines with the same keys; a resource runs again only when a signal  *)
(* it reads is set.  The panel goes away with the page it is on.           *)
(***************************************************************************)
EXTENDS ParquetFile

VARIABLES
    selected_row_group, selected_column,
    chunk,    \* the resource of the pages: the chunk it shows, and the one it reads
    cells,    \* the cells of the table that show something when asked to
    panicked  \* an index was out of bounds: the page has stopped

panelVars == <<selected_row_group, selected_column, chunk, cells, panicked>>

Nothing == <<>>
NoChunk == [shown |-> Nothing, reading |-> Nothing]
(* A cell: what it shows, and the file it is asking. *)
Unasked == [value |-> Nothing, asking |-> Nothing]

-----------------------------------------------------------------------------
(* A row of the table is known by its first line, a cell by its row and    *)
(* its column.                                                             *)
DistinctCell(row) == [kind |-> "distinct", row |-> LinesOfColumns(row)[1], id |-> row.arrow_index]
PageEncodingsCell(row, id) == [kind |-> "encodings", row |-> LinesOfColumns(row)[1], id |-> id]
CellsOf(f) ==
    UNION {{DistinctCell(row)} \cup {PageEncodingsCell(row, id) : id \in ToSet(row.parquet_columns)} :
              row \in ToSet(SchemaRows(f))}

Select(g, id) == selected_row_group' = g /\ selected_column' = id

(* The panel is rendered for f with the selection g, id. *)
Renders(f, g, id) == panicked' = (f.groups # <<>> /\ ~HasChunk(f, g, id))

PanelInit ==
    /\ selected_row_group = 0 /\ selected_column = 0
    /\ chunk = NoChunk /\ cells = [c \in {} |-> Unasked]
    /\ panicked = FALSE

(* The panel comes up for a file, and its resource starts; there is none   *)
(* without a row group.                                                    *)
PanelMounts(n, f) ==
    /\ Select(0, 0)
    /\ Renders(f, 0, 0)
    /\ chunk' = [NoChunk EXCEPT !.reading = IF f.groups = <<>> THEN Nothing ELSE <<n, 0, 0>>]
    /\ cells' = [c \in CellsOf(f) |-> Unasked]

PanelUnmounts ==
    /\ Select(0, 0)
    /\ chunk' = NoChunk /\ cells' = [c \in {} |-> Unasked]
    /\ UNCHANGED panicked

(* Another file is shown in the place of one. *)
PanelIsGiven(n, f, before) ==
    /\ UNCHANGED <<selected_row_group, selected_column>>
    /\ Renders(f, selected_row_group, selected_column)
    /\ chunk' = IF f.groups = <<>> THEN NoChunk
                ELSE IF before.groups # <<>> THEN chunk
                ELSE [NoChunk EXCEPT !.reading = <<n, selected_row_group, selected_column>>]
    /\ cells' = [c \in CellsOf(f) |-> IF c \in DOMAIN cells THEN cells[c] ELSE Unasked]

-----------------------------------------------------------------------------
(* Mutant: a new selection is noted when its pages have come. *)
SelectsWithoutRestart(n, f, g, id) ==
    /\ f.groups # <<>>
    /\ Select(g, id)
    /\ Renders(f, g, id)
    /\ chunk' = [chunk EXCEPT !.reading = IF @ = Nothing THEN <<n, g, id>> ELSE @]
    /\ UNCHANGED cells

(* Setting a selection starts the resource again: what it read is dropped, *)
(* what it shows stays until the new pages have come.                      *)
Selects(n, f, g, id) ==
    /\ f.groups # <<>>
    /\ Select(g, id)
    /\ Renders(f, g, id)
    /\ chunk' = [chunk EXCEPT !.reading = <<n, g, id>>]
    /\ UNCHANGED cells

SelectRowGroup(n, f) ==
    \E g \in 0..MetadataSummary(f).row_group_count - 1 : Selects(n, f, g, selected_column)
SelectColumn(n, f) ==
    \E i \in DOMAIN SortedFields(f) : Selects(n, f, selected_row_group, SortedFields(f)[i].index)

(* The resources of ColumnInfo and PageInfo have their pages, or nothing   *)
(* to show.                                                                *)
PagesAreRead ==
    /\ chunk.reading # Nothing
    /\ chunk' = [shown |-> chunk.reading, reading |-> Nothing]
    /\ UNCHANGED <<selected_row_group, selected_column, cells, panicked>>

Cell(c, value, asking) == cells' = [cells EXCEPT ![c] = [value |-> value, asking |-> asking]]

(* "show" and "retry": a cell that has its value has no button. *)
Ask(n, c) ==
    /\ cells[c].asking = Nothing /\ cells[c].value \in {Nothing, <<"failed">>}
    /\ Cell(c, Nothing, <<n>>)
    /\ UNCHANGED <<selected_row_group, selected_column, chunk, panicked>>

(* calculate_distinct asks for the field by its name; a chunk whose bytes  *)
(* cannot be fetched is left out of the encodings without a word.          *)
Result(f, c) == IF c.kind = "distinct" THEN f.fields[c.id + 1].distinct ELSE PageEncodings(f, c.id)

(* The file that was asked answers.  Only the query of a distinct count    *)
(* can fail.  (A read of a dropped file that fails is a panic instead, of  *)
(* a task of the page: it answers nothing more.)                           *)
Answers(c, contents) ==
    /\ cells[c].asking # Nothing
    /\ LET n == cells[c].asking[1]
       IN \/ Cell(c, <<"ok", n, Result(contents[n], c)>>, Nothing)
          \/ c.kind = "distinct" /\ Cell(c, <<"failed">>, Nothing)
    /\ UNCHANGED <<selected_row_group, selected_column, chunk, panicked>>
=============================================================================
