---------------------------- MODULE ParquetFile -----------------------------
(***************************************************************************)
(* What the viewer computes from the footer of a Parquet file: the summary *)
(* (parquet_ctx.rs), the rows of the schema table (views/schema.rs), the   *)
(* chunk that was selected (views/metadata.rs) and the pages of a chunk    *)
(* (utils.rs).                                                             *)
(*                                                                         *)
(* A file is a record of its size, the length of its metadata, its fields  *)
(* and its row groups.  A field has a name and the paths of its leaves     *)
(* below that name; the leaves of all fields, in order, are the Parquet    *)
(* columns.  A row group has its rows, its size and a chunk for each       *)
(* column.  The rows of the file, and the rows and the size of a group,    *)
(* are what the footer says: nothing makes them agree.                     *)
(* Indices start at 0, as they do in the code.                             *)
(***************************************************************************)
EXTENDS Integers, Lists

CONSTANT U32 \* the range of a u32

ASSUME U32IsPositive == U32 \in Nat \ {0}

FooterSize == 8

SumOver(op(_), list) == Total([i \in DOMAIN list |-> op(list[i])])
Filtered(list, test(_)) ==
    LET places == Ascending({i \in DOMAIN list : test(list[i])})
    IN [k \in DOMAIN places |-> list[places[k]]]

(* The leaves in order: schema_descr().columns(). *)
Columns(f) ==
    FlattenSeq([i \in DOMAIN f.fields |->
        [j \in DOMAIN f.fields[i].leaves |->
            [path |-> <<f.fields[i].name>> \o f.fields[i].leaves[j],
             type |-> f.fields[i].type, length |-> f.fields[i].length]]])

ColumnIds(f) == 0..Len(Columns(f)) - 1
Column(f, id) == Columns(f)[id + 1]

(* metadata.row_group(g).column(id): a panic outside of the file. *)
HasChunk(f, g, id) == g < Len(f.groups) /\ id < Len(Columns(f))
Chunk(f, g, id) == f.groups[g + 1].columns[id + 1]

TotalRows(f) == SumOver(LAMBDA group : group.rows, f.groups)
AllChunks(f) == FlattenSeq([g \in DOMAIN f.groups |-> f.groups[g].columns])
ChunksOf(f, id) == [g \in DOMAIN f.groups |-> f.groups[g].columns[id + 1]]

(* What the reader of a footer makes sure of, and the registration of the  *)
(* table: a field has leaves and a name of its own, and a row group has a  *)
(* chunk for each column.                                                  *)
IsList(s) == s \in Seq(ToSet(s))
IsParquet(f) ==
    /\ IsList(f.fields) /\ IsList(f.groups)
    /\ \A i \in DOMAIN f.fields :
         /\ f.fields[i].rank \in Int
         /\ IsList(f.fields[i].leaves) /\ f.fields[i].leaves # <<>>
         /\ \A j \in DOMAIN f.fields[i].leaves : IsList(f.fields[i].leaves[j])
    /\ \A i, j \in DOMAIN f.fields : f.fields[i].name = f.fields[j].name => i = j
    /\ f.rows \in Nat
    /\ \A g \in DOMAIN f.groups :
         /\ {f.groups[g].rows, f.groups[g].total_byte_size} \subseteq Nat
         /\ IsList(f.groups[g].columns) /\ Len(f.groups[g].columns) = Len(Columns(f))
         /\ \A i \in DOMAIN f.groups[g].columns :
              LET chunk == f.groups[g].columns[i]
              IN {chunk.compressed, chunk.encoded, chunk.null_count} \subseteq Nat /\ IsList(chunk.pages)

-----------------------------------------------------------------------------
(* The summary. *)

FirstChunkHas(f, what(_)) == f.groups # <<>> /\ f.groups[1].columns # <<>> /\ what(f.groups[1].columns[1])

(* try_into_resolved: the length in the last eight bytes, and they. *)
ActualFooterSize(f) == f.metadata_len + FooterSize

MetadataSummary(f) ==
    [file_size                 |-> f.size,
     footer_size               |-> ActualFooterSize(f),
     compressed_row_group_size |-> SumOver(LAMBDA chunk : chunk.compressed, AllChunks(f)),
     uncompressed_size         |-> SumOver(LAMBDA group : group.total_byte_size, f.groups),
     row_group_count           |-> Len(f.groups),
     row_count                 |-> f.rows,
     columns                   |-> Len(f.fields),
     has_row_group_stats       |-> FirstChunkHas(f, LAMBDA chunk : chunk.nulls # "none"),
     has_bloom_filter          |-> FirstChunkHas(f, LAMBDA chunk : chunk.bloom > 0),
     has_column_index          |-> f.groups # <<>> /\ \E i \in DOMAIN f.groups[1].columns : f.groups[1].columns[i].indexed,
     has_offset_index          |-> f.located /\ f.groups # <<>> /\ f.groups[1].columns # <<>>,
     total_bloom_filter_size   |-> SumOver(LAMBDA chunk : chunk.bloom, AllChunks(f))]

-----------------------------------------------------------------------------
(* The schema table. *)

(* The bytes of a value; 0 where the type does not tell. *)
Width(column) ==
    CASE column.type = "BOOLEAN" -> 1
      [] column.type \in {"INT32", "FLOAT"} -> 4
      [] column.type \in {"INT64", "DOUBLE"} -> 8
      [] column.type = "INT96" -> 12
      [] column.type = "FIXED_LEN_BYTE_ARRAY" -> column.length
      [] column.type = "BYTE_ARRAY" -> 0

(* calculate_arrow_memory_size: values, a bit for each, and an overhead. *)
ArrowMemorySize(f, id) ==
    IF TotalRows(f) = 0 THEN <<0>>
    ELSE IF Column(f, id).type = "BYTE_ARRAY" THEN <<>>
    ELSE <<TotalRows(f) * Width(Column(f, id)) + (TotalRows(f) + 7) \div 8 + 64>>

(* The null counts that are there, added up and cut to a u32. *)
Nulls(column_chunk) == IF column_chunk.nulls = "none" THEN 0 ELSE column_chunk.null_count
NullCount(chunks) == SumOver(Nulls, chunks) % U32

(* ParquetColumnDisplay: the aggregate of the chunks of a column; a ratio  *)
(* is a pair, or <<>> where nothing is stored.                             *)
ParquetColumn(f, id) ==
    LET chunks == ChunksOf(f, id)
        compressed == SumOver(LAMBDA chunk : chunk.compressed, chunks)
        encoded == SumOver(LAMBDA chunk : chunk.encoded, chunks)
        logical == ArrowMemorySize(f, id)
    IN [id |-> id, path |-> Column(f, id).path, physical_type |-> Column(f, id).type,
        logical_size |-> logical, encoded_size |-> encoded, compressed_size |-> compressed,
        compression_ratio |-> IF compressed > 0 THEN <<encoded, compressed>> ELSE <<>>,
        logical_compression_ratio |->
            IF compressed > 0 /\ logical # <<>> THEN <<logical[1], compressed>> ELSE <<>>,
        null_count |-> NullCount(chunks),
        encodings |-> UNION {chunks[g].encodings : g \in DOMAIN chunks},
        compressions |-> [codec \in {chunks[g].codec : g \in DOMAIN chunks} |->
                             <<Len(Filtered(chunks, LAMBDA chunk : chunk.codec = codec)), Len(chunks)>>]]

(* columns_by_root: the columns whose path starts with the name. *)
ColumnsByRoot(f, name) == Ascending({id \in ColumnIds(f) : Column(f, id).path[1] = name})

SchemaRow(f, index) ==
    [arrow_index |-> index, arrow_name |-> f.fields[index + 1].name,
     parquet_columns |-> ColumnsByRoot(f, f.fields[index + 1].name)]

SchemaRows(f) == [i \in DOMAIN f.fields |-> SchemaRow(f, i - 1)]

(* The lines of the table: a row spans a line for each of its columns, or  *)
(* one.  A line is known by its key: the row, and its column or none.      *)
NoColumn == -1
GroupSize(row) == IF row.parquet_columns = <<>> THEN 1 ELSE Len(row.parquet_columns)
LinesWithoutColumn(row) == <<<<row.arrow_index, NoColumn>>>>
LinesOfColumns(row) == [k \in DOMAIN row.parquet_columns |-> <<row.arrow_index, row.parquet_columns[k]>>]
Lines(f) ==
    FlattenSeq([i \in DOMAIN f.fields |->
        IF SchemaRows(f)[i].parquet_columns = <<>> THEN LinesWithoutColumn(SchemaRows(f)[i])
        ELSE LinesOfColumns(SchemaRows(f)[i])])

-----------------------------------------------------------------------------
(* The chunk that is selected. *)

NameRanks(f) == [i \in DOMAIN f.fields |-> f.fields[i].rank]

(* Mutant: the index is the one after sorting. *)
SortedFieldsRenumbered(f) ==
    LET sorted == Sorted([i \in DOMAIN f.fields |-> f.fields[i].name], NameRanks(f))
    IN [i \in DOMAIN sorted |-> [index |-> i - 1, name |-> sorted[i]]]

(* sorted_fields: the options are sorted by name and keep the index the    *)
(* field has in the schema; that index then picks a Parquet column.  The   *)
(* rank of a field is the place of its name in the order of strings.       *)
SortedFields(f) ==
    Sorted([i \in DOMAIN f.fields |-> [index |-> i - 1, name |-> f.fields[i].name]], NameRanks(f))

RowGroupInfo(f, g) ==
    LET chunks == f.groups[g + 1].columns
    IN [compressed |-> SumOver(LAMBDA chunk : chunk.compressed, chunks),
        uncompressed |-> f.groups[g + 1].total_byte_size,
        rows |-> f.groups[g + 1].rows]

ColumnInfo(f, g, id) ==
    [compressed |-> Chunk(f, g, id).compressed, uncompressed |-> Chunk(f, g, id).encoded,
     compression |-> Chunk(f, g, id).codec]

-----------------------------------------------------------------------------
(* Pages. *)

(* get_column_chunk_page_info: pages that cannot be decoded are left out;  *)
(* a chunk whose bytes cannot be fetched is an error.                      *)
PagesOf(f, g, id) == Filtered(Chunk(f, g, id).pages, LAMBDA page : page.sound)

(* count_column_chunk_pages *)
PageCount(f, g, id) == Len(PagesOf(f, g, id))

(* calculate_page_encodings: how many of the pages have which encoding,    *)
(* over the row groups whose chunk can be fetched.                         *)
PageEncodings(f, id) ==
    LET readable == Ascending({g \in 0..Len(f.groups) - 1 : Chunk(f, g, id).readable})
        pages == FlattenSeq([k \in DOMAIN readable |-> PagesOf(f, readable[k], id)])
    IN [encoding \in {pages[k].encoding : k \in DOMAIN pages} |->
           <<Len(Filtered(pages, LAMBDA page : page.encoding = encoding)), Len(pages)>>]
=============================================================================
