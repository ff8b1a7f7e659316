---------------------------- MODULE MCViewerPage ----------------------------
(* Small values for ViewerPage.  Three files: one with a nested field and  *)
(* two row groups, one of whose chunks cannot be fetched; one with two     *)
(* plain fields, out of order, in one row group; and one that is empty.    *)
(* The null counts of the first one reach U32; the footer of the second    *)
(* says more rows and bytes than its group has.  The files are at a URL,   *)
(* in a bucket that has other contents at the other endpoint, on the disk, *)
(* and in VS Code; a file on the disk and one at a URL are too short.      *)
EXTENDS ViewerPage

Page(encoding) == [encoding |-> encoding, sound |-> TRUE]
BadPage == [encoding |-> "PLAIN", sound |-> FALSE]
AChunk(size, nulls, pages, readable) ==
    [compressed |-> size, encoded |-> 2 * size, nulls |-> IF nulls = 0 THEN "none" ELSE "exact", null_count |-> nulls, bloom |-> size - 1,
     indexed |-> TRUE, codec |-> "ZSTD", encodings |-> {"PLAIN", "RLE"}, pages |-> pages, readable |-> readable]
Field(name, rank, leaves, type, distinct) ==
    [name |-> name, rank |-> rank, leaves |-> leaves, type |-> type, length |-> 16, distinct |-> distinct]

NestedFile ==
    [size |-> 100, metadata_len |-> 20, rows |-> 5, located |-> TRUE,
     fields |-> <<Field("m", 2, <<<<"x">>, <<"y">>>>, "INT64", 4), Field("k", 1, <<<<>>>>, "FIXED_LEN_BYTE_ARRAY", 2)>>,
     groups |-> <<[rows |-> 3, total_byte_size |-> 24, columns |-> <<AChunk(3, 2, <<Page("PLAIN"), BadPage>>, TRUE),
                                             AChunk(4, 3, <<Page("RLE")>>, TRUE), AChunk(5, 0, <<Page("PLAIN")>>, TRUE)>>],
                  [rows |-> 2, total_byte_size |-> 8, columns |-> <<AChunk(1, 2, <<Page("DELTA")>>, FALSE),
                                             AChunk(2, 2, <<Page("PLAIN")>>, TRUE), AChunk(1, 1, <<Page("RLE")>>, TRUE)>>]>>]
PlainFile ==
    [size |-> 60, metadata_len |-> 10, rows |-> 3, located |-> FALSE,
     fields |-> <<Field("z", 2, <<<<>>>>, "BYTE_ARRAY", 1), Field("a", 1, <<<<>>>>, "DOUBLE", 2)>>,
     groups |-> <<[rows |-> 2, total_byte_size |-> 40, columns |-> <<AChunk(7, 2, <<Page("PLAIN")>>, TRUE), AChunk(8, 0, <<Page("RLE")>>, TRUE)>>]>>]
EmptyFile == [PlainFile EXCEPT !.rows = 0, !.groups = <<>>]
MCContents == <<NestedFile, PlainFile, EmptyFile>>

Source(kind, key, path, table, accepted) ==
    [kind |-> kind, key |-> key, path |-> path, table |-> table, accepted |-> accepted, short |-> FALSE]
Host == <<"url", "h">>
U1 == Source("url", Host, "a", "a", "yes")
S1 == Source("s3", <<"s3", "b">>, "c", "c", "yes")
F1 == Source("file", Host, "a", "a", "yes")
F2 == Source("file", Host, "e", "e", "no")
X1 == Source("url", Host, "x", "x", "named")
V1 == Source("vscode", Host, "v", "v", "yes")
F3 == [Source("file", Host, "f", "f", "yes") EXCEPT !.short = TRUE]
U3 == [Source("url", Host, "f", "f", "yes") EXCEPT !.short = TRUE]
MCSources == {U1, S1, F1, F2, X1, V1, F3, U3}
MCObject ==
    [e \in {"one", "two"} |->
        (U1 :> 1) @@ (S1 :> IF e = "one" THEN 1 ELSE 2) @@ (F1 :> 2) @@ (V1 :> 3) @@ [s \in {F2, X1, F3, U3} |-> 0]]
MCQueries == {[form |-> "spaced", table |-> "a"], [form |-> "last", table |-> "c"]}
=============================================================================
