----------------------------- MODULE MCRewriter -----------------------------
(* Small values for Rewriter: two files of one schema, one in two row      *)
(* groups; one of another schema whose pages cannot be decoded; a file     *)
(* that only has the name of one; and a text.                              *)
EXTENDS Rewriter

Plain(name) == [name |-> name, leaves |-> {<<name>>}]
Nested(name) == [name |-> name, leaves |-> {<<name, "x">>, <<name, "y">>}]
File(schema, groups, sound) ==
    [parquet |-> TRUE, readable |-> TRUE, sound |-> sound, schema |-> schema, groups |-> groups, codec |-> "zstd"]

AB == <<Plain("a"), Nested("b")>>
MCInputs ==
    {File(AB, <<<<1, 2>>, <<3>>>>, TRUE), File(AB, <<<<4>>>>, TRUE), File(<<Plain("a")>>, <<>>, FALSE),
     [File(AB, <<>>, TRUE) EXCEPT !.readable = FALSE], [File(AB, <<>>, TRUE) EXCEPT !.parquet = FALSE]}
MCSizes == {0, 2}
=============================================================================
