----------------------------- MODULE MCSharedUrl -----------------------------
(* Instance of SharedUrl for TLC: links with and without a query, none with *)
(* a test case.                                                             *)
EXTENDS SharedUrl

WithoutCase == {Url(q, NoCase) : q \in Queries \cup {NoQuery}}
=============================================================================
