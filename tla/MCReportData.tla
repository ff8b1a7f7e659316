---------------------------- MODULE MCReportData ----------------------------
(* Instances of ReportData for TLC: tests a and b of s3-tests, m of Mint;  *)
(* the messages "at 1" and "at 2" differ only in what Comparable ignores.  *)
EXTENDS ReportData

SomeComparable == "" :> "" @@ "at 1" :> "at" @@ "at 2" :> "at" @@ "other" :> "other"
SomeFeatures == "a" :> {"bucket", "acl"} @@ "b" :> {"bucket"} @@ "m" :> {"sdk"}

Line(n, outcome, message) == [name |-> n, outcome |-> outcome, message |-> message]
Raw(s3, mint) ==
    [build |-> 0, cluster |-> 0, main |-> TRUE,
     exit |-> [s \in SuiteKeys |-> IF s = "mint" THEN 0 ELSE 1],
     lines |-> [s \in SuiteKeys |-> IF s = "mint" THEN mint ELSE s3],
     logs |-> {"build"} \cup (IF s3 = << >> THEN {} ELSE {"pytest"})]

Passes == Line("a", {}, "")
Fails == Line("a", {"failure"}, "at 1")
FailsAgain == Line("a", {"failure"}, "at 2")
FailsDifferently == Line("a", {"failure"}, "other")
Skipped == Line("a", {"skipped"}, "other")
Errs == Line("b", {"error"}, "other")

MintFails == Line("m", "FAIL", "other")
MintPasses == Line("m", "PASS", "")
MintIsNotApplicable == Line("m", "NA", "")
Garbled == Line("m", "garbled", "")

SomeResults ==
    {Raw(<<Passes, Errs>>, <<MintFails, MintPasses>>),
     Raw(<<Fails, FailsAgain>>, <<MintPasses, MintFails>>),
     Raw(<<FailsAgain, Errs>>, <<Garbled, MintIsNotApplicable>>),
     Raw(<<FailsDifferently, Line("a", {"error"}, "other")>>, << >>),
     Raw(<<Skipped, Line("b", {"failure", "error"}, "at 1")>>, <<MintPasses>>),
     [Raw(<<Passes>>, <<MintFails>>) EXCEPT !.main = FALSE],
     [Raw(<< >>, << >>) EXCEPT !.build = 1, !.exit = [s \in SuiteKeys |-> 0]]}

SomeCandidates ==
    {Raw(<<Passes, Errs>>, <<MintPasses>>), Raw(<<FailsAgain>>, <<MintFails, MintPasses>>),
     Raw(<<Skipped, Line("b", {}, "")>>, <<MintFails>>), Raw(<< >>, << >>)}
=============================================================================
