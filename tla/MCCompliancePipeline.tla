------------------------ MODULE MCCompliancePipeline ------------------------
(* CompliancePipeline for TLC.                                             *)
EXTENDS CompliancePipeline, TLC

CONSTANTS r1, r2, j1, j2, j3, c1, c2, x

\* Two runs over one clause, one after or beside the other.
MCTwoRunOf == j1 :> r1 @@ j2 :> r2
MCSameClause == j1 :> c1 @@ j2 :> c1

\* A run that has one clause twice, and another run or request of a similar one.
MCThreeRunOf == j1 :> r1 @@ j2 :> r1 @@ j3 :> r2
MCThreeClauses == j1 :> c1 @@ j2 :> c1 @@ j3 :> c2

MCSimilar == {<<c1, c2>>, <<c2, c1>>}
MCTitleOf == [c \in Citations |-> 40]

\* The rules raise on the first issue of the regulation when they look for the
\* section in clause c1 (the verifier does not), and find a violation by it in the
\* second. They say nothing of the first by clause c2, and raise on the second.
MCRules ==
    [k \in Clauses \X Citations \X Versions \X BOOLEAN |->
        IF k[1] = c1 THEN IF k[3] = 2 THEN "Non-Compliant"
                          ELSE IF k[4] THEN "raises" ELSE "Needs Review"
        ELSE IF k[3] = 1 THEN "Needs Review" ELSE "raises"]

\* The rules say nothing of the first issue and find a violation in the second.
MCLaterRules ==
    [k \in Clauses \X Citations \X Versions \X BOOLEAN |->
        IF k[3] = 1 THEN "Needs Review" ELSE "Non-Compliant"]
=============================================================================
