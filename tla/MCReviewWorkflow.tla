-------------------------- MODULE MCReviewWorkflow --------------------------
(* ReviewWorkflow for TLC: small sets of clauses, reviewers and results.   *)
EXTENDS ReviewWorkflow

\* A verified clause, and one whose verdict alone ("Needs Review", accepted by the
\* verifier) sends it to a human.
MCResults ==
    { [status |-> "Compliant",    verification |-> "verified"],
      [status |-> "Needs Review", verification |-> "verified"] }
=============================================================================
