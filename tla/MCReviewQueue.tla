---------------------------- MODULE MCReviewQueue ----------------------------
(* ReviewQueue for TLC.                                                      *)
EXTENDS ReviewQueue

\* Every clause asks for a human: the more records in the queue, the better.
MCResults == { [status |-> "Needs Review", verification |-> "verified"] }
=============================================================================
