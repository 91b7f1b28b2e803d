---------------------------- MODULE MCReportFiles -----------------------------
(* ReportFiles for TLC: three reports, pages of one, interchangeable savers.   *)
EXTENDS ReportFiles, TLC

MCIds == 1..3
Symmetry == Permutations(Processes)
=============================================================================
