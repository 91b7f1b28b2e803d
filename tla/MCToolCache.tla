----------------------------- MODULE MCToolCache -----------------------------
(* ToolCache for TLC: a few concurrent calls, two dates, a TTL of one tick.  *)
EXTENDS ToolCache, TLC

\* Calls are interchangeable.
CallSymmetry == Permutations(Calls)
=============================================================================
