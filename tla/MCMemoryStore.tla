---------------------------- MODULE MCMemoryStore ----------------------------
(* MemoryStore for TLC: a few records and instances, a few faults.         *)
EXTENDS MemoryStore, TLC

\* Instances are interchangeable.
ProcSymmetry == Permutations(Procs)
=============================================================================
