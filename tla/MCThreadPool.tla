---------------------------- MODULE MCThreadPool ----------------------------
(* ThreadPool on small instances.                                          *)
EXTENDS ThreadPool, TLC

Symmetry == Permutations(Workers) \cup Permutations(Tasks)
=============================================================================
