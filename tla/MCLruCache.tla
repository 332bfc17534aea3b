----------------------------- MODULE MCLruCache -----------------------------
(* LruCache on small instances.                                            *)
EXTENDS LruCache, TLC

Symmetry == Permutations(Keys) \cup Permutations(Clients) \cup Permutations(Objects)
=============================================================================
