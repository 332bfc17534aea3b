--------------------------- MODULE MCUringServer ----------------------------
(* UringServer on small instances.                                         *)
EXTENDS UringServer, TLC

Symmetry == Permutations(Workers)
=============================================================================
