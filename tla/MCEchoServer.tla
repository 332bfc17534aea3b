---------------------------- MODULE MCEchoServer ----------------------------
(* EchoServer with model values; the workers are interchangeable.          *)
EXTENDS EchoServer, TLC

WorkerSymmetry == Permutations(Workers)
=============================================================================
