---------------------------- MODULE MCHttpServer ----------------------------
(* HttpServer with model values; the workers are interchangeable.          *)
EXTENDS HttpServer, TLC

WorkerSymmetry == Permutations(Workers)
=============================================================================
