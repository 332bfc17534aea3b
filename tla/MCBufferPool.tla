---------------------------- MODULE MCBufferPool ----------------------------
(* BufferPool with model values; the users are interchangeable.            *)
EXTENDS BufferPool, TLC

UserSymmetry == Permutations(Users)
=============================================================================
