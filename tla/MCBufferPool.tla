---------------------------- MODULE MCBufferPool ----------------------------
(* Constants of the runs that check the buffer pool.                       *)
EXTENDS BufferPool, TLC

\* One object is like another.
ObjectSymmetry == Permutations(Objects)
=============================================================================
