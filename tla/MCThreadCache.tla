---------------------------- MODULE MCThreadCache ----------------------------
(* ThreadCache on a small instance: the threads are interchangeable.        *)
EXTENDS ThreadCache, TLC

ThreadSymmetry == Permutations(Threads)

(* Both halves of an address are larger than any length of a list.          *)
MCAddr == [o \in Objs |-> <<100 + o[1] * ObjsPerSpan + o[2], 90>>]
=============================================================================
