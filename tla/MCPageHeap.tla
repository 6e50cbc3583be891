----------------------------- MODULE MCPageHeap ------------------------------
(* PageHeap on a small instance: the threads are interchangeable.           *)
EXTENDS PageHeap, TLC

ThreadSymmetry == Permutations(Threads)
=============================================================================
