------------------------------ MODULE MCTUCache ------------------------------
(* Instances of TUCache: one source file under up to three build paths.     *)
EXTENDS TUCacheLRU, TLC

CONSTANTS t1, t2, a, none, debug, release, std

Cpp(f, d) == [file |-> f, build |-> d, flags |-> std]

ThreeKeys == {Cpp(a, none), Cpp(a, debug), Cpp(a, release)}

ThreadSymmetry == Permutations(Threads)
=============================================================================
