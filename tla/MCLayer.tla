-------------------------------- MODULE MCLayer --------------------------------
(* Layer on small instances: the threads are interchangeable. *)
EXTENDS Layer, TLC
CONSTANTS t1, t2
OneThread == {t1}
TwoThreads == {t1, t2}
Symmetry == Permutations(Threads)
=============================================================================
