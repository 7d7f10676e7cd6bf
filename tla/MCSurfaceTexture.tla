--------------------------- MODULE MCSurfaceTexture ---------------------------
(* SurfaceTexture on a small instance with two binder threads. *)
EXTENDS SurfaceTexture, TLC
CONSTANTS t1, t2
TwoThreads == {t1, t2}
Symmetry == Permutations(TwoThreads)
=============================================================================
