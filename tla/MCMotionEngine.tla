--------------------------- MODULE MCMotionEngine ---------------------------
(* Model checking of MotionEngine: the request goroutines are symmetric.   *)
EXTENDS MotionEngine, TLC

Symmetry == Permutations(Requests)

=============================================================================
