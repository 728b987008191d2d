---------------------------- MODULE MCModeManager ----------------------------
(* Model checking of ModeManager; the request goroutines are interchangeable. *)
EXTENDS ModeManager, TLC

Symmetry == Permutations(Users)

=============================================================================
