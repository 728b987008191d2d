-------------------------- MODULE MCCommandDelivery --------------------------
(* Model checking of CommandDelivery: commands and requests are            *)
(* interchangeable.                                                        *)
EXTENDS CommandDelivery, TLC

Symmetry == Permutations(Commands) \cup Permutations(Requests)

=============================================================================
