-------------------------- MODULE MCControllerLease --------------------------
(* Model checking of ControllerLease: tabs that each have a session of     *)
(* their own, or that share one.  Requests and Stops are interchangeable,  *)
(* and so are tabs with sessions of their own.                             *)
EXTENDS ControllerLease, TLC

OwnSession == [a \in Actors |-> a]
OneSession == [a \in Actors |-> "session"]

Symmetry == Permutations(Requests) \cup Permutations(Jobs) \cup Permutations(Actors \ Local)

=============================================================================
