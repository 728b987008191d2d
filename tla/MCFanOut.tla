------------------------------- MODULE MCFanOut -------------------------------
(* Model checking of FanOut.                                               *)
EXTENDS FanOut
=============================================================================
