-------------------------- MODULE MCBluetoothBridge --------------------------
(* Model checking of BluetoothBridge: callers, handlers and tabs are       *)
(* interchangeable.                                                        *)
EXTENDS BluetoothBridge

Symmetry == Permutations(Callers) \cup Permutations(Handlers) \cup Permutations(Tabs)

=============================================================================
