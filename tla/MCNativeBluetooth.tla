--------------------------- MODULE MCNativeBluetooth ---------------------------
(* Model checking of NativeBluetooth.                                      *)
EXTENDS NativeBluetooth
=============================================================================
