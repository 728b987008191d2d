-------------------------- MODULE MCHandyTransport --------------------------
(* Model checking of HandyTransport: a connection is of either kind, Cloud *)
(* or Bluetooth, for the whole behaviour.                                  *)
EXTENDS HandyTransport

VARIABLE cloud

Bluetooth == INSTANCE HandyTransport WITH Cloud <- FALSE

Call(c) == IF cloud THEN CallerStep(c) ELSE Bluetooth!CallerStep(c)
Stop(s) == IF cloud THEN StopperStep(s) ELSE Bluetooth!StopperStep(s)

MCInit == HandyInit /\ cloud \in BOOLEAN

MCNext ==
  /\ IF cloud THEN HandyNext ELSE Bluetooth!HandyNext
  /\ UNCHANGED cloud

(* A goroutine inside a method keeps running: every dispatch is bounded by *)
(* its context or by the client's timeout, and sync.Mutex hands hspMu to a *)
(* waiter that has been starved.  Nobody is obliged to call a method.      *)
MCSpec ==
  /\ MCInit
  /\ [][MCNext]_<<handyVars, cloud>>
  /\ \A c \in Callers : SF_handyVars(place[c] # "idle" /\ Call(c))
  /\ \A s \in Stoppers : SF_handyVars(place[s] # "idle" /\ Stop(s))

=============================================================================
