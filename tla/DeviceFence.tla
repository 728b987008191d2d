----------------------------- MODULE DeviceFence -----------------------------
(***************************************************************************)
(* What the motionCommandGate of src/internal/transport/motion_gate.go     *)
(* promises to whoever presses Stop: a command changes what the device     *)
(* does only while it is admitted, and a Stop that reaches the device      *)
(* stills it and ends every admission there is, at once, whatever the      *)
(* commands were waiting for.  Which counters, locks and repeated checks   *)
(* bring this about is the business of HandyTransport, which implements    *)
(* this specification.                                                     *)
(***************************************************************************)
CONSTANT Commands \* goroutines that may command the device

VARIABLES admitted, \* the commands that may still take effect
          moving    \* the device moves

vars == <<admitted, moving>>

Init == /\ admitted = {}
        /\ moving = FALSE

Admit(c) == /\ c \notin admitted
            /\ admitted' = admitted \cup {c}
            /\ UNCHANGED moving

TakeEffect(c) == /\ c \in admitted
                 /\ moving' \in BOOLEAN
                 /\ UNCHANGED admitted

Leave(c) == /\ c \in admitted
            /\ admitted' = admitted \ {c}
            /\ UNCHANGED moving

Stop == /\ admitted' = {}
        /\ moving' = FALSE

Next == \/ \E c \in Commands : Admit(c) \/ TakeEffect(c) \/ Leave(c)
        \/ Stop

Spec == Init /\ [][Next]_vars
==============================================================================
