------------------------------- MODULE LLMSlot -------------------------------
(***************************************************************************)
(* What the llmRequestCoordinator of src/internal/httpapi/llm_scheduler.go *)
(* promises to the handlers that stream from the local model: there is one *)
(* slot; a client keeps it until it gives it back; it may be told at any    *)
(* time that it should (revoked); the slot is not handed out while the      *)
(* model configuration is being changed, nor to background work while a     *)
(* chat turn is asking for it.  Who counts, wakes and rechecks whom is the  *)
(* business of LLMScheduler, which implements this specification.           *)
(***************************************************************************)
EXTENDS Naturals

CONSTANTS Clients, \* requests that may stream from the model
          None     \* not a client

VARIABLES holder,  \* the client that has the slot, or None
          kind,    \* "interactive" or "autonomous": what the holder is, if there is one
          revoked, \* the holder's context has been cancelled
          asking,  \* the interactive clients that wait for the slot
          changes  \* settings transitions in progress

vars == <<holder, kind, revoked, asking, changes>>

Kinds == {"autonomous", "interactive"}

Init == /\ holder = None
        /\ kind = "autonomous"
        /\ revoked = FALSE
        /\ asking = {}
        /\ changes = 0

(* A chat turn asks for the slot: background work that has it must go. *)
Ask(r) == /\ r \notin asking
          /\ asking' = asking \cup {r}
          /\ revoked' = (revoked \/ (holder # None /\ kind = "autonomous"))
          /\ UNCHANGED <<holder, kind, changes>>

(* It gives up. *)
Leave(r) == /\ r \in asking
            /\ asking' = asking \ {r}
            /\ UNCHANGED <<holder, kind, revoked, changes>>

Grant(r, k) == /\ holder = None
               /\ changes = 0
               /\ k = "autonomous" => asking = {}
               /\ holder' = r
               /\ kind' = k
               /\ revoked' = FALSE
               /\ asking' = asking \ {r}
               /\ UNCHANGED changes

Revoke == /\ holder # None
          /\ revoked' = TRUE
          /\ UNCHANGED <<holder, kind, asking, changes>>

(* Only a holder whose context is cancelled gives the slot back. *)
GiveBack == /\ holder # None
            /\ revoked
            /\ holder' = None
            /\ kind' = "autonomous"
            /\ revoked' = FALSE
            /\ UNCHANGED <<asking, changes>>

BeginChange == /\ changes' = changes + 1
               /\ revoked' = (holder # None)
               /\ UNCHANGED <<holder, kind, asking>>

EndChange == /\ changes > 0
             /\ changes' = changes - 1
             /\ UNCHANGED <<holder, kind, revoked, asking>>

Next == \/ \E r \in Clients : \/ Ask(r)
                              \/ Leave(r)
                              \/ \E k \in Kinds : Grant(r, k)
        \/ Revoke
        \/ GiveBack
        \/ BeginChange
        \/ EndChange

Spec == Init /\ [][Next]_vars
==============================================================================
