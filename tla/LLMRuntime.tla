------------------------------ MODULE LLMRuntime ------------------------------
(***************************************************************************)
(* The server around the coordinator of LLMScheduler: who calls acquire,    *)
(* what a call streams from, and the settings transitions that retire the   *)
(* running model (src/internal/httpapi/llm.go, llm_prepared.go,             *)
(* llm_model_check.go, llm_duplicates.go).                                  *)
(*                                                                          *)
(* Requests are handlers: chat and autopilot turns, which prepare a         *)
(* provider before they are admitted, and the load handler, which reads the *)
(* settings afterwards.  Loads are the goroutines of startLLMAutoload.      *)
(* Changers are the handlers that stop the autoload, close the cached       *)
(* provider and start the autoload again.  A configuration of the model is  *)
(* the number of the save that made it; the cached provider is the number   *)
(* it was built from.                                                       *)
(***************************************************************************)
EXTENDS LLMScheduler

CONSTANTS Requests, Loads, \* the two sorts of clients of the coordinator
          Savers, Handlers,\* goroutines that change the model's runtime: saves, and others
          MaxCalls         \* bound: calls of changers in all

Changers == Savers \cup Handlers

ASSUME RuntimeAssumption == /\ Requests \cup Loads = Clients /\ Requests \cap Loads = {}
                            /\ None \notin Nat
                            /\ IsFiniteSet(Changers)
                            /\ MaxCalls \in Nat

VARIABLES saved,          \* the saved configuration
          llmGeneration,  \* llmRuntime.generation
          cached,         \* the configuration of llmRuntime.cached, or None
          autoloadCancel, \* the autoload llmAutoloadCancel cancels, or None
          step,           \* what a client does with its lease
          uses,           \* the configuration it was given
          prepared,       \* the generation its provider was prepared in, or None
          dpc, call, given, \* a changer's place, handler, and settings argument
          calls             \* calls of changers so far

runtimeVars == <<saved, llmGeneration, cached, autoloadCancel, step, uses, prepared,
                 dpc, call, given, calls>>
changerVars == <<dpc, call, given, calls>>
vars == <<schedulerVars, runtimeVars>>

RuntimeInit == /\ Init
               /\ saved = 1
               /\ llmGeneration = 0
               /\ cached = None
               /\ autoloadCancel = None
               /\ step = [r \in Clients |-> "idle"]
               /\ uses = [r \in Clients |-> None]
               /\ prepared = [r \in Clients |-> None]
               /\ dpc = [d \in Changers |-> "idle"]
               /\ call = [d \in Changers |-> None]
               /\ given = [d \in Changers |-> None]
               /\ calls = 0
-------------------------------------------------------------------------------
(* Requests and the autoload with their lease. *)

Goto(r, s) == step' = [step EXCEPT ![r] = s]

(* A chat or autopilot turn reads its settings ... *)
TakeSettings(r) == /\ step[r] = "idle"
                   /\ Goto(r, "settings")
                   /\ uses' = [uses EXCEPT ![r] = saved]
                   /\ UNCHANGED <<schedulerVars, saved, llmGeneration, cached, autoloadCancel,
                                  prepared, changerVars>>

(* ... later prepares its provider, and asks for the slot. *)
PrepareProvider(r) == /\ step[r] = "settings"
                      /\ \E p \in Priorities : Acquire(r, p)
                      /\ Goto(r, "acquire")
                      /\ prepared' = [prepared EXCEPT ![r] = llmGeneration]
                      /\ UNCHANGED <<saved, llmGeneration, cached, autoloadCancel, uses, changerVars>>

(* The load handler asks first. *)
LoadHandler(r) == /\ step[r] = "idle"
                  /\ Acquire(r, "interactive")
                  /\ Goto(r, "acquire")
                  /\ UNCHANGED <<saved, llmGeneration, cached, autoloadCancel, uses, prepared,
                                 changerVars>>

Schedule(r) == /\ LoadGeneration(r) \/ Wait(r)
               /\ UNCHANGED runtimeVars

Admitted(r) == /\ Admit(r)
               /\ Goto(r, IF r \in Loads THEN "resolve"
                          ELSE IF prepared[r] = None THEN "read" ELSE "check")
               /\ UNCHANGED <<saved, llmGeneration, cached, autoloadCancel, uses, prepared,
                              changerVars>>

(* A call is over; an autoload clears the cancel function if it is still its own. *)
Over(r) == /\ Goto(r, "idle")
           /\ uses' = [uses EXCEPT ![r] = None]
           /\ prepared' = [prepared EXCEPT ![r] = None]
           /\ autoloadCancel' = IF autoloadCancel = r THEN None ELSE autoloadCancel
           /\ UNCHANGED <<saved, llmGeneration, cached, changerVars>>

Refused(r) == Refuse(r) /\ Over(r)

Holds(r, s) == /\ pc[r] = "lease"
               /\ step[r] = s
               /\ UNCHANGED <<schedulerVars, saved, llmGeneration, autoloadCancel, prepared,
                              changerVars>>

(* The handler returns, by its end or by an error: release. *)
Ends(r) == /\ ReleaseCancel(r)
           /\ Goto(r, "release")
           /\ uses' = [uses EXCEPT ![r] = None]
           /\ prepared' = [prepared EXCEPT ![r] = None]
           /\ UNCHANGED <<saved, llmGeneration, autoloadCancel, changerVars>>

(* StreamChat of a prepared provider: its generation, then its settings.  The *)
(* first test is made again by Resolve, so that both are one step here.       *)

(* Mutant: only the generation is compared.                                *)
UsableGeneration(r) == prepared[r] = llmGeneration

Usable(r) == prepared[r] = llmGeneration /\ uses[r] = saved
CheckPrepared(r) == /\ Holds(r, "check")
                    /\ Usable(r)
                    /\ Goto(r, "resolve")
                    /\ UNCHANGED <<cached, uses>>
Retired(r) == /\ step[r] = "check"
              /\ ~Usable(r)
              /\ Ends(r)
              /\ UNCHANGED cached

(* The load handler reads its settings now. *)
ReadSettings(r) == /\ Holds(r, "read")
                   /\ uses' = [uses EXCEPT ![r] = saved]
                   /\ Goto(r, "resolve")
                   /\ UNCHANGED cached

Resolvable(r) == ~cancelled[r] /\ (prepared[r] # None => prepared[r] = llmGeneration)

(* resolveLLMProvider: the cached provider, or a new one in its place. *)
Resolve(r) == /\ Holds(r, "resolve")
              /\ Resolvable(r)
              /\ cached' = uses[r]
              /\ Goto(r, "stream")
              /\ UNCHANGED uses

(* Not any more, or the old provider does not close, or the new one cannot be built. *)
ResolveFails(r) == /\ step[r] = "resolve"
                   /\ \/ ~Resolvable(r) /\ UNCHANGED cached
                      \/ Resolvable(r) /\ cached # uses[r] /\ cached' \in {cached, None}
                   /\ Ends(r)

EndStream(r) == /\ step[r] = "stream"
                /\ Ends(r)
                /\ UNCHANGED cached

Release(r) == ReleaseSlot(r) /\ UNCHANGED runtimeVars

Returned(r) == ReleaseAgain(r) /\ Over(r)

(* Mutant: the autoload has no timeout of its own.                         *)
ContextEndsUntimed(r) == r \in Requests /\ ContextDone(r) /\ UNCHANGED runtimeVars

(* A browser that goes away, or the timeout of an autoload. *)
ContextEnds(r) == ContextDone(r) /\ UNCHANGED runtimeVars
-------------------------------------------------------------------------------
(* Changers. *)

ChangerGoto(d, s) == dpc' = [dpc EXCEPT ![d] = s]
Idle(d) == /\ dpc' = [dpc EXCEPT ![d] = "idle"]
           /\ call' = [call EXCEPT ![d] = None]
           /\ given' = [given EXCEPT ![d] = None]
           /\ UNCHANGED calls
Continues(d, s) == ChangerGoto(d, s) /\ UNCHANGED <<call, given, calls>>

Called(d, c, s, v) == /\ dpc[d] = "idle"
                      /\ calls < MaxCalls
                      /\ calls' = calls + 1
                      /\ dpc' = [dpc EXCEPT ![d] = s]
                      /\ call' = [call EXCEPT ![d] = c]
                      /\ given' = [given EXCEPT ![d] = v]
                      /\ UNCHANGED <<schedulerVars, llmGeneration, cached, autoloadCancel, step,
                                     uses, prepared>>

SettingsUnlocked == \A d \in Changers : call[d] \notin {"settings", "policy"}

(* updateSettingsAndRuntime, under settingsLifecycleMu: another model, or *)
(* only another load policy for the same one.                             *)
SaveSettings(d) == /\ SettingsUnlocked
                   /\ Called(d, "settings", "begin", saved + 1)
                   /\ saved' = saved + 1
SavePolicy(d) == /\ SettingsUnlocked
                 /\ Called(d, "policy", "begin", saved)
                 /\ UNCHANGED saved
(* The template fix, the duplicates handler and the unload handler, which *)
(* then asks for the slot as the load handler does.                       *)
RestartSelected(d) == Called(d, "restart", "begin", saved) /\ UNCHANGED saved
TerminateDuplicates(d) == Called(d, "duplicates", "stop", saved) /\ UNCHANGED saved
Unload(d) == Called(d, "unload", "stop", saved) /\ UNCHANGED saved
Begin(d) == /\ dpc[d] = "begin"
            /\ BeginChange
            /\ Continues(d, "stop")
            /\ UNCHANGED <<saved, llmGeneration, cached, autoloadCancel, step, uses, prepared>>

(* stopLLMAutoload: take and call the cancel function ... *)
StopAutoload(d) == /\ dpc[d] = "stop"
                   /\ IF autoloadCancel # None /\ Live(autoloadCancel)
                        THEN ContextDone(autoloadCancel)
                        ELSE UNCHANGED schedulerVars
                   /\ autoloadCancel' = None
                   /\ Continues(d, "drain")
                   /\ UNCHANGED <<saved, llmGeneration, cached, step, uses, prepared>>

(* ... and wait for whatever autoload is running. *)
Drained == \A a \in Loads : step[a] = "idle"
AfterDrain == [settings |-> "close", policy |-> "close", restart |-> "close",
               duplicates |-> "start", unload |-> "invalidate"]
DrainAutoload(d) == /\ dpc[d] = "drain"
                    /\ Drained
                    /\ Continues(d, AfterDrain[call[d]])
                    /\ UNCHANGED <<schedulerVars, saved, llmGeneration, cached, autoloadCancel,
                                   step, uses, prepared>>

InvalidateRequests(d) == /\ dpc[d] = "invalidate"
                         /\ Invalidate
                         /\ Idle(d)
                         /\ UNCHANGED <<saved, llmGeneration, cached, autoloadCancel, step, uses,
                                        prepared>>

(* Mutant: a closed provider is not told from the one prepared before it.  *)
CloseLLMSameGeneration == /\ cached' \in {None, cached}
                          /\ UNCHANGED <<schedulerVars, saved, llmGeneration, autoloadCancel, step,
                                         uses, prepared>>

(* closeLLM: a provider that does not close stays cached. *)
CloseLLM == /\ llmGeneration' = llmGeneration + 1
            /\ cached' \in {None, cached}
            /\ UNCHANGED <<schedulerVars, saved, autoloadCancel, step, uses, prepared>>

RetireLLM(d) == /\ dpc[d] = "close"
                /\ CloseLLM
                /\ Continues(d, "start")

(* A policy that now loads at startup closes nothing. *)
KeepLLM(d) == /\ dpc[d] = "close"
              /\ call[d] = "policy"
              /\ Continues(d, "start")
              /\ UNCHANGED <<schedulerVars, saved, llmGeneration, cached, autoloadCancel, step,
                             uses, prepared>>

AfterStart(d) == IF call[d] = "duplicates" THEN Idle(d) ELSE Continues(d, "finish")

(* startLLMAutoload, when the policy asks for it and none is started. *)
StartAutoload(d) == /\ dpc[d] = "start"
                    /\ autoloadCancel = None
                    /\ \E a \in Loads :
                         /\ step[a] = "idle"
                         /\ Acquire(a, "autonomous")
                         /\ Goto(a, "acquire")
                         /\ uses' = [uses EXCEPT ![a] = given[d]]
                         /\ autoloadCancel' = a
                    /\ AfterStart(d)
                    /\ UNCHANGED <<saved, llmGeneration, cached, prepared>>

NoAutoload(d) == /\ dpc[d] = "start"
                 /\ AfterStart(d)
                 /\ UNCHANGED <<schedulerVars, saved, llmGeneration, cached, autoloadCancel, step,
                                uses, prepared>>

Finish(d) == /\ dpc[d] = "finish"
             /\ FinishChange
             /\ Idle(d)
             /\ UNCHANGED <<saved, llmGeneration, cached, autoloadCancel, step, uses, prepared>>

(* Emergency Stop, and the build of another runtime, in one step each. *)
Counted == calls < MaxCalls /\ calls' = calls + 1 /\ UNCHANGED <<dpc, call, given>>
EmergencyStop == /\ Counted
                 /\ Invalidate
                 /\ UNCHANGED <<saved, llmGeneration, cached, autoloadCancel, step, uses, prepared>>
BuildRuntime == Counted /\ CloseLLM

Serve(r) == \/ Schedule(r) \/ Admitted(r) \/ Refused(r)
            \/ CheckPrepared(r) \/ Retired(r) \/ ReadSettings(r)
            \/ Resolve(r) \/ ResolveFails(r) \/ EndStream(r) \/ Release(r) \/ Returned(r)

Change(d) == \/ Begin(d) \/ StopAutoload(d) \/ DrainAutoload(d) \/ InvalidateRequests(d)
             \/ RetireLLM(d) \/ KeepLLM(d) \/ StartAutoload(d) \/ NoAutoload(d) \/ Finish(d)

RuntimeNext ==
  \/ \E r \in Requests : TakeSettings(r) \/ PrepareProvider(r) \/ LoadHandler(r)
  \/ \E r \in Clients : Serve(r) \/ ContextEnds(r)
  \/ \E d \in Savers : SaveSettings(d) \/ SavePolicy(d)
  \/ \E d \in Handlers : RestartSelected(d) \/ TerminateDuplicates(d) \/ Unload(d)
  \/ \E d \in Changers : Change(d)
  \/ EmergencyStop
  \/ BuildRuntime

RuntimeSpec == RuntimeInit /\ [][RuntimeNext]_vars

(* Goroutines run, streams end (the provider has a timeout), and so does the *)
(* context of an autoload (llmAutoloadTimeout).                              *)
FairRuntimeSpec == /\ RuntimeSpec
                   /\ \A r \in Clients : WF_vars(Serve(r))
                   /\ \A d \in Changers : WF_vars(Change(d))
                   /\ \A a \in Loads : WF_vars(ContextEnds(a))
-------------------------------------------------------------------------------
RuntimeTypeOK ==
  /\ SchedulerTypeOK
  /\ saved \in Nat
  /\ llmGeneration \in Nat
  /\ cached \in Nat \cup {None}
  /\ autoloadCancel \in Loads \cup {None}
  /\ step \in [Clients -> {"idle", "settings", "acquire", "check", "read",
                           "resolve", "stream", "release"}]
  /\ uses \in [Clients -> Nat \cup {None}]
  /\ prepared \in [Clients -> Nat \cup {None}]
  /\ calls \in 0 .. MaxCalls

Streams(r) == step[r] = "stream" /\ pc[r] = "lease" /\ ~cancelled[r]
Applying == \E d \in Changers : call[d] = "settings" /\ dpc[d] = "begin"

(* Settings may be saved at any moment of a turn, also between the check of a *)
(* turn and its stream; but once the transition has begun nobody streams from *)
(* a configuration that is no longer saved.                                   *)
StreamIsCurrent == \A r \in Requests : Streams(r) => uses[r] = saved \/ Applying

(* No other request, autoload or handler replaces the model under a turn that *)
(* streams from it and has not been told to stop.                             *)
ActiveModelStays == \A r \in Requests : Streams(r) /\ prepared[r] = llmGeneration
                                        => cached = uses[r]

(* Every handler that changes the model's runtime ends, although it waits for *)
(* autoloads which wait in turn for the transition to end.                    *)
ChangesEnd == []<>(\A d \in Changers : dpc[d] = "idle")

(* Waiting chat turns are not kept out by autonomous work or by transitions:  *)
(* again and again nobody waits, or a chat turn has the slot.                 *)
ChatGetsSlot == []<>(interactiveWaiters = 0 \/ (active /\ ActivePriority = "interactive"))
===============================================================================
