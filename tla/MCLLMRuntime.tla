----------------------------- MODULE MCLLMRuntime -----------------------------
(* The model's runtime with a few requests, autoloads and settings changes. *)
EXTENDS LLMRuntime
===============================================================================
