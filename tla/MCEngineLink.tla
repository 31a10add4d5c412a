---- MODULE MCEngineLink ----
(* Model checking of EngineLink. *)
EXTENDS EngineLink
====
