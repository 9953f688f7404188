----------------------------- MODULE MCTryBlock -----------------------------
(* TryBlock for TLC. *)
EXTENDS TryBlock, TLC

AnyDebug == {"no table", "no traceback", "no string", "complete"}
WithTraceback == {"no string", "complete"}
=============================================================================
