---------------------------- MODULE MCCallBridge ----------------------------
(***************************************************************************)
(* CallBridge for TLC.                                                      *)
(***************************************************************************)
EXTENDS CallBridge

\* The sets of features of the run: none, coroutines, and all, with API calls
\* that have no pcall.
MCUses == {{}, {"coroutines"}, Features}
=============================================================================
