----------------------------- MODULE MCMonitors -----------------------------
(* Monitors for TLC. *)
EXTENDS Monitors, TLC

PlainAndMore == {{}, {"hasty close"}, {"doFile", "across", "join", "hasty close"},
                 {"newThread"}, {"toThread"}}

Symmetry == Permutations(Threads \ {Main}) \cup Permutations(States)
=============================================================================
