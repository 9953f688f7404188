--------------------------- MODULE MCStateFactory ---------------------------
(* StateFactory for TLC.  Wrappers are never reused, so every run ends;    *)
(* addresses are, so that a new lua_State may lie where a closed one lay.  *)
EXTENDS StateFactory, TLC

Symmetry == Permutations(Wrappers) \cup Permutations(Ptrs)
=============================================================================
