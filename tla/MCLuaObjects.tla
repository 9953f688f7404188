---------------------------- MODULE MCLuaObjects ----------------------------
(* LuaObjects for TLC: the value 1 is a number that looks like a link of   *)
(* the registry's free list.                                               *)
EXTENDS LuaObjects

MCValues == {1}
=============================================================================
