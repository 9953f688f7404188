----------------------------- MODULE MCLuaTable -----------------------------
(* Tables with a few integer keys, hashed as the doubles they are, and with  *)
(* strings that collide with each other and with them.                       *)
EXTENDS LuaTable

Ints == {1, 2, 3}
Hashes == [k \in Keys |-> CASE k = Num(1) -> 1072693248
                            [] k = Num(2) -> 1073741824
                            [] k = Num(3) -> 1074266112
                            [] k = Num(4) -> 1074790400
                            [] k = Str("a") -> 1
                            [] OTHER -> 7]
=============================================================================
