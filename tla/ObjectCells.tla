----------------------------- MODULE ObjectCells -----------------------------
(***************************************************************************)
(* What a LuaObject promises (LuaObject.java): once constructed it denotes *)
(* one Lua value, the one that was on the stack when it was constructed,   *)
(* until its finalizer gives it up.  Nothing another LuaObject does shows. *)
(*                                                                         *)
(* RefTable implements this with one table shared by all the objects.      *)
(***************************************************************************)
CONSTANTS
    Objects,    \* the LuaObject instances
    Values,     \* the Lua values other than nil
    Nil,        \* the Lua value nil
    None        \* what an object denotes before it is built and after it is finalized

VARIABLE cell   \* cell[o]: the Lua value that object o denotes

CellTypeOK == cell \in [Objects -> Values \cup {Nil, None}]

CellInit == cell = [o \in Objects |-> None]

Take(o, v) == /\ cell[o] = None
              /\ cell' = [cell EXCEPT ![o] = v]

Give(o) == /\ cell[o] # None
           /\ cell' = [cell EXCEPT ![o] = None]

CellNext == \E o \in Objects : Give(o) \/ \E v \in Values \cup {Nil} : Take(o, v)

CellSpec == CellInit /\ [][CellNext]_cell
=============================================================================
