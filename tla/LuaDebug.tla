------------------------------ MODULE LuaDebug ------------------------------
(* The code checker of ldebug.c: what the virtual machine takes for granted  *)
(* of every instruction.  symbexec also traces one register for the names    *)
(* in error messages; that use is left out, and with it the order in which   *)
(* it walks: as a checker it looks at each instruction once.                 *)
EXTENDS LuaCode

Mode(T, A, B, C, form) == [T |-> T, A |-> A, B |-> B, C |-> C, form |-> form]

\* What the operands of an instruction are: a register (R), a constant or a
\* register (K), a number (U) or nothing (N).
OpModes(op) ==
  CASE op \in {"MOVE", "LOADNIL", "UNM", "NOT", "LEN"} -> Mode(FALSE, TRUE, "R", "N", "iABC")
    [] op \in {"LOADK", "GETGLOBAL"} -> Mode(FALSE, TRUE, "K", "N", "iABx")
    [] op \in {"LOADBOOL", "NEWTABLE", "CALL", "TAILCALL"} -> Mode(FALSE, TRUE, "U", "U", "iABC")
    [] op \in {"GETUPVAL", "VARARG"} -> Mode(FALSE, TRUE, "U", "N", "iABC")
    [] op \in {"GETTABLE", "SELF"} -> Mode(FALSE, TRUE, "R", "K", "iABC")
    [] op = "SETGLOBAL" -> Mode(FALSE, FALSE, "K", "N", "iABx")
    [] op \in {"SETUPVAL", "RETURN"} -> Mode(FALSE, FALSE, "U", "N", "iABC")
    [] op = "SETTABLE" -> Mode(FALSE, FALSE, "K", "K", "iABC")
    [] op \in {"ADD", "SUB", "MUL", "MOD", "POW"} -> Mode(FALSE, TRUE, "K", "K", "iABC")
    [] op = "CONCAT" -> Mode(FALSE, TRUE, "R", "R", "iABC")
    [] op = "JMP" -> Mode(FALSE, FALSE, "R", "N", "iAsBx")
    [] op \in {"EQ", "LT", "LE"} -> Mode(TRUE, FALSE, "K", "K", "iABC")
    [] op \in {"TEST", "TESTSET"} -> Mode(TRUE, TRUE, "R", "U", "iABC")
    [] op \in {"FORLOOP", "FORPREP"} -> Mode(FALSE, TRUE, "R", "N", "iAsBx")
    [] op = "TFORLOOP" -> Mode(TRUE, FALSE, "N", "U", "iABC")
    [] op = "SETLIST" -> Mode(FALSE, FALSE, "U", "U", "iABC")
    [] op = "CLOSE" -> Mode(FALSE, FALSE, "N", "N", "iABC")
    [] op = "CLOSURE" -> Mode(FALSE, TRUE, "U", "N", "iABx")

precheck(pt) ==
  /\ pt.maxstacksize <= MaxStack
  /\ pt.numparams + (IF "HasArg" \in pt.vararg THEN 1 ELSE 0) <= pt.maxstacksize
  /\ "NeedsArg" \in pt.vararg => "HasArg" \in pt.vararg
  /\ pt.code # <<>> /\ Last(pt.code).op = "RETURN"

luaG_checkopenop(i) == i.op \in {"CALL", "TAILCALL", "RETURN", "SETLIST"} /\ i.b = 0

checkArgMode(pt, r, mode) ==
  CASE mode = "N" -> r = 0
    [] mode = "U" -> TRUE
    [] mode = "R" -> r < pt.maxstacksize
    [] mode = "K" -> IF IsK(r) THEN r - BitRK < Len(pt.k) ELSE r < pt.maxstacksize

checkreg(pt, r) == r < pt.maxstacksize

\* A jump lands on an instruction, not on the count of a long list.
checkjump(pt, dest) == dest \in 0..Len(pt.code) - 1 /\ InsAt(pt, dest).op # "COUNT"

checkoperands(pt, pc, i) ==
  LET mode == OpModes(i.op) IN
  /\ checkreg(pt, i.a)
  /\ CASE mode.form = "iABC" -> checkArgMode(pt, i.b, mode.B) /\ checkArgMode(pt, i.c, mode.C)
       [] mode.form = "iABx" -> mode.B = "K" => i.b < Len(pt.k)
       [] mode.form = "iAsBx" -> checkjump(pt, pc + 1 + i.b)
  /\ mode.T => pc + 2 < Len(pt.code) /\ InsAt(pt, pc + 1).op = "JMP"

checkinstruction(pt, pc, i) ==
  LET next == InsAt(pt, pc + 1) IN
  CASE i.op = "LOADBOOL" -> i.c = 1 => /\ pc + 2 < Len(pt.code)
                                       /\ next.op # "SETLIST" \/ next.c # 0
    [] i.op \in {"GETUPVAL", "SETUPVAL"} -> i.b < pt.nups
    [] i.op \in {"GETGLOBAL", "SETGLOBAL"} -> pt.k[i.b + 1][1] = "str"
    [] i.op = "SELF" -> checkreg(pt, i.a + 1)
    [] i.op = "CONCAT" -> i.b < i.c
    [] i.op = "TFORLOOP" -> i.c >= 1 /\ checkreg(pt, i.a + 2 + i.c)
    [] i.op \in {"FORLOOP", "FORPREP"} -> checkreg(pt, i.a + 3)
    [] i.op \in {"CALL", "TAILCALL"} ->
         /\ i.b # 0 => checkreg(pt, i.a + i.b - 1)
         /\ IF i.c - 1 = MultRet THEN luaG_checkopenop(next)
            ELSE i.c - 1 # 0 => checkreg(pt, i.a + i.c - 2)
    [] i.op = "RETURN" -> i.b - 1 > 0 => checkreg(pt, i.a + i.b - 2)
    [] i.op = "SETLIST" -> /\ i.b > 0 => checkreg(pt, i.a + i.b)
                           /\ i.c = 0 => pc + 1 < Len(pt.code) - 1
    [] i.op = "CLOSURE" ->
         /\ i.b < Len(pt.p) /\ pc + pt.p[i.b + 1].nups < Len(pt.code)
         /\ \A j \in 1..pt.p[i.b + 1].nups : InsAt(pt, pc + j).op \in {"GETUPVAL", "MOVE"}
    [] i.op = "VARARG" ->
         /\ "IsVararg" \in pt.vararg /\ "NeedsArg" \notin pt.vararg
         /\ i.b - 1 = MultRet => luaG_checkopenop(next)
         /\ checkreg(pt, i.a + i.b - 2)
    [] OTHER -> TRUE

luaG_checkcode(pt) ==
  /\ precheck(pt)
  /\ \A pc \in 0..Len(pt.code) - 1 :
       LET i == InsAt(pt, pc) IN
       i.op # "COUNT" => checkoperands(pt, pc, i) /\ checkinstruction(pt, pc, i)
=============================================================================
