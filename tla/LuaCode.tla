------------------------------ MODULE LuaCode ------------------------------
(* Lua's code generator, lcode.c: how an expression that is only described   *)
(* yet (expdesc) becomes instructions, when it takes a register, and how     *)
(* jumps whose target is not known are chained through their own operands.   *)
(* A FuncState fs is a record that the operators return changed; most take   *)
(* and return x = [fs, e], the state and the expression they work on.  The   *)
(* addresses of instructions and registers start at 0 as in the source; an   *)
(* instruction is a record of its fields, a jump's offset is its field b.    *)
(* fs.ok is FALSE after an assertion of lcode.c or lparser.c failed.         *)
EXTENDS Integers, Sequences, SequencesExt

CONSTANTS MaxIndexRK,      \* MAXINDEXRK: the last constant an operand can name
          FieldsPerFlush,  \* LFIELDS_PER_FLUSH: list items stored at a time
          MaxArgC,         \* MAXARG_C
          MaxStack         \* MAXSTACK: the registers of a function

ASSUME CodeLimits == /\ {MaxIndexRK, FieldsPerFlush, MaxArgC, MaxStack} \subseteq Nat
                     /\ MaxIndexRK < 256 /\ FieldsPerFlush > 0 /\ MaxStack \in 3..250

NoJump == -1
NoReg == 255
BitRK == 256
MultRet == -1

Ins(op, a, b, c) == [op |-> op, a |-> a, b |-> b, c |-> c]
Exp(k, info) == [k |-> k, info |-> info, aux |-> 0, nval |-> 0, t |-> NoJump, f |-> NoJump]
Pc(fs) == Len(fs.code)
InsAt(fs, pc) == fs.code[pc + 1]
SetArg(fs, pc, arg, value) == [fs EXCEPT !.code[pc + 1][arg] = value]
Asserting(fs, condition) == [fs EXCEPT !.ok = @ /\ condition]
With(x, k, info) == [x EXCEPT !.e.k = k, !.e.info = info]

TestOps == {"EQ", "LT", "LE", "TEST", "TESTSET", "TFORLOOP"}
IsK(rk) == rk >= BitRK
RKOf(e) == IF e.k = "VK" THEN BitRK + e.info ELSE e.info
HasJumps(e) == e.t # e.f
HasMultRet(k) == k \in {"VCALL", "VVARARG"}
IsNumeral(e) == e.k = "VKNUM" /\ e.t = NoJump /\ e.f = NoJump

----------------------------------------------------------------------------
(* Lists of jumps: each jump holds the distance to the next one.             *)
fixjump(fs, pc, dest) == SetArg(Asserting(fs, dest # NoJump), pc, "b", dest - (pc + 1))

getjump(fs, pc) == LET offset == InsAt(fs, pc).b IN
                   IF offset = NoJump THEN NoJump ELSE pc + 1 + offset

\* The test a conditional jump belongs to, or the jump itself.
getjumpcontrol(fs, pc) == IF pc >= 1 /\ InsAt(fs, pc - 1).op \in TestOps
                          THEN pc - 1 ELSE pc

RECURSIVE need_value(_, _), LastJump(_, _), removevalues(_, _), patchlistaux(_, _, _, _, _)

need_value(fs, list) ==
  /\ list # NoJump
  /\ \/ InsAt(fs, getjumpcontrol(fs, list)).op # "TESTSET"
     \/ need_value(fs, getjump(fs, list))

IsTestSet(fs, node) == InsAt(fs, getjumpcontrol(fs, node)).op = "TESTSET"

patchtestreg(fs, node, reg) ==
  LET pc == getjumpcontrol(fs, node)
      i == InsAt(fs, pc)
  IN IF i.op # "TESTSET" THEN fs
     ELSE IF reg # NoReg /\ reg # i.b THEN SetArg(fs, pc, "a", reg)
     ELSE [fs EXCEPT !.code[pc + 1] = Ins("TEST", i.b, 0, i.c)]

removevalues(fs, list) ==
  IF list = NoJump THEN fs
  ELSE removevalues(patchtestreg(fs, list, NoReg), getjump(fs, list))

patchlistaux(fs, list, vtarget, reg, dtarget) ==
  IF list = NoJump THEN fs
  ELSE LET target == IF IsTestSet(fs, list) THEN vtarget ELSE dtarget
           patched == fixjump(patchtestreg(fs, list, reg), list, target)
       IN patchlistaux(patched, getjump(fs, list), vtarget, reg, dtarget)

dischargejpc(fs) ==
  [patchlistaux(fs, fs.jpc, Pc(fs), NoReg, Pc(fs)) EXCEPT !.jpc = NoJump]

LastJump(fs, list) == IF getjump(fs, list) = NoJump THEN list
                      ELSE LastJump(fs, getjump(fs, list))

\* The list l1 with l2 at its end.
luaK_concat(fs, l1, l2) ==
  IF l2 = NoJump THEN [fs |-> fs, l |-> l1]
  ELSE IF l1 = NoJump THEN [fs |-> fs, l |-> l2]
  ELSE [fs |-> fixjump(fs, LastJump(fs, l1), l2), l |-> l1]

luaK_getlabel(fs) == [fs EXCEPT !.lasttarget = Pc(fs)]

luaK_patchtohere(fs, list) ==
  LET held == luaK_concat(luaK_getlabel(fs), fs.jpc, list)
  IN [held.fs EXCEPT !.jpc = held.l]

luaK_patchlist(fs, list, target) ==
  IF target = Pc(fs) THEN luaK_patchtohere(fs, list)
  ELSE patchlistaux(Asserting(fs, target < Pc(fs)), list, target, NoReg, target)

----------------------------------------------------------------------------
(* Instructions.                                                             *)
luaK_code(fs, i) == [dischargejpc(fs) EXCEPT !.code = Append(@, i)]

luaK_codeABC(fs, op, a, b, c) == luaK_code(fs, Ins(op, a, b, c))

luaK_jump(fs) == luaK_concat(luaK_code([fs EXCEPT !.jpc = NoJump], Ins("JMP", 0, NoJump, 0)),
                             Pc(fs), fs.jpc)

luaK_ret(fs, first, nret) == luaK_codeABC(fs, "RETURN", first, nret + 1, 0)

condjump(fs, op, a, b, c) == luaK_jump(luaK_codeABC(fs, op, a, b, c))

\* Clearing registers joins the clearing just before it, unless a jump may
\* arrive in between; at a function's start all but the parameters are clear.
luaK_nil(fs, from, n) ==
  LET previous == InsAt(fs, Pc(fs) - 1)
      free == Pc(fs) > fs.lasttarget
  IN IF free /\ Pc(fs) = 0 /\ from >= fs.nactvar THEN fs
     ELSE IF /\ free /\ Pc(fs) > 0 /\ previous.op = "LOADNIL"
             /\ previous.a <= from /\ from <= previous.b + 1
          THEN IF from + n - 1 > previous.b
               THEN SetArg(fs, Pc(fs) - 1, "b", from + n - 1) ELSE fs
     ELSE luaK_codeABC(fs, "LOADNIL", from, from + n - 1, 0)

luaK_setlist(fs, base, nelems, tostore) ==
  LET c == ((nelems - 1) \div FieldsPerFlush) + 1
      b == IF tostore = MultRet THEN 0 ELSE tostore
      done == IF c <= MaxArgC THEN luaK_codeABC(fs, "SETLIST", base, b, c)
              ELSE luaK_code(luaK_codeABC(fs, "SETLIST", base, b, 0), Ins("COUNT", c, 0, 0))
  IN [Asserting(done, tostore # 0) EXCEPT !.freereg = base + 1]

----------------------------------------------------------------------------
(* Registers and constants.                                                  *)
luaK_checkstack(fs, n) ==
  LET newstack == fs.freereg + n IN
  IF newstack <= fs.maxstacksize THEN fs
  ELSE IF newstack >= MaxStack THEN [fs EXCEPT !.error = "function or expression too complex"]
  ELSE [fs EXCEPT !.maxstacksize = newstack]

luaK_reserveregs(fs, n) == [luaK_checkstack(fs, n) EXCEPT !.freereg = @ + n]

freereg(fs, reg) ==
  IF IsK(reg) \/ reg < fs.nactvar THEN fs
  ELSE [Asserting(fs, reg = fs.freereg - 1) EXCEPT !.freereg = @ - 1]

freeexp(fs, e) == IF e.k = "VNONRELOC" THEN freereg(fs, e.info) ELSE fs

\* The constant's number, a new one if the function has it not yet.
AddK(x, value) ==
  LET known == SelectInSeq(x.fs.k, LAMBDA v : v = value) IN
  IF known # 0 THEN With(x, "VK", known - 1)
  ELSE With([x EXCEPT !.fs.k = Append(@, value)], "VK", Len(x.fs.k))

luaK_setreturns(x, nresults) ==
  CASE x.e.k = "VCALL" -> [x EXCEPT !.fs = SetArg(@, x.e.info, "c", nresults + 1)]
    [] x.e.k = "VVARARG" ->
         LET placed == SetArg(SetArg(x.fs, x.e.info, "b", nresults + 1), x.e.info, "a", x.fs.freereg)
         IN [x EXCEPT !.fs = luaK_reserveregs(placed, 1)]
    [] OTHER -> x

luaK_setmultret(x) == luaK_setreturns(x, MultRet)

luaK_setoneret(x) ==
  CASE x.e.k = "VCALL" -> With(x, "VNONRELOC", InsAt(x.fs, x.e.info).a)
    [] x.e.k = "VVARARG" -> [x EXCEPT !.fs = SetArg(@, x.e.info, "b", 2), !.e.k = "VRELOCABLE"]
    [] OTHER -> x

\* The instruction that computes e, whose target register is still open.
Relocable(fs, e, i) == [fs |-> luaK_code(fs, i), e |-> [e EXCEPT !.k = "VRELOCABLE", !.info = Pc(fs)]]

luaK_dischargevars(x) ==
  LET e == x.e  fs == x.fs IN
  CASE e.k = "VLOCAL" -> [x EXCEPT !.e.k = "VNONRELOC"]
    [] e.k = "VUPVAL" -> Relocable(fs, e, Ins("GETUPVAL", 0, e.info, 0))
    [] e.k = "VGLOBAL" -> Relocable(fs, e, Ins("GETGLOBAL", 0, e.info, 0))
    [] e.k = "VINDEXED" -> Relocable(freereg(freereg(fs, e.aux), e.info), e,
                                     Ins("GETTABLE", 0, e.info, e.aux))
    [] HasMultRet(e.k) -> luaK_setoneret(x)
    [] OTHER -> x

\* The value of e in register reg; nothing to do for an expression that is a
\* jump, whose value is where it jumps.
discharge2reg(x0, reg) ==
  LET x == luaK_dischargevars(x0)
      e == x.e  fs == x.fs
      In(state) == With([x EXCEPT !.fs = state], "VNONRELOC", reg)
      number == AddK(x, <<"num", e.nval>>)
  IN CASE e.k = "VNIL" -> In(luaK_nil(fs, reg, 1))
       [] e.k \in {"VFALSE", "VTRUE"} ->
            In(luaK_codeABC(fs, "LOADBOOL", reg, IF e.k = "VTRUE" THEN 1 ELSE 0, 0))
       [] e.k = "VK" -> In(luaK_codeABC(fs, "LOADK", reg, e.info, 0))
       [] e.k = "VKNUM" -> In(luaK_codeABC(number.fs, "LOADK", reg, number.e.info, 0))
       [] e.k = "VRELOCABLE" -> In(SetArg(fs, e.info, "a", reg))
       [] e.k = "VNONRELOC" ->
            In(IF reg = e.info THEN fs ELSE luaK_codeABC(fs, "MOVE", reg, e.info, 0))
       [] OTHER -> [x EXCEPT !.fs = Asserting(fs, e.k \in {"VVOID", "VJMP"})]

discharge2anyreg(x) ==
  IF x.e.k = "VNONRELOC" THEN x
  ELSE discharge2reg([x EXCEPT !.fs = luaK_reserveregs(@, 1)], x.fs.freereg)

\* Where jumps bring no value of their own, "false" and "true" are loaded by
\* two instructions after the expression: pos.f and pos.t.
LoadTargets(fs, e, reg) ==
  IF ~need_value(fs, e.t) /\ ~need_value(fs, e.f)
  THEN [fs |-> fs, f |-> NoJump, t |-> NoJump]
  ELSE LET over == IF e.k = "VJMP" THEN [fs |-> fs, l |-> NoJump] ELSE luaK_jump(fs)
           false == luaK_codeABC(luaK_getlabel(over.fs), "LOADBOOL", reg, 0, 1)
           true == luaK_codeABC(luaK_getlabel(false), "LOADBOOL", reg, 1, 0)
       IN [fs |-> luaK_patchtohere(true, over.l), f |-> Pc(over.fs), t |-> Pc(false)]

exp2reg(x0, reg) ==
  LET x == discharge2reg(x0, reg)
      own == IF x.e.k = "VJMP" THEN luaK_concat(x.fs, x.e.t, x.e.info) ELSE [fs |-> x.fs, l |-> x.e.t]
      e == [x.e EXCEPT !.t = own.l]
      pos == LoadTargets(own.fs, e, reg)
      final == Pc(pos.fs)
      patched == patchlistaux(patchlistaux(luaK_getlabel(pos.fs), e.f, final, reg, pos.f),
                              e.t, final, reg, pos.t)
  IN [fs |-> IF HasJumps(e) THEN patched ELSE own.fs, e |-> Exp("VNONRELOC", reg)]

luaK_exp2nextreg(x0) ==
  LET x == luaK_dischargevars(x0)
      fs == luaK_reserveregs(freeexp(x.fs, x.e), 1)
  IN exp2reg([x EXCEPT !.fs = fs], fs.freereg - 1)

luaK_exp2anyreg(x0) ==
  LET x == luaK_dischargevars(x0) IN
  IF x.e.k = "VNONRELOC" /\ ~HasJumps(x.e) THEN x
  ELSE IF x.e.k = "VNONRELOC" /\ x.e.info >= x.fs.nactvar THEN exp2reg(x, x.e.info)
  ELSE luaK_exp2nextreg(x)

luaK_exp2val(x) == IF HasJumps(x.e) THEN luaK_exp2anyreg(x) ELSE luaK_dischargevars(x)

Constant(e) == CASE e.k = "VNIL" -> <<"nil">>
                 [] e.k = "VKNUM" -> <<"num", e.nval>>
                 [] OTHER -> <<"bool", e.k = "VTRUE">>

\* A register, or a constant whose number an operand can hold: RKOf(e).
luaK_exp2RK(x0) ==
  LET x == luaK_exp2val(x0) IN
  CASE x.e.k \in {"VKNUM", "VTRUE", "VFALSE", "VNIL"} /\ Len(x.fs.k) <= MaxIndexRK ->
         AddK(x, Constant(x.e))
    [] x.e.k = "VK" /\ x.e.info <= MaxIndexRK -> x
    [] OTHER -> luaK_exp2anyreg(x)

luaK_storevar(x, var) ==
  LET reg == luaK_exp2anyreg(x)
      rk == luaK_exp2RK(x)
      Freed(y) == freeexp(y.fs, y.e)
      Store(y, i) == Freed([y EXCEPT !.fs = luaK_code(@, i)])
  IN CASE var.k = "VLOCAL" -> exp2reg([x EXCEPT !.fs = Freed(x)], var.info).fs
       [] var.k = "VUPVAL" -> Store(reg, Ins("SETUPVAL", reg.e.info, var.info, 0))
       [] var.k = "VGLOBAL" -> Store(reg, Ins("SETGLOBAL", reg.e.info, var.info, 0))
       [] var.k = "VINDEXED" -> Store(rk, Ins("SETTABLE", var.info, var.aux, RKOf(rk.e)))
       [] OTHER -> Asserting(x.fs, FALSE)

\* e:key, the function and its object in two registers.
luaK_self(x0, key) ==
  LET x == luaK_exp2anyreg(x0)
      freed == freeexp(x.fs, x.e)
      func == freed.freereg
      rk == luaK_exp2RK([fs |-> luaK_reserveregs(freed, 2), e |-> key])
      coded == luaK_codeABC(rk.fs, "SELF", func, x.e.info, RKOf(rk.e))
  IN [fs |-> freeexp(coded, rk.e), e |-> [x.e EXCEPT !.k = "VNONRELOC", !.info = func]]

----------------------------------------------------------------------------
(* Conditions.                                                               *)
invertjump(fs, e) ==
  LET pc == getjumpcontrol(fs, e.info)
      i == InsAt(fs, pc)
  IN SetArg(Asserting(fs, i.op \in TestOps \ {"TESTSET", "TEST"}), pc, "a", 1 - i.a)

\* A jump taken when e is true (cond = 1) or false (0): [fs, l].
jumponcond(x, cond) ==
  LET i == InsAt(x.fs, x.e.info)
      any == discharge2anyreg(x)
  IN IF x.e.k = "VRELOCABLE" /\ i.op = "NOT"
     THEN condjump([x.fs EXCEPT !.code = Front(@)], "TEST", i.b, 0, 1 - cond)
     ELSE condjump(freeexp(any.fs, any.e), "TESTSET", NoReg, any.e.info, cond)

luaK_goiftrue(x0) ==
  LET x == luaK_dischargevars(x0)
      jump == CASE x.e.k \in {"VK", "VKNUM", "VTRUE"} -> [fs |-> x.fs, l |-> NoJump]
                [] x.e.k = "VJMP" -> [fs |-> invertjump(x.fs, x.e), l |-> x.e.info]
                [] OTHER -> jumponcond(x, 0)
      list == luaK_concat(jump.fs, x.e.f, jump.l)
  IN [fs |-> luaK_patchtohere(list.fs, x.e.t), e |-> [x.e EXCEPT !.f = list.l, !.t = NoJump]]

luaK_goiffalse(x0) ==
  LET x == luaK_dischargevars(x0)
      jump == CASE x.e.k \in {"VNIL", "VFALSE"} -> [fs |-> x.fs, l |-> NoJump]
                [] x.e.k = "VJMP" -> [fs |-> x.fs, l |-> x.e.info]
                [] OTHER -> jumponcond(x, 1)
      list == luaK_concat(jump.fs, x.e.t, jump.l)
  IN [fs |-> luaK_patchtohere(list.fs, x.e.f), e |-> [x.e EXCEPT !.t = list.l, !.f = NoJump]]

\* Mutant: the jumps out of the operand still bring its value.
CodenotKeepingValues(x0) ==
  LET x == luaK_dischargevars(x0)
      any == discharge2anyreg(x)
      y == CASE x.e.k \in {"VNIL", "VFALSE"} -> [x EXCEPT !.e.k = "VTRUE"]
             [] x.e.k \in {"VK", "VKNUM", "VTRUE"} -> [x EXCEPT !.e.k = "VFALSE"]
             [] x.e.k = "VJMP" -> [x EXCEPT !.fs = invertjump(@, x.e)]
             [] OTHER -> Relocable(freeexp(any.fs, any.e), any.e, Ins("NOT", 0, any.e.info, 0))
  IN [y EXCEPT !.e.t = y.e.f, !.e.f = y.e.t]

codenot(x0) ==
  LET x == luaK_dischargevars(x0)
      any == discharge2anyreg(x)
      y == CASE x.e.k \in {"VNIL", "VFALSE"} -> [x EXCEPT !.e.k = "VTRUE"]
             [] x.e.k \in {"VK", "VKNUM", "VTRUE"} -> [x EXCEPT !.e.k = "VFALSE"]
             [] x.e.k = "VJMP" -> [x EXCEPT !.fs = invertjump(@, x.e)]
             [] x.e.k \in {"VRELOCABLE", "VNONRELOC"} ->
                  Relocable(freeexp(any.fs, any.e), any.e, Ins("NOT", 0, any.e.info, 0))
             [] OTHER -> [x EXCEPT !.fs = Asserting(@, FALSE)]
  IN [fs |-> removevalues(removevalues(y.fs, y.e.t), y.e.f),
      e |-> [y.e EXCEPT !.t = y.e.f, !.f = y.e.t]]

----------------------------------------------------------------------------
(* Operators.                                                                *)
luaK_indexed(x, t) ==
  LET rk == luaK_exp2RK(x)
  IN [fs |-> rk.fs, e |-> [t EXCEPT !.k = "VINDEXED", !.aux = RKOf(rk.e)]]

RECURSIVE Power(_, _)
Power(m, n) == IF n = 0 THEN 1 ELSE m * Power(m, n - 1)

\* Numbers are integers here, so DIV is left out and so is a negative power.
NumArith(op, m, n) == CASE op = "ADD" -> m + n
                        [] op = "SUB" -> m - n
                        [] op = "MUL" -> m * n
                        [] op = "MOD" -> m - n * (IF n > 0 THEN m \div n ELSE (-m) \div (-n))
                        [] op = "POW" -> Power(m, n)
                        [] op = "UNM" -> -m
ArithOps == {"ADD", "SUB", "MUL", "MOD", "POW", "UNM"}

constfolding(op, e1, e2) == /\ IsNumeral(e1) /\ IsNumeral(e2)
                            /\ op \in ArithOps
                            /\ op = "MOD" => e2.nval # 0

codearith(x1, op, e2) ==
  LET unary == op \in {"UNM", "LEN"}
      right == IF unary THEN [x1 EXCEPT !.e = e2] ELSE luaK_exp2RK([x1 EXCEPT !.e = e2])
      o2 == IF unary THEN 0 ELSE RKOf(right.e)
      left == luaK_exp2RK([fs |-> right.fs, e |-> x1.e])
      o1 == RKOf(left.e)
      freed == IF o1 > o2 THEN freeexp(freeexp(left.fs, left.e), right.e)
                          ELSE freeexp(freeexp(left.fs, right.e), left.e)
  IN IF constfolding(op, x1.e, e2)
     THEN [x1 EXCEPT !.e.nval = NumArith(op, @, e2.nval)]
     ELSE Relocable(freed, left.e, Ins(op, 0, o1, o2))

codecomp(x1, op, cond, e2) ==
  LET left == luaK_exp2RK(x1)
      right == luaK_exp2RK([fs |-> left.fs, e |-> e2])
      freed == freeexp(freeexp(right.fs, right.e), left.e)
      o1 == RKOf(left.e)
      o2 == RKOf(right.e)
      jump == IF cond = 0 /\ op # "EQ" THEN condjump(freed, op, 1, o2, o1)
                                       ELSE condjump(freed, op, cond, o1, o2)
  IN [fs |-> jump.fs, e |-> [left.e EXCEPT !.k = "VJMP", !.info = jump.l]]

luaK_prefix(x, op) ==
  LET zero == Exp("VKNUM", 0) IN
  CASE op = "-" -> codearith(IF IsNumeral(x.e) THEN x ELSE luaK_exp2anyreg(x), "UNM", zero)
    [] op = "not" -> codenot(x)
    [] op = "#" -> codearith(luaK_exp2anyreg(x), "LEN", zero)

ArithOf == [o \in {"+", "-", "*", "%", "^"} |->
              CASE o = "+" -> "ADD" [] o = "-" -> "SUB" [] o = "*" -> "MUL"
                [] o = "%" -> "MOD" [] o = "^" -> "POW"]

luaK_infix(x, op) ==
  CASE op = "and" -> luaK_goiftrue(x)
    [] op = "or" -> luaK_goiffalse(x)
    [] op = ".." -> luaK_exp2nextreg(x)
    [] OTHER -> IF op \in DOMAIN ArithOf /\ IsNumeral(x.e) THEN x ELSE luaK_exp2RK(x)

\* e1 .. e2 where e2 is a concatenation too: one instruction for both.
codeconcat(x1, e2) ==
  LET x2 == luaK_exp2val([x1 EXCEPT !.e = e2])
      i == InsAt(x2.fs, x2.e.info)
      joined == freeexp(Asserting(x2.fs, x1.e.info = i.b - 1), x1.e)
      next == luaK_exp2nextreg(x2)
  IN IF x2.e.k = "VRELOCABLE" /\ i.op = "CONCAT"
     THEN [fs |-> SetArg(joined, x2.e.info, "b", x1.e.info),
           e |-> [x1.e EXCEPT !.k = "VRELOCABLE", !.info = x2.e.info]]
     ELSE codearith([fs |-> next.fs, e |-> x1.e], "CONCAT", next.e)

luaK_posfix(x1, op, e2) ==
  LET x2 == luaK_dischargevars([x1 EXCEPT !.e = e2])
      false == luaK_concat(x2.fs, x2.e.f, x1.e.f)
      true == luaK_concat(x2.fs, x2.e.t, x1.e.t)
  IN CASE op = "and" -> [fs |-> Asserting(false.fs, x1.e.t = NoJump), e |-> [x2.e EXCEPT !.f = false.l]]
       [] op = "or" -> [fs |-> Asserting(true.fs, x1.e.f = NoJump), e |-> [x2.e EXCEPT !.t = true.l]]
       [] op = ".." -> codeconcat(x1, e2)
       [] op \in DOMAIN ArithOf -> codearith(x1, ArithOf[op], e2)
       [] op = "==" -> codecomp(x1, "EQ", 1, e2)
       [] op = "~=" -> codecomp(x1, "EQ", 0, e2)
       [] op = "<" -> codecomp(x1, "LT", 1, e2)
       [] op = "<=" -> codecomp(x1, "LE", 1, e2)
       [] op = ">" -> codecomp(x1, "LT", 0, e2)
       [] op = ">=" -> codecomp(x1, "LE", 0, e2)
=============================================================================
