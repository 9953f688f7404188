----------------------------- MODULE LuaParser -----------------------------
(* Lua's compiler, lparser.c: it emits code while it reads, one pass, with   *)
(* no tree in between.  What is abstracted is the reading: a chunk comes as  *)
(* the tree its tokens spell, and every rule below makes the calls the       *)
(* grammar function makes, in the order in which it reads.  The stack of     *)
(* FuncStates P has the function being compiled last; most operators take    *)
(* and return y = [P, e], the states and the expression read.                *)
(*                                                                           *)
(* Expressions  <<"nil">> <<"true">> <<"false">> <<"num", n>> <<"str", s>>    *)
(*   <<"dots">> <<"name", n>> <<"index", e, key>> <<"call", f, args>>        *)
(*   <<"method", e, name, args>> <<"paren", e>> <<"un", op, e>>              *)
(*   <<"bin", op, l, r>> <<"table", items>> <<"function", params, dots, body>> *)
(*   with items <<"item", e>> and <<"field", key, e>>; dots is "no", "dots" or, *)
(*   for a function that declares "..." and does not use it, "arg"           *)
(* Statements   <<"local", names, exps>> <<"assign", targets, exps>>         *)
(*   <<"callstat", e>> <<"do", body>> <<"while", c, body>>                   *)
(*   <<"repeat", body, c>> <<"if", clauses, else>> <<"fornum", n, exps, body>> *)
(*   <<"forin", names, exps, body>> <<"func", target, self, f>>              *)
(*   <<"localfunc", n, f>> <<"return", exps>> <<"break">>                    *)
EXTENDS LuaCode

Str(s) == <<"str", <<s>>>>

OpenFunc == [code |-> <<>>, k |-> <<>>, p |-> <<>>, bl |-> <<>>, actvar |-> <<>>, upvalues |-> <<>>,
             lasttarget |-> -1, jpc |-> NoJump, freereg |-> 0, nactvar |-> 0, maxstacksize |-> 2,
             numparams |-> 0, vararg |-> {}, ok |-> TRUE, error |-> ""]

Fs(P) == Last(P)
WithFs(P, fs) == Append(Front(P), fs)
Here(y) == [fs |-> Fs(y.P), e |-> y.e]
There(P, x) == [P |-> WithFs(P, x.fs), e |-> x.e]
On(y, Op(_)) == There(y.P, Op(Here(y)))
Read(P, e) == [P |-> P, e |-> e]
Failed(P) == Fs(P).error # ""
Update(P, Op(_)) == WithFs(P, Op(Fs(P)))

----------------------------------------------------------------------------
(* Variables.                                                                *)
adjustlocalvars(fs, names) == [fs EXCEPT !.actvar = @ \o names, !.nactvar = @ + Len(names)]

removevars(fs, tolevel) == [fs EXCEPT !.actvar = SubSeq(@, 1, tolevel), !.nactvar = tolevel]

searchvar(fs, n) == SelectLastInSeq(fs.actvar, LAMBDA v : v = n) - 1

\* The innermost block that holds the variable must close it.
markupval(fs, level) ==
  LET b == SelectLastInSeq(fs.bl, LAMBDA block : block.nactvar <= level)
  IN IF b = 0 THEN fs ELSE [fs EXCEPT !.bl[b].upval = TRUE]

indexupvalue(fs, v) ==
  LET key == [k |-> v.k, info |-> v.info]
      known == SelectInSeq(fs.upvalues, LAMBDA u : u = key)
  IN IF known # 0 THEN [fs |-> fs, e |-> Exp("VUPVAL", known - 1)]
     ELSE [fs |-> [fs EXCEPT !.upvalues = Append(@, key)], e |-> Exp("VUPVAL", Len(fs.upvalues))]

RECURSIVE singlevaraux(_, _, _)
singlevaraux(P, n, base) ==
  IF P = <<>> THEN Read(P, Exp("VGLOBAL", NoReg))
  ELSE LET v == searchvar(Fs(P), n)
           outer == singlevaraux(Front(P), n, FALSE)
           up == indexupvalue(Fs(P), outer.e)
       IN IF v >= 0
          THEN Read(IF base THEN P ELSE WithFs(P, markupval(Fs(P), v)), Exp("VLOCAL", v))
          ELSE IF outer.e.k = "VGLOBAL" THEN Read(Append(outer.P, Fs(P)), outer.e)
          ELSE Read(Append(outer.P, up.fs), up.e)

singlevar(P, n) ==
  LET found == singlevaraux(P, n, TRUE)
  IN IF found.e.k # "VGLOBAL" THEN found
     ELSE Read(There(found.P, AddK(Here(found), Str(n))).P,
               Exp("VGLOBAL", AddK(Here(found), Str(n)).e.info))

\* Mutant: a register too many for the results of a call.
AdjustAssignOver(y, nvars, nexps) ==
  LET extra == nvars - nexps
      open == IF extra + 1 < 0 THEN 0 ELSE extra + 1
      called == luaK_setreturns(Here(y), open).fs
      closed == IF y.e.k = "VVOID" THEN Fs(y.P) ELSE luaK_exp2nextreg(Here(y)).fs
      reg == closed.freereg
  IN WithFs(y.P, IF HasMultRet(y.e.k) THEN luaK_reserveregs(called, open)
                 ELSE IF extra > 0 THEN luaK_nil(luaK_reserveregs(closed, extra), reg, extra)
                 ELSE closed)

\* As many values as variables: a call or "..." at the end gives the missing
\* ones, else they are nil.
adjust_assign(y, nvars, nexps) ==
  LET extra == nvars - nexps
      open == IF extra + 1 < 0 THEN 0 ELSE extra + 1
      called == luaK_setreturns(Here(y), open).fs
      closed == IF y.e.k = "VVOID" THEN Fs(y.P) ELSE luaK_exp2nextreg(Here(y)).fs
      reg == closed.freereg
  IN WithFs(y.P, IF HasMultRet(y.e.k)
                 THEN IF open > 1 THEN luaK_reserveregs(called, open - 1) ELSE called
                 ELSE IF extra > 0 THEN luaK_nil(luaK_reserveregs(closed, extra), reg, extra)
                 ELSE closed)

----------------------------------------------------------------------------
(* Blocks and functions.                                                     *)
enterblock(fs, breakable) ==
  [Asserting(fs, fs.freereg = fs.nactvar) EXCEPT
     !.bl = Append(@, [breaklist |-> NoJump, breakable |-> breakable,
                       nactvar |-> fs.nactvar, upval |-> FALSE])]

leaveblock(fs) ==
  LET bl == Last(fs.bl)
      out == removevars([fs EXCEPT !.bl = Front(@)], bl.nactvar)
      closed == IF bl.upval THEN luaK_codeABC(out, "CLOSE", bl.nactvar, 0, 0) ELSE out
  IN luaK_patchtohere([Asserting(closed, ~(bl.breakable /\ bl.upval)) EXCEPT
                         !.freereg = bl.nactvar], bl.breaklist)

close_func(fs) ==
  LET f == luaK_ret(removevars(fs, 0), 0, 0)
  IN [code |-> f.code, k |-> f.k, p |-> f.p, nups |-> Len(f.upvalues), vararg |-> f.vararg,
      numparams |-> f.numparams, maxstacksize |-> f.maxstacksize,
      ok |-> f.ok /\ f.bl = <<>>, error |-> f.error]

\* The closure's instruction, followed by one that is not run for each
\* upvalue: where the enclosing function finds it.
pushclosure(fs, proto, upvalues) ==
  LET at == Pc(fs)
      made == luaK_codeABC([fs EXCEPT !.p = Append(@, proto)], "CLOSURE", 0, Len(fs.p), 0)
      Captured(f, u) == luaK_codeABC(f, IF u.k = "VLOCAL" THEN "MOVE" ELSE "GETUPVAL", 0, u.info, 0)
  IN [fs |-> FoldLeft(Captured, made, upvalues),
      e |-> Exp("VRELOCABLE", at)]

\* With "..." comes the local "arg", filled unless the body uses "...".
parlist(fs, params, dots) ==
  LET named == adjustlocalvars(fs, params \o IF dots THEN <<"arg">> ELSE <<>>)
  IN luaK_reserveregs(
       [named EXCEPT !.vararg = IF dots THEN {"HasArg", "NeedsArg", "IsVararg"} ELSE {},
                     !.numparams = named.nactvar - (IF dots THEN 1 ELSE 0)], named.nactvar)

RECURSIVE expr(_, _), chunk(_, _), statement(_, _), explist1(_, _), primaryexp(_, _), Items(_, _, _),
          Targets(_, _, _), Clauses(_, _, _, _), StoreBack(_, _)

body(P, function, self) ==
  LET opened == Append(P, OpenFunc)
      params == Update(opened, LAMBDA fs :
                  parlist(IF self THEN adjustlocalvars(fs, <<"self">>) ELSE fs, function[2], function[3] # "no"))
      compiled == chunk(params, function[4])
      inner == Fs(compiled)
  IN There(Front(compiled), pushclosure(Fs(Front(compiled)), close_func(inner), inner.upvalues))

luaY_parser(program) ==
  close_func(Fs(chunk(<<[OpenFunc EXCEPT !.vararg = {"IsVararg"}]>>, program)))

----------------------------------------------------------------------------
(* Expressions.                                                              *)
codestring(P, s) == There(P, AddK([fs |-> Fs(P), e |-> Exp("VVOID", 0)], Str(s)))

\* t[key]; a field's name is a string in the source's second form.
yindex(y, key) ==
  LET t == On(y, luaK_exp2anyreg)
      k == On(expr(t.P, key), luaK_exp2val)
  IN On(k, LAMBDA x : luaK_indexed(x, t.e))

\* The items of a constructor: cc = [P, t, v, na, nh, tostore], the pending
\* item v and how many are in registers.
recfield(cc, item) ==
  LET reg == Fs(cc.P).freereg
      key == On(On(expr(cc.P, item[2]), luaK_exp2val), luaK_exp2RK)
      value == On(expr(key.P, item[3]), luaK_exp2RK)
      set == luaK_codeABC(Fs(value.P), "SETTABLE", cc.t, RKOf(key.e), RKOf(value.e))
  IN [cc EXCEPT !.P = WithFs(value.P, [set EXCEPT !.freereg = reg]), !.nh = @ + 1]

closelistfield(cc) ==
  LET fs == luaK_exp2nextreg([fs |-> Fs(cc.P), e |-> cc.v]).fs
      closed == [cc EXCEPT !.v.k = "VVOID", !.P = WithFs(@, fs)]
  IN IF cc.v.k = "VVOID" THEN cc
     ELSE IF cc.tostore # FieldsPerFlush THEN closed
     ELSE [closed EXCEPT !.P = WithFs(@, luaK_setlist(fs, cc.t, cc.na, cc.tostore)), !.tostore = 0]

lastlistfield(cc) ==
  LET x == [fs |-> Fs(cc.P), e |-> cc.v]
      fs == IF cc.v.k = "VVOID" THEN x.fs ELSE luaK_exp2nextreg(x).fs
  IN IF cc.tostore = 0 THEN cc
     ELSE IF HasMultRet(cc.v.k)
     THEN [cc EXCEPT !.P = WithFs(@, luaK_setlist(luaK_setmultret(x).fs, cc.t, cc.na, MultRet)),
                     !.na = @ - 1]
     ELSE [cc EXCEPT !.P = WithFs(@, luaK_setlist(fs, cc.t, cc.na, cc.tostore))]

listfield(cc, item) ==
  LET y == expr(cc.P, item[2])
  IN [cc EXCEPT !.P = y.P, !.v = y.e, !.na = @ + 1, !.tostore = @ + 1]

Items(cc, items, i) ==
  IF i > Len(items) THEN lastlistfield(cc)
  ELSE LET next == closelistfield(cc) IN
       Items(IF items[i][1] = "field" THEN recfield(next, items[i]) ELSE listfield(next, items[i]),
             items, i + 1)

constructor(P, items) ==
  LET pc == Pc(Fs(P))
      new == luaK_codeABC(Fs(P), "NEWTABLE", 0, 0, 0)
      t == There(P, luaK_exp2nextreg([fs |-> new, e |-> Exp("VRELOCABLE", pc)]))
      cc == Items([P |-> t.P, t |-> t.e.info, v |-> Exp("VVOID", 0), na |-> 0, nh |-> 0, tostore |-> 0],
                  items, 1)
      sized == SetArg(SetArg(Fs(cc.P), pc, "b", cc.na), pc, "c", cc.nh)
  IN Read(WithFs(cc.P, sized), t.e)

explist1(P, exps) ==
  IF Len(exps) = 1 THEN expr(P, exps[1])
  ELSE expr(On(explist1(P, Front(exps)), luaK_exp2nextreg).P, Last(exps))

\* The call of the function in register base with the arguments behind it.
funcargs(f, args) ==
  LET base == f.e.info
      list == IF args = <<>> THEN Read(f.P, Exp("VVOID", 0))
              ELSE On(explist1(f.P, args), luaK_setmultret)
      open == HasMultRet(list.e.k)
      closed == IF open \/ args = <<>> THEN Fs(list.P) ELSE luaK_exp2nextreg(Here(list)).fs
      nparams == IF open THEN MultRet ELSE closed.freereg - (base + 1)
      called == luaK_codeABC(Asserting(closed, f.e.k = "VNONRELOC"), "CALL", base, nparams + 1, 2)
  IN Read(WithFs(list.P, [called EXCEPT !.freereg = base + 1]), Exp("VCALL", Pc(closed)))

primaryexp(P, tree) ==
  CASE tree[1] = "name" -> singlevar(P, tree[2])
    [] tree[1] = "paren" -> On(expr(P, tree[2]), luaK_dischargevars)
    [] tree[1] = "index" -> yindex(primaryexp(P, tree[2]), tree[3])
    [] tree[1] = "call" -> funcargs(On(primaryexp(P, tree[2]), luaK_exp2nextreg), tree[3])
    [] tree[1] = "method" ->
         LET object == primaryexp(P, tree[2])
             key == codestring(object.P, tree[3])
         IN funcargs(There(key.P, luaK_self([fs |-> Fs(key.P), e |-> object.e], key.e)), tree[4])

vararg(P) ==
  LET fs == Fs(P)
      used == [fs EXCEPT !.vararg = @ \ {"NeedsArg"}]
  IN Read(WithFs(P, IF "IsVararg" \in fs.vararg THEN luaK_codeABC(used, "VARARG", 0, 1, 0)
                    ELSE [used EXCEPT !.error = "cannot use '...' outside a vararg function"]),
          Exp("VVARARG", Pc(fs)))

simpleexp(P, tree) ==
  CASE tree[1] = "num" -> Read(P, [Exp("VKNUM", 0) EXCEPT !.nval = tree[2]])
    [] tree[1] = "str" -> codestring(P, tree[2])
    [] tree[1] = "nil" -> Read(P, Exp("VNIL", 0))
    [] tree[1] = "true" -> Read(P, Exp("VTRUE", 0))
    [] tree[1] = "false" -> Read(P, Exp("VFALSE", 0))
    [] tree[1] = "dots" -> vararg(P)
    [] tree[1] = "table" -> constructor(P, tree[2])
    [] tree[1] = "function" -> body(P, tree, FALSE)
    [] OTHER -> primaryexp(P, tree)

expr(P, tree) ==
  CASE Failed(P) -> Read(P, Exp("VVOID", 0))
    [] tree[1] = "un" -> On(expr(P, tree[3]), LAMBDA x : luaK_prefix(x, tree[2]))
    [] tree[1] = "bin" ->
         LET left == On(expr(P, tree[3]), LAMBDA x : luaK_infix(x, tree[2]))
             right == expr(left.P, tree[4])
         IN There(right.P, luaK_posfix([fs |-> Fs(right.P), e |-> left.e], tree[2], right.e))
    [] OTHER -> simpleexp(P, tree)

----------------------------------------------------------------------------
(* Statements.                                                               *)
block(P, stats) ==
  Update(chunk(Update(P, LAMBDA fs : enterblock(fs, FALSE)), stats), leaveblock)

\* A local that is assigned and that an assignment on its left indexes: that
\* one uses a copy.
check_conflict(fs, lhs, v) ==
  LET extra == fs.freereg
      Uses(var, field) == var.k = "VINDEXED" /\ var[field] = v.info
      Safe(var) == [var EXCEPT !.info = IF Uses(var, "info") THEN extra ELSE @,
                               !.aux = IF Uses(var, "aux") THEN extra ELSE @]
      conflict == \E i \in DOMAIN lhs : Uses(lhs[i], "info") \/ Uses(lhs[i], "aux")
  IN [lhs |-> [i \in DOMAIN lhs |-> Safe(lhs[i])],
      fs |-> IF conflict THEN luaK_reserveregs(luaK_codeABC(fs, "MOVE", extra, v.info, 0), 1) ELSE fs]

\* The variables of an assignment: a = [P, lhs].
Targets(a, targets, i) ==
  IF i > Len(targets) THEN a
  ELSE LET y == primaryexp(a.P, targets[i])
           checked == IF y.e.k = "VLOCAL" THEN check_conflict(Fs(y.P), a.lhs, y.e)
                      ELSE [lhs |-> a.lhs, fs |-> Fs(y.P)]
       IN Targets([P |-> WithFs(y.P, checked.fs), lhs |-> Append(checked.lhs, y.e)], targets, i + 1)

\* The values that wait in the last registers, stored from the last variable
\* back to the first.
StoreBack(fs, lhs) ==
  IF lhs = <<>> THEN fs
  ELSE StoreBack(luaK_storevar([fs |-> fs, e |-> Exp("VNONRELOC", fs.freereg - 1)], Last(lhs)),
                 Front(lhs))

assignment(P, targets, exps) ==
  LET a == Targets([P |-> P, lhs |-> <<>>], targets, 1)
      y == explist1(a.P, exps)
      nvars == Len(targets)
      nexps == Len(exps)
      adjusted == adjust_assign(y, nvars, nexps)
      dropped == IF nexps > nvars
                 THEN Update(adjusted, LAMBDA fs : [fs EXCEPT !.freereg = @ - (nexps - nvars)])
                 ELSE adjusted
      stored == luaK_storevar(luaK_setoneret(Here(y)), Last(a.lhs))
  IN IF nexps # nvars THEN Update(dropped, LAMBDA fs : StoreBack(fs, a.lhs))
     ELSE WithFs(y.P, StoreBack(stored, Front(a.lhs)))

cond(P, tree) ==
  LET v == expr(P, tree)
  IN On([v EXCEPT !.e.k = IF @ = "VNIL" THEN "VFALSE" ELSE @], luaK_goiftrue)

breakstat(fs) ==
  LET loop == SelectLastInSeq(fs.bl, LAMBDA b : b.breakable)
      upval == \E i \in loop + 1..Len(fs.bl) : fs.bl[i].upval
      closed == IF upval THEN luaK_codeABC(fs, "CLOSE", fs.bl[loop].nactvar, 0, 0) ELSE fs
      jump == luaK_jump(closed)
      list == luaK_concat(jump.fs, fs.bl[loop].breaklist, jump.l)
  IN IF loop = 0 THEN [fs EXCEPT !.error = "no loop to break"]
     ELSE [list.fs EXCEPT !.bl[loop].breaklist = list.l]

JumpBack(fs, target) == LET jump == luaK_jump(fs) IN luaK_patchlist(jump.fs, jump.l, target)

whilestat(P, tree, stats) ==
  LET start == Pc(Fs(P))
      exit == cond(Update(P, luaK_getlabel), tree)
      loop == block(Update(exit.P, LAMBDA fs : enterblock(fs, TRUE)), stats)
  IN Update(loop, LAMBDA fs : luaK_patchtohere(leaveblock(JumpBack(fs, start)), exit.e.f))

repeatstat(P, stats, tree) ==
  LET start == Pc(Fs(P))
      Enter(fs) == enterblock(enterblock(luaK_getlabel(fs), TRUE), FALSE)
      exit == cond(chunk(Update(P, Enter), stats), tree)
      list == exit.e.f
      Plain(fs) == luaK_patchlist(leaveblock(fs), list, start)
      Closing(fs) == JumpBack(leaveblock(luaK_patchtohere(breakstat(fs), list)), start)
  IN Update(exit.P, LAMBDA fs : leaveblock(IF Last(fs.bl).upval THEN Closing(fs) ELSE Plain(fs)))

exp1(P, tree) == On(expr(P, tree), luaK_exp2nextreg).P

\* The body of a for: P has the three control values in the last registers.
forbody(P, base, names, stats, isnum) ==
  LET control == adjustlocalvars(Fs(P), <<"(for 1)", "(for 2)", "(for 3)">>)
      prep == IF isnum THEN [fs |-> luaK_codeABC(control, "FORPREP", base, NoJump, 0), l |-> Pc(control)]
              ELSE luaK_jump(control)
      declared == luaK_reserveregs(adjustlocalvars(enterblock(prep.fs, FALSE), names), Len(names))
      After(fs) ==
        LET out == luaK_patchtohere(leaveblock(fs), prep.l)
            endfor == IF isnum THEN luaK_codeABC(out, "FORLOOP", base, NoJump, 0)
                      ELSE luaK_codeABC(out, "TFORLOOP", base, 0, Len(names))
        IN IF isnum THEN luaK_patchlist(endfor, Pc(out), prep.l + 1)
           ELSE JumpBack(endfor, prep.l + 1)
  IN Update(block(WithFs(P, declared), stats), After)

fornum(P, name, exps, stats) ==
  LET base == Fs(P).freereg
      limits == exp1(exp1(P, exps[1]), exps[2])
      one == AddK([fs |-> Fs(limits), e |-> Exp("VVOID", 0)], <<"num", 1>>)
      step == IF Len(exps) = 3 THEN exp1(limits, exps[3])
              ELSE WithFs(limits, luaK_reserveregs(
                     luaK_codeABC(one.fs, "LOADK", one.fs.freereg, one.e.info, 0), 1))
  IN forbody(step, base, <<name>>, stats, TRUE)

forlist(P, names, exps, stats) ==
  LET base == Fs(P).freereg
      y == explist1(P, exps)
      values == Update(adjust_assign(y, 3, Len(exps)), LAMBDA fs : luaK_checkstack(fs, 3))
  IN forbody(values, base, names, stats, FALSE)

forstat(P, tree) ==
  LET loop == Update(P, LAMBDA fs : enterblock(fs, TRUE))
  IN Update(IF tree[1] = "fornum" THEN fornum(loop, tree[2], tree[3], tree[4])
            ELSE forlist(loop, tree[2], tree[3], tree[4]), leaveblock)

\* The clauses of an if from i on: flist are the jumps of a false condition,
\* escape those past the end.
Clauses(P, tree, i, escape) ==
  LET test == cond(P, tree[2][i][1])
      flist == test.e.f
      then == block(test.P, tree[2][i][2])
      jump == luaK_jump(Fs(then))
      list == luaK_concat(jump.fs, escape, jump.l)
      next == WithFs(then, luaK_patchtohere(list.fs, flist))
      last == luaK_concat(Fs(then), escape, flist)
  IN IF i < Len(tree[2]) THEN Clauses(next, tree, i + 1, list.l)
     ELSE IF tree[3] # <<>>
     THEN Update(block(next, tree[3]), LAMBDA fs : luaK_patchtohere(fs, list.l))
     ELSE WithFs(then, luaK_patchtohere(last.fs, last.l))

ifstat(P, tree) == Clauses(P, tree, 1, NoJump)

localfunc(P, name, function) ==
  LET reg == Fs(P).freereg
      b == body(Update(P, LAMBDA fs : adjustlocalvars(luaK_reserveregs(fs, 1), <<name>>)), function, FALSE)
  IN WithFs(b.P, luaK_storevar(Here(b), Exp("VLOCAL", reg)))

localstat(P, names, exps) ==
  LET y == IF exps = <<>> THEN Read(P, Exp("VVOID", 0)) ELSE explist1(P, exps)
  IN Update(adjust_assign(y, Len(names), Len(exps)), LAMBDA fs : adjustlocalvars(fs, names))

funcstat(P, target, self, function) ==
  LET v == primaryexp(P, target)
      b == body(v.P, function, self)
  IN WithFs(b.P, luaK_storevar(Here(b), v.e))

exprstat(P, tree) ==
  LET v == primaryexp(P, tree[2])
  IN Update(v.P, LAMBDA fs : SetArg(fs, v.e.info, "c", 1))

retstat(P, exps) ==
  LET y == explist1(P, exps)
      open == luaK_setmultret(Here(y)).fs
      tail == IF y.e.k = "VCALL" /\ Len(exps) = 1
              THEN Asserting([open EXCEPT !.code[y.e.info + 1].op = "TAILCALL"],
                             InsAt(open, y.e.info).a = open.nactvar)
              ELSE open
      any == luaK_exp2anyreg(Here(y))
      next == luaK_exp2nextreg(Here(y)).fs
  IN IF exps = <<>> THEN Update(P, LAMBDA fs : luaK_ret(fs, 0, 0))
     ELSE WithFs(y.P,
            IF HasMultRet(y.e.k) THEN luaK_ret(tail, tail.nactvar, MultRet)
            ELSE IF Len(exps) = 1 THEN luaK_ret(any.fs, any.e.info, 1)
            ELSE luaK_ret(Asserting(next, Len(exps) = next.freereg - next.nactvar),
                          next.nactvar, Len(exps)))

statement(P, s) ==
  CASE s[1] = "if" -> ifstat(P, s)
    [] s[1] = "while" -> whilestat(P, s[2], s[3])
    [] s[1] = "do" -> block(P, s[2])
    [] s[1] \in {"fornum", "forin"} -> forstat(P, s)
    [] s[1] = "repeat" -> repeatstat(P, s[2], s[3])
    [] s[1] = "func" -> funcstat(P, s[2], s[3], s[4])
    [] s[1] = "localfunc" -> localfunc(P, s[2], s[3])
    [] s[1] = "local" -> localstat(P, s[2], s[3])
    [] s[1] = "return" -> retstat(P, s[2])
    [] s[1] = "break" -> Update(P, breakstat)
    [] s[1] = "callstat" -> exprstat(P, s)
    [] s[1] = "assign" -> assignment(P, s[2], s[3])

\* After a statement all registers above the locals are free again.
chunk(P, stats) ==
  IF stats = <<>> \/ Failed(P) THEN P
  ELSE LET done == Update(statement(P, Head(stats)), LAMBDA fs :
                     [Asserting(fs, fs.maxstacksize >= fs.freereg /\ fs.freereg >= fs.nactvar)
                        EXCEPT !.freereg = fs.nactvar])
       IN chunk(done, Tail(stats))
=============================================================================
