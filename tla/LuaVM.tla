------------------------------- MODULE LuaVM -------------------------------
(* Lua's virtual machine: luaV_execute, one instruction a step, with what it *)
(* calls in ldo.c (frames, arguments and results on one stack), in lfunc.c   *)
(* (variables captured by closures: open while they live on the stack,       *)
(* closed when their block or function ends) and in ltm.c (metamethods).     *)
(* A machine m is a record; slots start at 0.  What a C function or a        *)
(* metamethod calls runs to its end within the step of its caller, as        *)
(* luaD_call starts luaV_execute anew.  Numbers are integers, strings are    *)
(* sequences of pieces that are no numerals, and memory never runs out.      *)
EXTENDS LuaDebug, TLC

CONSTANTS StackSize,   \* LUAI_MAXCSTACK: the slots of the stack
          MaxTagLoop   \* MAXTAGLOOP

ASSUME MachineLimits == StackSize \in Nat /\ MaxTagLoop \in Nat \ {0}

NilV == <<"nil">>
Num(n) == <<"num", n>>
Bool(b) == <<"bool", b>>
Name(s) == <<"str", <<s>>>>
IsFalse(v) == v = NilV \/ v = Bool(FALSE)
IsFunction(v) == v[1] \in {"fun", "cfun"}

Slot(m, i) == m.stack[i]
Push(m, v) == [m EXCEPT !.stack[m.top] = v, !.top = @ + 1]
Throw(m, v) == IF m.error # <<>> THEN m ELSE [m EXCEPT !.error = <<v>>]
Frame(m) == Last(m.ci)
WithFrame(m, ci) == [m EXCEPT !.ci = Append(Front(@), ci)]

RECURSIVE ProtoAt(_, _)
ProtoAt(p, path) == IF path = <<>> THEN p ELSE ProtoAt(p.p[Head(path)], Tail(path))
Closure(m) == m.closures[Slot(m, Frame(m).func)[2]]
Running(m) == ProtoAt(m.main, Closure(m).path)

----------------------------------------------------------------------------
(* Tables, without their metamethods, and metamethods.                       *)
RawGet(m, t, key) == LET map == m.tables[t].map IN IF key \in DOMAIN map THEN map[key] ELSE NilV

RawSet(m, t, key, v) ==
  LET map == m.tables[t].map
      others == [k \in DOMAIN map \ {key} |-> map[k]]
  IN [m EXCEPT !.tables[t].map = IF v = NilV THEN others ELSE (key :> v) @@ others]

luaH_new(m) == [m |-> [m EXCEPT !.tables = Append(@, [map |-> <<>>, mt |-> 0])],
                v |-> <<"table", Len(m.tables) + 1>>]

\* A border; the tables of this model have only one.
Border(map) == CHOOSE n \in 0..Cardinality(DOMAIN map) :
                 /\ n # 0 => Num(n) \in DOMAIN map
                 /\ Num(n + 1) \notin DOMAIN map

luaT_gettmbyobj(m, v, event) ==
  IF v[1] # "table" \/ m.tables[v[2]].mt = 0 THEN NilV
  ELSE RawGet(m, m.tables[v[2]].mt, Name(event))

----------------------------------------------------------------------------
(* Upvalues.                                                                 *)
\* The upvalue of a slot: the list of open ones is ordered, the highest first.
luaF_findupval(m, level) ==
  LET known == SelectInSeq(m.openupval, LAMBDA u : m.upvals[u].slot = level)
      above == SelectInSeq(m.openupval, LAMBDA u : m.upvals[u].slot < level)
      at == IF above = 0 THEN Len(m.openupval) + 1 ELSE above
      new == Len(m.upvals) + 1
  IN IF known # 0 THEN [m |-> m, u |-> m.openupval[known]]
     ELSE [m |-> [m EXCEPT !.upvals = Append(@, [slot |-> level, value |-> NilV]),
                           !.openupval = InsertAt(@, at, new)], u |-> new]

RECURSIVE luaF_close(_, _)
luaF_close(m, level) ==
  LET u == Head(m.openupval) IN
  IF m.openupval = <<>> \/ m.upvals[u].slot < level THEN m
  ELSE luaF_close([m EXCEPT !.openupval = Tail(@),
                            !.upvals[u] = [slot |-> -1, value |-> Slot(m, @.slot)]], level)

UpvalGet(m, u) == IF m.upvals[u].slot >= 0 THEN Slot(m, m.upvals[u].slot) ELSE m.upvals[u].value

UpvalSet(m, u, v) == IF m.upvals[u].slot >= 0 THEN [m EXCEPT !.stack[m.upvals[u].slot] = v]
                     ELSE [m EXCEPT !.upvals[u].value = v]

----------------------------------------------------------------------------
(* Calls.                                                                    *)
RECURSIVE SetNils(_, _, _), Run(_, _), luaD_call(_, _, _), Step(_), gettable(_, _, _, _),
          settable(_, _, _, _, _), luaV_concat(_, _, _), luaD_precall(_, _, _)

SetNils(m, from, to) == IF from >= to THEN m ELSE SetNils([m EXCEPT !.stack[from] = NilV], from + 1, to)

Move(m, to, from, n) ==
  [m EXCEPT !.stack = [i \in DOMAIN @ |-> IF i \in to..to + n - 1 THEN @[from + (i - to)] ELSE @[i]]]

\* The extra arguments stay below; the fixed ones are moved up above them.
adjust_varargs(m0, p, func, actual0) ==
  LET nfix == p.numparams
      filled == SetNils(m0, m0.top, func + 1 + nfix)
      actual == IF actual0 < nfix THEN nfix ELSE actual0
      m == [filled EXCEPT !.top = func + 1 + actual]
      nvar == actual - nfix
      extra == [i \in {Num(j) : j \in 1..nvar} |-> Slot(m, m.top - nvar + i[2] - 1)]
      hold == luaH_new(m)
      arg == IF "NeedsArg" \notin p.vararg THEN m
             ELSE [hold.m EXCEPT !.tables[hold.v[2]].map = (Name("n") :> Num(nvar)) @@ extra]
      fixed == m.top - actual
      moved == SetNils([Move(arg, m.top, fixed, nfix) EXCEPT !.top = @ + nfix], fixed, fixed + nfix)
  IN [m |-> IF "NeedsArg" \in p.vararg THEN Push(moved, hold.v) ELSE moved, base |-> m.top]

\* A value that is no function: its "__call" takes its place, with the value
\* as first argument.
tryfuncTM(m, func) ==
  LET tm == luaT_gettmbyobj(m, Slot(m, func), "__call")
      hole == [Move(m, func + 1, func, m.top - func) EXCEPT !.top = @ + 1, !.stack[func] = tm]
  IN IF IsFunction(tm) THEN hole ELSE Throw(m, Name("call"))

luaD_poscall(m, first) ==
  LET ci == Frame(m)
      had == IF m.top > first THEN m.top - first ELSE 0
      wanted == IF ci.nresults = MultRet THEN had ELSE ci.nresults
      kept == IF had < wanted THEN had ELSE wanted
      moved == SetNils(Move(m, ci.func, first, kept), ci.func + kept, ci.func + wanted)
  IN [moved EXCEPT !.top = ci.func + wanted, !.ci = Front(@)]

\* The functions of the base library a program may call; n results on top.
Argument(m, n) == IF Frame(m).base + n - 1 < m.top THEN Slot(m, Frame(m).base + n - 1) ELSE NilV

luaB_setmetatable(m) ==
  LET t == Argument(m, 1)  mt == Argument(m, 2) IN
  IF t[1] # "table" \/ mt[1] # "table" THEN Throw(m, Name("argument"))
  ELSE [m EXCEPT !.tables[t[2]].mt = mt[2], !.top = Frame(m).base + 1]

luaB_error(m) == Throw(m, Argument(m, 1))

\* select(n, ...): the arguments after the nth.
luaB_select(m) ==
  LET n == Argument(m, 1)[2] IN [m |-> m, n |-> LET left == m.top - Frame(m).base - n IN
                                               IF left < 0 THEN 0 ELSE left]

luaB_unpack(m) ==
  LET t == Argument(m, 1)[2]
      n == Border(m.tables[t].map)
  IN [m |-> [m EXCEPT !.stack = [i \in DOMAIN @ |-> IF i \in m.top..m.top + n - 1
                                                   THEN RawGet(m, t, Num(i - m.top + 1)) ELSE @[i]],
                      !.top = @ + n], n |-> n]

\* luaD_pcall: an error cuts the frames back and closes the variables above.
luaB_pcall(m) ==
  LET func == Frame(m).base
      called == luaD_call(m, func, MultRet)
      cut == luaF_close([called EXCEPT !.ci = SubSeq(@, 1, Len(m.ci)), !.error = <<>>], func)
      failed == Push(Push([cut EXCEPT !.top = func], Bool(FALSE)), called.error[1])
      n == called.top - func
  IN IF called.error # <<>> THEN [m |-> failed, n |-> 2]
     ELSE [m |-> [Move(called, func + 1, func, n) EXCEPT !.stack[func] = Bool(TRUE), !.top = @ + 1],
           n |-> n + 1]

CFunction(m, name) ==
  CASE name = "setmetatable" -> [m |-> luaB_setmetatable(m), n |-> 1]
    [] name = "error" -> [m |-> luaB_error(m), n |-> 0]
    [] name = "select" -> luaB_select(m)
    [] name = "unpack" -> luaB_unpack(m)
    [] name = "pcall" -> luaB_pcall(m)

CallInfo(func, base, top, nresults) ==
  [func |-> func, base |-> base, top |-> top, pc |-> 0, nresults |-> nresults, fresh |-> FALSE]

\* A frame for the function in slot func; a C function runs at once.
luaD_precall(m0, func, nresults) ==
  LET f == Slot(m0, func)
      p == ProtoAt(m0.main, m0.closures[f[2]].path)
      fixed == IF p.vararg = {}
               THEN [m |-> [m0 EXCEPT !.top = IF @ > func + 1 + p.numparams THEN func + 1 + p.numparams
                                              ELSE @], base |-> func + 1]
               ELSE adjust_varargs(m0, p, func, m0.top - func - 1)
      top == fixed.base + p.maxstacksize
      entered == [SetNils(fixed.m, fixed.m.top, top) EXCEPT !.top = top,
                    !.ci = Append(@, CallInfo(func, fixed.base, top, nresults))]
      ran == CFunction([m0 EXCEPT !.ci = Append(@, CallInfo(func, func + 1, m0.top + 4, nresults))], f[2])
      through == tryfuncTM(m0, func)
      room == m0.top + 2 * (IF f[1] = "fun" THEN p.maxstacksize ELSE 4) < StackSize
  IN IF m0.error # <<>> THEN m0
     ELSE IF ~IsFunction(f) THEN IF through.error # <<>> THEN through ELSE luaD_precall(through, func, nresults)
     ELSE IF ~room THEN Throw(m0, Name("stack overflow"))
     ELSE IF f[1] = "fun" THEN entered
     ELSE IF ran.m.error # <<>> THEN ran.m
     ELSE luaD_poscall(ran.m, ran.m.top - ran.n)

\* Steps until the frames are down to level again.
Run(m, level) == IF m.error # <<>> \/ Len(m.ci) <= level THEN m ELSE Run(Step(m), level)

luaD_call(m, func, nresults) ==
  LET called == luaD_precall(m, func, nresults)
  IN IF called.error # <<>> \/ Len(called.ci) = Len(m.ci) THEN called
     ELSE Run(WithFrame(called, [Frame(called) EXCEPT !.fresh = TRUE]), Len(m.ci))

\* A metamethod's one result: [m, v].
callTMres(m, f, p1, p2) ==
  LET called == luaD_call(Push(Push(Push(m, f), p1), p2), m.top, 1)
  IN IF called.error # <<>> THEN [m |-> called, v |-> NilV]
     ELSE [m |-> [called EXCEPT !.top = @ - 1], v |-> Slot(called, called.top - 1)]

callTM(m, f, p1, p2, p3) == luaD_call(Push(Push(Push(Push(m, f), p1), p2), p3), m.top, 0)

call_binTM(m, p1, p2, event) ==
  LET first == luaT_gettmbyobj(m, p1, event)
      tm == IF first = NilV THEN luaT_gettmbyobj(m, p2, event) ELSE first
      wrong == Name(IF event = "__concat" THEN "concatenate" ELSE "arithmetic")
  IN IF tm = NilV THEN [m |-> Throw(m, wrong), v |-> NilV] ELSE callTMres(m, tm, p1, p2)

----------------------------------------------------------------------------
(* Values.                                                                   *)
gettable(m, t, key, loop) ==
  LET raw == RawGet(m, t[2], key)
      tm == luaT_gettmbyobj(m, t, "__index")
  IN IF loop = MaxTagLoop THEN [m |-> Throw(m, Name("loop")), v |-> NilV]
     ELSE IF t[1] = "table" /\ (raw # NilV \/ tm = NilV) THEN [m |-> m, v |-> raw]
     ELSE IF t[1] # "table" THEN [m |-> Throw(m, Name("index")), v |-> NilV]
     ELSE IF IsFunction(tm) THEN callTMres(m, tm, t, key)
     ELSE gettable(m, tm, key, loop + 1)

settable(m, t, key, v, loop) ==
  LET tm == luaT_gettmbyobj(m, t, "__newindex")
  IN IF loop = MaxTagLoop THEN Throw(m, Name("loop"))
     ELSE IF t[1] # "table" THEN Throw(m, Name("index"))
     ELSE IF key = NilV THEN Throw(m, Name("index is nil"))
     ELSE IF RawGet(m, t[2], key) # NilV \/ tm = NilV THEN RawSet(m, t[2], key, v)
     ELSE IF IsFunction(tm) THEN callTM(m, tm, t, key, v)
     ELSE settable(m, tm, key, v, loop + 1)

Arith(m, op, b, c) ==
  IF b[1] = "num" /\ c[1] = "num" THEN [m |-> m, v |-> Num(NumArith(op, b[2], c[2]))]
  ELSE call_binTM(m, b, c, CASE op = "ADD" -> "__add" [] op = "SUB" -> "__sub" [] op = "MUL" -> "__mul"
                             [] op = "MOD" -> "__mod" [] op = "POW" -> "__pow" [] op = "UNM" -> "__unm")

\* Two tables are compared by a metamethod only if both have the same.
luaV_equalval(m, b, c) ==
  LET tm == luaT_gettmbyobj(m, b, "__eq")
      called == callTMres(m, tm, b, c)
  IN IF b[1] # c[1] \/ b = c \/ b[1] # "table" \/ tm = NilV \/ tm # luaT_gettmbyobj(m, c, "__eq")
     THEN [m |-> m, v |-> Bool(b = c)]
     ELSE [called EXCEPT !.v = Bool(~IsFalse(@))]

call_orderTM(m, l, r, event) ==
  LET tm == luaT_gettmbyobj(m, l, event) IN
  IF tm = NilV \/ tm # luaT_gettmbyobj(m, r, event) THEN [m |-> m, v |-> NilV]
  ELSE LET called == callTMres(m, tm, l, r) IN [called EXCEPT !.v = Bool(~IsFalse(@))]

\* The characters in the order of strcoll, those strings are compared by.
Collation == <<"x", "y", "z">>
Weight(c) == SelectInSeq(Collation, LAMBDA d : d = c)

RECURSIVE l_strcmp(_, _)
l_strcmp(ls, rs) ==
  IF ls = <<>> \/ rs = <<>> THEN Len(ls) - Len(rs)
  ELSE IF Head(ls) = Head(rs) THEN l_strcmp(Tail(ls), Tail(rs))
  ELSE Weight(Head(ls)) - Weight(Head(rs))

\* Numbers, strings, or a metamethod; a <= b may also be "not b < a".
Order(m, op, l, r) ==
  LET own == call_orderTM(m, l, r, IF op = "LT" THEN "__lt" ELSE "__le")
      other == call_orderTM(m, r, l, "__lt")
      wrong == [m |-> Throw(m, Name("compare")), v |-> NilV]
  IN IF l[1] # r[1] THEN wrong
     ELSE IF l[1] = "num" THEN [m |-> m, v |-> Bool(IF op = "LT" THEN l[2] < r[2] ELSE l[2] <= r[2])]
     ELSE IF l[1] = "str" THEN [m |-> m, v |-> Bool(IF op = "LT" THEN l_strcmp(l[2], r[2]) < 0
                                                    ELSE l_strcmp(l[2], r[2]) <= 0)]
     ELSE IF own.v # NilV THEN own
     ELSE IF op = "LT" \/ other.v = NilV THEN wrong
     ELSE [other EXCEPT !.v = Bool(~@[2])]

tostring(v) == IF v[1] = "num" THEN <<ToString(v[2])>> ELSE v[2]
IsText(v) == v[1] \in {"str", "num"}

\* The values of total slots up to last, joined from the right.
luaV_concat(m, total, last) ==
  LET top == Frame(m).base + last + 1
      b == Slot(m, top - 2)
      c == Slot(m, top - 1)
      joined == IF IsText(b) /\ IsText(c) THEN [m |-> m, v |-> <<"str", tostring(b) \o tostring(c)>>]
                ELSE call_binTM(m, b, c, "__concat")
      next == [joined.m EXCEPT !.stack[top - 2] = joined.v]
  IN IF total <= 1 \/ m.error # <<>> THEN m ELSE luaV_concat(next, total - 1, last - 1)

----------------------------------------------------------------------------
(* Instructions: m is the machine with pc already at the next one.           *)
RA(m, i) == Frame(m).base + i.a
Reg(m, r) == Slot(m, Frame(m).base + r)
RK(m, rk) == IF IsK(rk) THEN Running(m).k[rk - BitRK + 1] ELSE Reg(m, rk)
SetReg(m, i, v) == [m EXCEPT !.stack[RA(m, i)] = v]
InRA(i, r) == IF r.m.error # <<>> THEN r.m ELSE SetReg(r.m, i, r.v)
Jump(m, offset) == WithFrame(m, [Frame(m) EXCEPT !.pc = @ + offset])
Globals == <<"table", 1>>

DataStep(m, i) ==
  CASE i.op = "MOVE" -> SetReg(m, i, Reg(m, i.b))
    [] i.op = "LOADK" -> SetReg(m, i, Running(m).k[i.b + 1])
    [] i.op = "LOADBOOL" -> Jump(SetReg(m, i, Bool(i.b = 1)), i.c)
    [] i.op = "LOADNIL" -> SetNils(m, RA(m, i), Frame(m).base + i.b + 1)
    [] i.op = "GETUPVAL" -> SetReg(m, i, UpvalGet(m, Closure(m).upvals[i.b + 1]))
    [] i.op = "SETUPVAL" -> UpvalSet(m, Closure(m).upvals[i.b + 1], Reg(m, i.a))

TableStep(m, i) ==
  CASE i.op = "GETGLOBAL" -> InRA(i, gettable(m, Globals, Running(m).k[i.b + 1], 0))
    [] i.op = "SETGLOBAL" -> settable(m, Globals, Running(m).k[i.b + 1], Reg(m, i.a), 0)
    [] i.op = "GETTABLE" -> InRA(i, gettable(m, Reg(m, i.b), RK(m, i.c), 0))
    [] i.op = "SETTABLE" -> settable(m, Reg(m, i.a), RK(m, i.b), RK(m, i.c), 0)
    [] i.op = "NEWTABLE" -> InRA(i, luaH_new(m))
    [] i.op = "SELF" -> LET rb == Reg(m, i.b) IN
                        InRA(i, gettable([m EXCEPT !.stack[RA(m, i) + 1] = rb], rb, RK(m, i.c), 0))

OperatorStep(m, i) ==
  CASE i.op \in ArithOps \ {"UNM"} -> InRA(i, Arith(m, i.op, RK(m, i.b), RK(m, i.c)))
    [] i.op = "UNM" -> InRA(i, Arith(m, "UNM", Reg(m, i.b), Reg(m, i.b)))
    [] i.op = "NOT" -> SetReg(m, i, Bool(IsFalse(Reg(m, i.b))))
    [] i.op = "LEN" ->
         LET b == Reg(m, i.b) IN
         InRA(i, CASE b[1] = "table" -> [m |-> m, v |-> Num(Border(m.tables[b[2]].map))]
                   [] b[1] = "str" -> [m |-> m, v |-> Num(Len(b[2]))]
                   [] OTHER -> [m |-> Throw(m, Name("length")), v |-> NilV])
    [] i.op = "CONCAT" -> LET joined == luaV_concat(m, i.c - i.b + 1, i.c) IN
                          IF joined.error # <<>> THEN joined ELSE SetReg(joined, i, Reg(joined, i.b))

\* A test is followed by a jump, taken when the test says so, else skipped.
Branch(m, taken) == LET jump == InsAt(Running(m), Frame(m).pc)
                    IN Jump(m, IF taken THEN jump.b + 1 ELSE 1)

Compared(r, i) == IF r.m.error # <<>> THEN r.m ELSE Branch(r.m, (IF r.v[2] THEN 1 ELSE 0) = i.a)

TestStep(m, i) ==
  CASE i.op = "JMP" -> Jump(m, i.b)
    [] i.op = "EQ" -> Compared(luaV_equalval(m, RK(m, i.b), RK(m, i.c)), i)
    [] i.op \in {"LT", "LE"} -> Compared(Order(m, i.op, RK(m, i.b), RK(m, i.c)), i)
    [] i.op = "TEST" -> Branch(m, IsFalse(Reg(m, i.a)) # (i.c = 1))
    [] i.op = "TESTSET" ->
         LET taken == IsFalse(Reg(m, i.b)) # (i.c = 1)
         IN Branch(IF taken THEN SetReg(m, i, Reg(m, i.b)) ELSE m, taken)

WithTop(m, i, extra) == IF i.b # 0 THEN [m EXCEPT !.top = RA(m, i) + i.b + extra] ELSE m

\* Mutant: after a C function with a fixed number of results the top stays.
CallLeavingTop(m, i) == luaD_precall(WithTop(m, i, 0), RA(m, i), i.c - 1)

Call(m, i) ==
  LET called == luaD_precall(WithTop(m, i, 0), RA(m, i), i.c - 1)
  IN IF called.error = <<>> /\ Len(called.ci) = Len(m.ci) /\ i.c # 0
     THEN [called EXCEPT !.top = Frame(called).top] ELSE called

\* A tail call: the new frame takes the place of the one that called.
TailCall(m, i) ==
  LET called == luaD_precall(WithTop(m, i, 0), RA(m, i), MultRet)
      old == Frame(m)
      new == Frame(called)
      closed == luaF_close(called, old.base)
      base == old.func + (new.base - new.func)
      count == closed.top - new.func
      moved == Move(closed, old.func, new.func, count)
      ci == [old EXCEPT !.base = base, !.top = old.func + count, !.pc = 0]
  IN IF called.error # <<>> \/ Len(called.ci) = Len(m.ci) THEN called
     ELSE WithFrame([moved EXCEPT !.ci = Front(@), !.top = ci.top], ci)

Return(m, i) ==
  LET closed == luaF_close(WithTop(m, i, -1), Frame(m).base)
      back == luaD_poscall(closed, RA(m, i))
  IN IF ~Frame(m).fresh /\ Frame(m).nresults # MultRet
     THEN [back EXCEPT !.top = Frame(back).top] ELSE back

ForLoop(m, i) ==
  LET step == Slot(m, RA(m, i) + 2)[2]
      idx == Slot(m, RA(m, i))[2] + step
      limit == Slot(m, RA(m, i) + 1)[2]
      again == IF 0 < step THEN idx <= limit ELSE limit <= idx
  IN IF ~again THEN m
     ELSE Jump([m EXCEPT !.stack[RA(m, i)] = Num(idx), !.stack[RA(m, i) + 3] = Num(idx)], i.b)

ForPrep(m, i) ==
  LET a == RA(m, i) IN
  IF \E j \in 0..2 : Slot(m, a + j)[1] # "num" THEN Throw(m, Name("for"))
  ELSE Jump([m EXCEPT !.stack[a] = Num(@[2] - Slot(m, a + 2)[2])], i.b)

TForLoop(m, i) ==
  LET cb == RA(m, i) + 3
      called == luaD_call([Move(m, cb, cb - 3, 3) EXCEPT !.top = cb + 3], cb, i.c)
      back == [called EXCEPT !.top = Frame(called).top]
      goes == Slot(back, cb) # NilV
  IN IF called.error # <<>> THEN called
     ELSE Branch(IF goes THEN [back EXCEPT !.stack[cb - 1] = Slot(back, cb)] ELSE back, goes)

CallStep(m, i) == CASE i.op = "CALL" -> Call(m, i)
                    [] i.op = "TAILCALL" -> TailCall(m, i)
                    [] i.op = "RETURN" -> Return(m, i)
                    [] i.op = "FORLOOP" -> ForLoop(m, i)
                    [] i.op = "FORPREP" -> ForPrep(m, i)
                    [] i.op = "TFORLOOP" -> TForLoop(m, i)

SetList(m, i) ==
  LET n == IF i.b = 0 THEN m.top - RA(m, i) - 1 ELSE i.b
      c == IF i.c = 0 THEN InsAt(Running(m), Frame(m).pc).a ELSE i.c
      first == (c - 1) * FieldsPerFlush
      t == Reg(m, i.a)[2]
      Store(state, j) == RawSet(state, t, Num(first + j), Slot(m, RA(m, i) + j))
      stored == FoldLeft(Store, IF i.b = 0 THEN [m EXCEPT !.top = Frame(m).top] ELSE m,
                         [j \in 1..n |-> j])
  IN IF i.c = 0 THEN Jump(stored, 1) ELSE stored

\* A closure shares the open upvalue of a local of its maker, or an upvalue
\* its maker has.
MakeClosure(m, i) ==
  LET path == Append(Closure(m).path, i.b + 1)
      nups == ProtoAt(m.main, path).nups
      Capture(made, j) ==
        LET where == InsAt(Running(m), Frame(m).pc + j - 1)
            found == luaF_findupval(made.m, Frame(m).base + where.b)
        IN IF where.op = "GETUPVAL" THEN [made EXCEPT !.ups = Append(@, Closure(m).upvals[where.b + 1])]
           ELSE [m |-> found.m, ups |-> Append(made.ups, found.u)]
      made == FoldLeft(Capture, [m |-> m, ups |-> <<>>], [j \in 1..nups |-> j])
      linked == [made.m EXCEPT !.closures = Append(@, [path |-> path, upvals |-> made.ups])]
  IN Jump(SetReg(linked, i, <<"fun", Len(linked.closures)>>), nups)

VarArg(m, i) ==
  LET ci == Frame(m)
      n == ci.base - ci.func - Running(m).numparams - 1
      b == IF i.b - 1 = MultRet THEN n ELSE i.b - 1
      kept == IF b < n THEN b ELSE n
      moved == SetNils(Move(m, RA(m, i), ci.base - n, kept), RA(m, i) + kept, RA(m, i) + b)
  IN IF i.b - 1 # MultRet THEN moved
     ELSE IF RA(m, i) + n >= StackSize THEN Throw(m, Name("stack overflow"))
     ELSE [moved EXCEPT !.top = RA(m, i) + n]

FunctionStep(m, i) == CASE i.op = "SETLIST" -> SetList(m, i)
                        [] i.op = "CLOSE" -> luaF_close(m, RA(m, i))
                        [] i.op = "CLOSURE" -> MakeClosure(m, i)
                        [] i.op = "VARARG" -> VarArg(m, i)

NextIns(m) == InsAt(Running(m), Frame(m).pc)

Step(m0) ==
  LET i == NextIns(m0)
      m == Jump(m0, 1)
  IN CASE i.op \in {"MOVE", "LOADK", "LOADBOOL", "LOADNIL", "GETUPVAL", "SETUPVAL"} -> DataStep(m, i)
       [] i.op \in {"GETGLOBAL", "SETGLOBAL", "GETTABLE", "SETTABLE", "NEWTABLE", "SELF"} -> TableStep(m, i)
       [] i.op \in ArithOps \cup {"NOT", "LEN", "CONCAT"} -> OperatorStep(m, i)
       [] i.op \in {"JMP", "EQ", "LT", "LE", "TEST", "TESTSET"} -> TestStep(m, i)
       [] i.op \in {"CALL", "TAILCALL", "RETURN", "FORLOOP", "FORPREP", "TFORLOOP"} -> CallStep(m, i)
       [] i.op \in {"SETLIST", "CLOSE", "CLOSURE", "VARARG"} -> FunctionStep(m, i)

\* lua_call of a compiled chunk without arguments, from C.
Library == {"setmetatable", "error", "select", "unpack", "pcall"}

Start(main) ==
  LET global == [key \in {Name(f) : f \in Library} |-> <<"cfun", key[2][1]>>]
      m == [main |-> main, stack |-> [i \in 0..StackSize |-> NilV], top |-> 1, error |-> <<>>,
            ci |-> <<[func |-> 0, base |-> 1, top |-> 1, pc |-> 0, nresults |-> 0, fresh |-> TRUE]>>,
            tables |-> <<[map |-> global, mt |-> 0]>>, upvals |-> <<>>, openupval |-> <<>>,
            closures |-> <<[path |-> <<>>, upvals |-> <<>>]>>]
      called == luaD_precall(Push(m, <<"fun", 1>>), 1, MultRet)
  IN WithFrame(called, [Frame(called) EXCEPT !.fresh = TRUE])

Done(m) == m.error # <<>> \/ Len(m.ci) = 1
Results(m) == IF m.error # <<>> THEN <<"error", m.error[1]>>
              ELSE <<"values", [i \in 1..m.top - 1 |-> Slot(m, i)]>>
=============================================================================
