---------------------------- MODULE LuaSemantics ----------------------------
(* What a Lua program means, for the compiler and the machine to agree with: *)
(* an evaluator of the trees of LuaParser that knows no registers, jumps,    *)
(* frames or upvalues.  A variable is a cell of its own, made when its       *)
(* declaration is run; env finds the cell of a name and holds the function's *)
(* extra arguments.  A store s is [cells, tables, funs, error].  Where the   *)
(* language leaves the order open (the stores of one assignment) it is the   *)
(* one of the code.                                                          *)
EXTENDS LuaVM

Two(s, vs) == [s |-> s, vs |-> vs]
First(vs) == IF vs = <<>> THEN NilV ELSE Head(vs)
Err(s, kind) == IF s.error = <<>> THEN [s EXCEPT !.error = <<Name(kind)>>] ELSE s
Nth(vs, i) == IF i \in DOMAIN vs THEN vs[i] ELSE NilV

Cell(s, v) == [s EXCEPT !.cells = Append(@, v)]
Bind(env, name, cell) == [env EXCEPT !.names = (name :> cell) @@ @]
MetaOf(s, v, event) == IF v[1] # "table" \/ s.tables[v[2]].mt = 0 THEN NilV
                       ELSE RawGet(s, s.tables[v[2]].mt, Name(event))

RECURSIVE Declare(_, _, _, _), Value(_, _, _), Values(_, _, _), Exec(_, _, _), Block(_, _, _),
          Apply(_, _, _), Index(_, _, _), Assign(_, _, _, _), StoreAll(_, _, _), Fill(_, _, _, _, _),
          While(_, _, _), Repeat(_, _, _), Numeric(_, _, _, _, _, _), Generic(_, _, _, _)

\* New variables with these values: [s, env].
Declare(s, env, names, vs) ==
  IF names = <<>> THEN [s |-> s, env |-> env]
  ELSE Declare(Cell(s, First(vs)), Bind(env, Head(names), Len(s.cells) + 1), Tail(names),
               IF vs = <<>> THEN vs ELSE Tail(vs))

One(tree, env, s) == LET r == Value(tree, env, s) IN [s |-> r.s, v |-> First(r.vs)]

Meta2(s, l, r, event, kind) ==
  LET tm == IF MetaOf(s, l, event) # NilV THEN MetaOf(s, l, event) ELSE MetaOf(s, r, event)
  IN IF tm = NilV THEN Two(Err(s, kind), <<>>) ELSE Apply(s, tm, <<l, r>>)

Truth(r) == [r EXCEPT !.vs = <<Bool(~IsFalse(First(@)))>>]

Equal(s, l, r) ==
  LET tm == MetaOf(s, l, "__eq")
  IN IF l # r /\ l[1] = "table" /\ r[1] = "table" /\ tm # NilV /\ tm = MetaOf(s, r, "__eq")
     THEN Truth(Apply(s, tm, <<l, r>>)) ELSE Two(s, <<Bool(l = r)>>)

\* Strings are ordered like words in a dictionary.
Before(u, w) == \E n \in 0..Len(u) :
                  /\ n < Len(w) /\ \A i \in 1..n : u[i] = w[i]
                  /\ n < Len(u) => Weight(u[n + 1]) < Weight(w[n + 1])

Less(s, l, r, orequal) ==
  LET Same(event) == MetaOf(s, l, event) # NilV /\ MetaOf(s, l, event) = MetaOf(s, r, event)
      swapped == Truth(Apply(s, MetaOf(s, l, "__lt"), <<r, l>>))
  IN IF l[1] # r[1] THEN Two(Err(s, "compare"), <<>>)
     ELSE IF l[1] = "num" THEN Two(s, <<Bool(l[2] < r[2] \/ (orequal /\ l[2] = r[2]))>>)
     ELSE IF l[1] = "str" THEN Two(s, <<Bool(Before(l[2], r[2]) \/ (orequal /\ l[2] = r[2]))>>)
     ELSE IF orequal /\ Same("__le") THEN Truth(Apply(s, MetaOf(s, l, "__le"), <<l, r>>))
     ELSE IF ~Same("__lt") THEN Two(Err(s, "compare"), <<>>)
     ELSE IF orequal THEN [swapped EXCEPT !.vs = <<Bool(~First(@)[2])>>]
     ELSE Truth(Apply(s, MetaOf(s, l, "__lt"), <<l, r>>))

Event == [o \in {"+", "-", "*", "%", "^"} |->
            CASE o = "+" -> "__add" [] o = "-" -> "__sub" [] o = "*" -> "__mul"
              [] o = "%" -> "__mod" [] o = "^" -> "__pow"]

Binary(s, op, l, r) ==
  CASE op \in DOMAIN ArithOf ->
         IF l[1] = "num" /\ r[1] = "num" THEN Two(s, <<Num(NumArith(ArithOf[op], l[2], r[2]))>>)
         ELSE Meta2(s, l, r, Event[op], "arithmetic")
    [] op = ".." -> IF IsText(l) /\ IsText(r) THEN Two(s, <<<<"str", tostring(l) \o tostring(r)>>>>)
                    ELSE Meta2(s, l, r, "__concat", "concatenate")
    [] op = "==" -> Equal(s, l, r)
    [] op = "~=" -> LET e == Equal(s, l, r) IN [e EXCEPT !.vs = <<Bool(IsFalse(First(@)))>>]
    [] op = "<" -> Less(s, l, r, FALSE)
    [] op = "<=" -> Less(s, l, r, TRUE)
    [] op = ">" -> Less(s, r, l, FALSE)
    [] op = ">=" -> Less(s, r, l, TRUE)

Unary(s, op, v) ==
  CASE op = "not" -> Two(s, <<Bool(IsFalse(v))>>)
    [] op = "-" -> IF v[1] = "num" THEN Two(s, <<Num(-v[2])>>) ELSE Meta2(s, v, v, "__unm", "arithmetic")
    [] op = "#" -> CASE v[1] = "table" -> Two(s, <<Num(Border(s.tables[v[2]].map))>>)
                     [] v[1] = "str" -> Two(s, <<Num(Len(v[2]))>>)
                     [] OTHER -> Two(Err(s, "length"), <<>>)

Index(s, t, key) ==
  LET tm == MetaOf(s, t, "__index") IN
  IF t[1] # "table" THEN Two(Err(s, "index"), <<>>)
  ELSE IF RawGet(s, t[2], key) # NilV \/ tm = NilV THEN Two(s, <<RawGet(s, t[2], key)>>)
  ELSE IF IsFunction(tm) THEN Apply(s, tm, <<t, key>>) ELSE Index(s, tm, key)

Assign(s, t, key, v) ==
  LET tm == MetaOf(s, t, "__newindex") IN
  IF s.error # <<>> THEN s
  ELSE IF t[1] # "table" THEN Err(s, "index")
  ELSE IF key = NilV THEN Err(s, "index is nil")
  ELSE IF RawGet(s, t[2], key) # NilV \/ tm = NilV THEN RawSet(s, t[2], key, v)
  ELSE IF IsFunction(tm) THEN Apply(s, tm, <<t, key, v>>).s ELSE Assign(s, tm, key, v)

\* The items of a constructor, n of them stored by position.
Fill(s, env, t, items, n) ==
  IF items = <<>> \/ s.error # <<>> THEN s
  ELSE LET item == Head(items)
           key == One(item[2], env, s)
           value == One(item[3], env, key.s)
           list == IF Tail(items) = <<>> THEN Value(item[2], env, s)
                   ELSE Two(key.s, <<key.v>>)
           Put(state, j) == RawSet(state, t, Num(n + j), list.vs[j])
       IN IF item[1] = "field" THEN Fill(Assign(value.s, <<"table", t>>, key.v, value.v), env, t, Tail(items), n)
          ELSE Fill(FoldLeft(Put, list.s, [j \in DOMAIN list.vs |-> j]), env, t, Tail(items), n + Len(list.vs))

Function(s, env, params, tree) ==
  Two([s EXCEPT !.funs = Append(@, [params |-> params, dots |-> tree[3], body |-> tree[4], env |-> env])],
      <<<<"fun", Len(s.funs) + 1>>>>)

Value(tree, env, s) ==
  IF s.error # <<>> THEN Two(s, <<>>)
  ELSE CASE tree[1] = "nil" -> Two(s, <<NilV>>)
    [] tree[1] \in {"true", "false"} -> Two(s, <<Bool(tree[1] = "true")>>)
    [] tree[1] = "num" -> Two(s, <<tree>>)
    [] tree[1] = "str" -> Two(s, <<Name(tree[2])>>)
    [] tree[1] = "dots" -> Two(s, env.dots)
    [] tree[1] = "name" -> IF tree[2] \in DOMAIN env.names THEN Two(s, <<s.cells[env.names[tree[2]]]>>)
                           ELSE Two(s, <<RawGet(s, 1, Name(tree[2]))>>)
    [] tree[1] = "paren" -> LET r == Value(tree[2], env, s) IN Two(r.s, <<First(r.vs)>>)
    [] tree[1] = "index" -> LET t == One(tree[2], env, s)  k == One(tree[3], env, t.s) IN
                            IF k.s.error # <<>> THEN Two(k.s, <<>>) ELSE
                            LET r == Index(k.s, t.v, k.v) IN Two(r.s, <<First(r.vs)>>)
    [] tree[1] = "call" -> LET f == One(tree[2], env, s)  a == Values(tree[3], env, f.s)
                           IN Apply(a.s, f.v, a.vs)
    [] tree[1] = "method" -> LET o == One(tree[2], env, s)
                                 f == IF o.s.error # <<>> THEN Two(o.s, <<>>) ELSE Index(o.s, o.v, Name(tree[3]))
                                 a == Values(tree[4], env, f.s)
                             IN Apply(a.s, First(f.vs), <<o.v>> \o a.vs)
    [] tree[1] = "function" -> Function(s, env, tree[2], tree)
    [] tree[1] = "table" -> LET new == luaH_new(s).m IN
                            Two(Fill(new, env, Len(new.tables), tree[2], 0), <<<<"table", Len(new.tables)>>>>)
    [] tree[1] = "un" -> LET v == One(tree[3], env, s)
                         IN IF v.s.error # <<>> THEN Two(v.s, <<>>) ELSE Unary(v.s, tree[2], v.v)
    [] tree[1] = "bin" ->
         LET l == One(tree[3], env, s)
             r == One(tree[4], env, l.s)
             done == Binary(r.s, tree[2], l.v, r.v)
         IN IF l.s.error # <<>> THEN Two(l.s, <<>>)
            ELSE IF (tree[2] = "and" /\ IsFalse(l.v)) \/ (tree[2] = "or" /\ ~IsFalse(l.v)) THEN Two(l.s, <<l.v>>)
            ELSE IF r.s.error # <<>> THEN Two(r.s, <<>>)
            ELSE IF tree[2] \in {"and", "or"} THEN Two(r.s, <<r.v>>) ELSE Two(done.s, <<First(done.vs)>>)

\* One value of each expression, all of the last.
Values(trees, env, s) ==
  IF trees = <<>> THEN Two(s, <<>>)
  ELSE IF Len(trees) = 1 THEN Value(trees[1], env, s)
  ELSE LET head == One(trees[1], env, s)  rest == Values(Tail(trees), env, head.s)
       IN Two(rest.s, <<head.v>> \o rest.vs)

Apply(s, f, args) ==
  LET fun == s.funs[f[2]]
      n == Len(fun.params)
      extra == SubSeq(args, n + 1, Len(args))
      hold == luaH_new(s).m
      arg == [key \in {Name("n")} \cup {Num(j) : j \in DOMAIN extra} |->
                IF key = Name("n") THEN Num(Len(extra)) ELSE extra[key[2]]]
      filled == [hold EXCEPT !.tables[Len(hold.tables)].map = arg]
      named == IF fun.dots = "no" THEN Declare(s, fun.env, fun.params, args)
               ELSE IF fun.dots = "arg" THEN Declare(filled, fun.env, Append(fun.params, "arg"),
                                        [i \in 1..n + 1 |-> IF i <= n THEN Nth(args, i)
                                                            ELSE <<"table", Len(hold.tables)>>])
               ELSE Declare(s, fun.env, Append(fun.params, "arg"), SubSeq(args, 1, n))
      r == Block(fun.body, [named.env EXCEPT !.dots = IF fun.dots # "no" THEN extra ELSE <<>>], named.s)
      tried == Apply(s, First(args), Tail(args))
      t == First(args)[2]
  IN IF s.error # <<>> THEN Two(s, <<>>)
     ELSE CASE f[1] = "fun" -> Two(r.s, IF r.flow = <<>> THEN <<>> ELSE r.flow[2])
            [] f = <<"cfun", "setmetatable">> -> Two([s EXCEPT !.tables[t].mt = args[2][2]], <<args[1]>>)
            [] f = <<"cfun", "error">> -> Two([s EXCEPT !.error = <<First(args)>>], <<>>)
            [] f = <<"cfun", "select">> -> Two(s, SubSeq(args, t + 1, Len(args)))
            [] f = <<"cfun", "unpack">> -> Two(s, [i \in 1..Border(s.tables[t].map) |-> RawGet(s, t, Num(i))])
            [] f = <<"cfun", "pcall">> ->
                 IF tried.s.error = <<>> THEN Two(tried.s, <<Bool(TRUE)>> \o tried.vs)
                 ELSE Two([tried.s EXCEPT !.error = <<>>], <<Bool(FALSE), tried.s.error[1]>>)
            [] OTHER -> LET tm == MetaOf(s, f, "__call") IN
                        IF IsFunction(tm) THEN Apply(s, tm, <<f>> \o args) ELSE Two(Err(s, "call"), <<>>)

----------------------------------------------------------------------------
(* Statements: [s, env, flow], flow empty, a break or a return with values.  *)
Flow(s, env, flow) == [s |-> s, env |-> env, flow |-> flow]

Block(stats, env, s) ==
  IF stats = <<>> \/ s.error # <<>> THEN Flow(s, env, <<>>)
  ELSE LET r == Exec(Head(stats), env, s)
       IN IF r.flow # <<>> THEN r ELSE Block(Tail(stats), r.env, r.s)

Inner(r, env) == [r EXCEPT !.env = env]
Loop(r, env) == Flow(r.s, env, IF r.flow = <<"break">> THEN <<>> ELSE r.flow)

While(tree, env, s) ==
  LET c == One(tree[2], env, s)
      r == Block(tree[3], env, c.s)
  IN IF c.s.error # <<>> \/ IsFalse(c.v) THEN Flow(c.s, env, <<>>)
     ELSE IF r.flow # <<>> \/ r.s.error # <<>> THEN Loop(r, env) ELSE While(tree, env, r.s)

Repeat(tree, env, s) ==
  LET r == Block(tree[2], env, s)
      c == One(tree[3], r.env, r.s)
  IN IF r.flow # <<>> \/ r.s.error # <<>> THEN Loop(r, env)
     ELSE IF c.s.error # <<>> \/ ~IsFalse(c.v) THEN Flow(c.s, env, <<>>) ELSE Repeat(tree, env, c.s)

Numeric(tree, env, s, i, limit, step) ==
  LET new == Declare(s, env, <<tree[2]>>, <<Num(i)>>)
      r == Block(tree[4], new.env, new.s)
  IN IF ~(IF step > 0 THEN i <= limit ELSE limit <= i) THEN Flow(s, env, <<>>)
     ELSE IF r.flow # <<>> \/ r.s.error # <<>> THEN Loop(r, env)
     ELSE Numeric(tree, env, r.s, i + step, limit, step)

Generic(tree, env, s, vs) ==
  LET call == Apply(s, Nth(vs, 1), <<Nth(vs, 2), Nth(vs, 3)>>)
      new == Declare(call.s, env, tree[2], call.vs)
      r == Block(tree[4], new.env, new.s)
  IN IF call.s.error # <<>> \/ First(call.vs) = NilV THEN Flow(call.s, env, <<>>)
     ELSE IF r.flow # <<>> \/ r.s.error # <<>> THEN Loop(r, env)
     ELSE Generic(tree, env, r.s, <<vs[1], Nth(vs, 2), First(call.vs)>>)

\* Where an assignment stores: a cell, or a table and a key.
Place(tree, env, s) ==
  IF tree[1] = "name" THEN IF tree[2] \in DOMAIN env.names THEN [s |-> s, cell |-> env.names[tree[2]]]
                           ELSE [s |-> s, cell |-> 0, t |-> Globals, k |-> Name(tree[2])]
  ELSE LET t == One(tree[2], env, s)  k == One(tree[3], env, t.s)
       IN [s |-> k.s, cell |-> 0, t |-> t.v, k |-> k.v]

Places(trees, env, s) ==
  FoldLeft(LAMBDA acc, tree : LET at == Place(tree, env, acc.s) IN [s |-> at.s, at |-> Append(acc.at, at)],
           [s |-> s, at |-> <<>>], trees)

StoreAll(s, at, vs) ==
  IF at = <<>> THEN s
  ELSE LET place == Last(at)  v == Nth(vs, Len(at)) IN
       StoreAll(IF place.cell # 0 THEN IF s.error # <<>> THEN s ELSE [s EXCEPT !.cells[place.cell] = v]
                ELSE Assign(s, place.t, place.k, v), Front(at), vs)

Exec(tree, env, s) ==
  CASE tree[1] = "local" -> LET r == Values(tree[3], env, s)  new == Declare(r.s, env, tree[2], r.vs)
                            IN Flow(new.s, new.env, <<>>)
    [] tree[1] = "assign" -> LET p == Places(tree[2], env, s)  r == Values(tree[3], env, p.s)
                             IN Flow(StoreAll(r.s, p.at, r.vs), env, <<>>)
    [] tree[1] = "callstat" -> Flow(Value(tree[2], env, s).s, env, <<>>)
    [] tree[1] = "do" -> Inner(Block(tree[2], env, s), env)
    [] tree[1] = "while" -> While(tree, env, s)
    [] tree[1] = "repeat" -> Repeat(tree, env, s)
    [] tree[1] = "if" ->
         IF tree[2] = <<>> THEN Inner(Block(tree[3], env, s), env)
         ELSE LET c == One(tree[2][1][1], env, s) IN
              IF c.s.error # <<>> THEN Flow(c.s, env, <<>>)
              ELSE IF ~IsFalse(c.v) THEN Inner(Block(tree[2][1][2], env, c.s), env)
              ELSE Exec(<<"if", Tail(tree[2]), tree[3]>>, env, c.s)
    [] tree[1] = "fornum" ->
         LET r == Values(tree[3], env, s)
             step == IF Len(tree[3]) = 3 THEN Nth(r.vs, 3) ELSE Num(1)
         IN IF r.s.error # <<>> THEN Flow(r.s, env, <<>>)
            ELSE IF {Nth(r.vs, 1)[1], Nth(r.vs, 2)[1], step[1]} # {"num"} THEN Flow(Err(r.s, "for"), env, <<>>)
            ELSE Numeric(tree, env, r.s, r.vs[1][2], r.vs[2][2], step[2])
    [] tree[1] = "forin" -> LET r == Values(tree[3], env, s) IN Generic(tree, env, r.s, r.vs)
    [] tree[1] = "func" ->
         LET p == Places(<<tree[2]>>, env, s)
             f == Function(p.s, env, (IF tree[3] THEN <<"self">> ELSE <<>>) \o tree[4][2], tree[4])
         IN Flow(StoreAll(f.s, p.at, f.vs), env, <<>>)
    [] tree[1] = "localfunc" ->
         LET new == Declare(s, env, <<tree[2]>>, <<>>)
             f == Function(new.s, new.env, tree[3][2], tree[3])
         IN Flow([f.s EXCEPT !.cells[Len(new.s.cells)] = f.vs[1]], new.env, <<>>)
    [] tree[1] = "return" -> LET r == Values(tree[2], env, s) IN Flow(r.s, env, <<"return", r.vs>>)
    [] tree[1] = "break" -> Flow(s, env, <<"break">>)

Meaning(program) ==
  LET global == [key \in {Name(f) : f \in Library} |-> <<"cfun", key[2][1]>>]
      r == Block(program, [names |-> <<>>, dots |-> <<>>],
                 [cells |-> <<>>, tables |-> <<[map |-> global, mt |-> 0]>>, funs |-> <<>>, error |-> <<>>])
  IN IF r.s.error # <<>> THEN <<"error", r.s.error[1]>>
     ELSE <<"values", IF r.flow = <<>> THEN <<>> ELSE r.flow[2]>>
=============================================================================
