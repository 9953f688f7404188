--------------------------- MODULE MCLuaLanguage ---------------------------
(* The programs of the run, written as the trees LuaParser takes.           *)
EXTENDS LuaLanguage

N(x) == <<"name", x>>
I(n) == <<"num", n>>
S(s) == <<"str", s>>
Nil == <<"nil">>
True == <<"true">>
Dots == <<"dots">>
\* What is called or indexed is a name, an indexing, a call or in parentheses.
Prefix(e) == IF e[1] \in {"name", "index", "call", "method", "paren"} THEN e ELSE <<"paren", e>>
C(f, args) == <<"call", Prefix(f), args>>
B(op, l, r) == <<"bin", op, l, r>>
Not(e) == <<"un", "not", e>>
At(t, k) == <<"index", Prefix(t), k>>
Fn(params, stats) == <<"function", params, "no", stats>>
FnDots(params, stats) == <<"function", params, "dots", stats>>
Table(items) == <<"table", items>>
Item(e) == <<"item", e>>
Local(names, exps) == <<"local", names, exps>>
Set(targets, exps) == <<"assign", targets, exps>>
Ret(exps) == <<"return", exps>>
If(c, stats) == <<"if", <<<<c, stats>>>>, <<>>>>
IfElse(c, stats, else) == <<"if", <<<<c, stats>>>>, else>>
Do(f, args) == <<"callstat", C(f, args)>>

a == N("a")
b == N("b")
t == N("t")
f == N("f")

Lists(from, least, most) == UNION {[1..n -> from] : n \in least..most}

\* Conditions in each place where a value or a jump is wanted.
Simple == {a, b, I(1), Nil, B("==", a, b), B("<", a, I(2)), Not(a)}
Conditions ==
  LET two == {B(op, l, r) : op \in {"and", "or"}, l \in Simple, r \in Simple} IN
  Simple \cup two \cup {Not(e) : e \in two} \cup {B("==", e, I(1)) : e \in two}
    \cup {B(op, e, Not(b)) : op \in {"and", "or"}, e \in two}
Places_(e) ==
  { <<Ret(<<e>>)>>,
    <<Local(<<"c">>, <<e>>), Ret(<<N("c"), a>>)>>,
    <<Set(<<a>>, <<e>>), Ret(<<a, b>>)>>,
    <<IfElse(e, <<Ret(<<I(1)>>)>>, <<Set(<<b>>, <<I(5)>>)>>), Ret(<<b>>)>>,
    <<<<"while", e, <<Set(<<a, b>>, <<Nil, Nil>>), <<"break">>>>>>, Ret(<<a>>)>>,
    <<<<"repeat", <<Local(<<"c">>, <<a>>), Set(<<a>>, <<I(1)>>)>>, B("or", B("and", N("c"), e), N("c"))>>,
      Ret(<<a>>)>> }
Branching == { <<Local(<<"a", "b">>, <<v, w>>)>> \o place :
                 v \in {Nil, I(1)}, w \in {Nil, I(2)}, place \in UNION {Places_(e) : e \in Conditions} }

\* Assignments to several variables, as many values as variables or not.
Assigning ==
  { << Local(<<"a", "t">>, <<I(1), Table(<<Item(I(10)), Item(I(20))>>)>>),
       Local(<<"u", "f">>, <<t, Fn(<<>>, <<Ret(<<I(2), I(3)>>)>>)>>),
       Set(targets, exps), Ret(<<a, N("g"), At(N("u"), I(1)), At(N("u"), I(2))>>) >> :
    targets \in Lists({a, N("g"), At(t, a), At(t, I(2)), t}, 1, 2),
    exps \in Lists({a, I(7), At(t, a), C(f, <<>>)}, 1, 3) }

\* Closures made in a loop, left by break or not, each with its variables.
Capture(i) == << Local(<<"x">>, <<i>>),
                 Set(<<At(t, i)>>, <<Fn(<<>>, <<Set(<<N("x")>>, <<B("+", N("x"), I(1))>>), Ret(<<B("+", N("x"), i)>>)>>)>>) >>
Counter == Fn(<<"s", "c">>, <<If(B("<", N("c"), N("s")), <<Ret(<<B("+", N("c"), I(1)), I(7)>>)>>)>>)
Loops(inner, tail) ==
  { <<"fornum", "i", <<I(1), I(3)>>, inner \o tail>>,
    <<"fornum", "i", <<I(3), I(1), I(-1)>>, inner \o tail>>,
    <<"forin", <<"i", "j">>, <<N("n"), I(3), I(0)>>, inner \o tail>>,
    <<"while", B("<", a, I(3)), <<Local(<<"i">>, <<B("+", a, I(1))>>)>> \o inner
        \o <<Set(<<a>>, <<N("i")>>)>> \o tail>>,
    <<"repeat", <<Local(<<"i">>, <<B("+", a, I(1))>>)>> \o inner \o <<Set(<<a>>, <<N("i")>>)>> \o tail,
      B("==", N("i"), I(3))>> }
Looping ==
  { << Local(<<"a", "t", "n">>, <<I(0), Table(<<>>), Counter>>), loop,
       Ret(<<C(At(t, I(2)), <<>>), C(At(t, I(2)), <<>>), B("and", At(t, I(3)), C(At(t, I(3)), <<>>)), a>>) >> :
    loop \in UNION { Loops(inner, tail) :
      inner \in {Capture(N("i")), <<<<"do", Capture(N("i"))>>>>},
      tail \in {<<>>, <<If(B("==", N("i"), I(2)), <<<<"break">>>>)>>,
                <<<<"do", <<Local(<<"y">>, <<N("i")>>),
                    Set(<<N("h")>>, <<Fn(<<>>, <<Ret(<<N("y")>>)>>)>>),
                    If(B("==", N("y"), I(2)), <<<<"break">>>>)>>>>>>} } }

\* Lists of values in constructors, calls and results.
Two_ == Fn(<<>>, <<Ret(<<I(8), I(9)>>)>>)
Listing ==
  LET Inside(stats) == << Local(<<"f">>, <<Two_>>),
                          Ret(<<C(<<"paren", FnDots(<<"a">>, stats)>>, <<I(4), I(5), I(6)>>)>>) >>
      Elements == {I(1), C(f, <<>>), Dots, <<"paren", Dots>>, a}
  IN {Inside(<<Ret(<<C(N("unpack"), <<Table([i \in DOMAIN l |-> Item(l[i])])>>)>>)>>) : l \in Lists(Elements, 1, 3)}
     \cup {Inside(<<Ret(<<C(N("select"), <<I(1)>> \o l), I(0)>>)>>) : l \in Lists(Elements, 1, 2)}
     \cup {Inside(<<Ret(l)>>) : l \in Lists(Elements, 0, 3)}
     \cup {Inside(<<Local(<<"x", "y">>, l), Ret(<<N("x"), N("y")>>)>>) : l \in Lists(Elements, 1, 3)}
     \cup {Inside(<<Local(<<"t">>, <<Table(l)>>), Ret(<<At(t, I(1)), At(t, I(2)), At(t, S("k"))>>)>>) :
             l \in Lists({Item(C(f, <<>>)), Item(a), <<"field", S("k"), Dots>>, <<"field", a, I(3)>>}, 1, 4)}

\* Operators, metamethods and errors.
Operands == {I(3), S("x"), Nil, t, a}
Meta == Table(<< <<"field", S("__add"), Fn(<<"p", "q">>, <<Ret(<<I(50), I(60)>>)>>)>>,
                 <<"field", S("__concat"), Fn(<<"p", "q">>, <<Ret(<<S("c")>>)>>)>>,
                 <<"field", S("__lt"), Fn(<<"p", "q">>, <<Ret(<<B("==", N("p"), t)>>)>>)>>,
                 <<"field", S("__eq"), Fn(<<"p", "q">>, <<Ret(<<I(1)>>)>>)>>,
                 <<"field", S("__call"), FnDots(<<"s", "p">>, <<Ret(<<B("..", N("p"), S("!")), Dots>>)>>)>>,
                 <<"field", S("__index"), Table(<<<<"field", S("k"), I(77)>>>>)>>,
                 <<"field", S("__newindex"), Fn(<<"s", "p", "q">>, <<Set(<<N("g")>>, <<N("q")>>)>>)>> >>)
Guarded(e) == << Local(<<"t", "a", "mt">>, <<Table(<<>>), Table(<<>>), Meta>>),
                 Do(N("setmetatable"), <<t, N("mt")>>), Do(N("setmetatable"), <<a, N("mt")>>),
                 Ret(<<C(N("pcall"), <<Fn(<<>>, <<Ret(<<e>>)>>)>>), N("g")>>) >>
Words == {S("x"), S("y"), B("..", S("x"), S("y")), B("..", S("x"), S("x"))}
Operating ==
  { Guarded(B(op, l, r)) : op \in {"+", "..", "<", "<=", "==", "~=", ">", ">="}, l \in Operands, r \in Operands }
  \cup { Guarded(B(op, l, r)) : op \in {"<", "<=", ">", ">="},
            l \in Words, r \in Words }
  \cup { Guarded(B("..", l, B("..", S("x"), r))) : l \in Operands, r \in Operands }
  \cup { Guarded(<<"un", op, e>>) : op \in {"-", "not", "#"}, e \in Operands }
  \cup { Guarded(B("%", B("-", I(2), I(9)), B("^", a2, I(2)))) : a2 \in {I(2), I(3)} }
  \cup { Guarded(C(e, <<S("x"), I(2), I(3)>>)) : e \in Operands \cup {N("error")} }
  \cup { Guarded(At(e, S("k"))) : e \in Operands }
  \cup { Guarded(<<"method", Prefix(e), "k", <<>>>>) : e \in Operands }
  \cup { Guarded(C(Fn(<<>>, <<Set(<<At(e, k)>>, <<I(4)>>), Ret(<<At(t, S("k"))>>)>>), <<>>)) :
            e \in Operands, k \in {S("k"), Nil} }

\* Functions: recursion, methods, upvalues of upvalues, old-style arguments,
\* variables shared by two closures and left by an error.
Fact == Fn(<<"n">>, <<If(B("<", N("n"), I(2)), <<Ret(<<I(1)>>)>>),
                      Ret(<<B("*", N("n"), C(f, <<B("-", N("n"), I(1))>>))>>)>>)
Down == Fn(<<"n", "acc">>, <<If(B("==", N("n"), I(0)), <<Ret(<<N("acc"), I(0)>>)>>),
                             Ret(<<C(f, <<B("-", N("n"), I(1)), B("+", N("acc"), N("n"))>>)>>)>>)
Functions_ ==
  { << <<"localfunc", "f", Fact>>, Ret(<<C(f, <<I(4)>>)>>) >>,
    << <<"localfunc", "f", Down>>, Ret(<<C(f, <<I(3), I(0)>>)>>) >>,
    << Local(<<"f">>, <<<<"function", <<"a">>, "arg", <<Ret(<<a, At(N("arg"), S("n")), At(N("arg"), I(2))>>)>>>>>>),
       Ret(<<C(f, <<I(1), I(2), I(3)>>)>>) >>,
    << Local(<<"f">>, <<FnDots(<<"a">>, <<Ret(<<N("arg"), Dots>>)>>)>>), Ret(<<C(f, <<I(1), I(2), I(3)>>)>>) >>,
    << Local(<<"t">>, <<Table(<<>>)>>),
       <<"func", At(t, S("m")), TRUE, Fn(<<"x">>, <<Set(<<At(N("self"), S("v"))>>, <<N("x")>>), Ret(<<N("self")>>)>>)>>,
       <<"func", At(t, S("get")), FALSE, Fn(<<"s">>, <<Ret(<<At(N("s"), S("v"))>>)>>)>>,
       Ret(<<C(At(t, S("get")), <<<<"method", t, "m", <<I(6)>>>>>>), <<"method", t, "get", <<>>>>>>) >>,
    << Local(<<"a">>, <<I(1)>>),
       Local(<<"f">>, <<Fn(<<>>, <<Ret(<<Fn(<<>>, <<Set(<<a>>, <<B("+", a, I(1))>>), Ret(<<a>>)>>),
                                       Fn(<<>>, <<Ret(<<a>>)>>)>>)>>)>>),
       Local(<<"p", "q">>, <<C(f, <<>>)>>), Ret(<<C(N("p"), <<>>), C(N("q"), <<>>), a>>) >>,
    << Local(<<"ok">>, <<C(N("pcall"), <<Fn(<<>>, << Local(<<"x">>, <<I(1)>>),
         Set(<<N("h")>>, <<Fn(<<>>, <<Set(<<N("x")>>, <<B("+", N("x"), I(1))>>), Ret(<<N("x")>>)>>)>>),
         Do(N("error"), <<I(3)>>) >>)>>)>>), Local(<<"y", "z">>, <<I(40), I(41)>>),
       Ret(<<N("ok"), C(N("h"), <<>>), C(N("h"), <<>>), N("y"), N("z")>>) >>,
    << Local(<<"a", "b">>, <<I(1)>>), <<"do", <<Local(<<"c">>, <<>>), Local(<<"d">>, <<>>),
       Set(<<a>>, <<B("==", N("c"), N("d"))>>)>>>>, Local(<<"e">>, <<>>), Ret(<<a, N("e"), b>>) >>,
    << Local(<<"n", "a">>, <<Counter, I(0)>>),
       Local(<<"f">>, <<Fn(<<>>, <<Ret(<<N("n"), I(3), I(0)>>)>>)>>),
       <<"forin", <<"i">>, <<C(f, <<>>)>>, <<Set(<<a>>, <<B("+", a, N("i"))>>)>>>>, Ret(<<a>>) >>,
    << <<"fornum", "i", <<I(1), Nil>>, <<>>>>, Ret(<<I(1)>>) >>,
    << Set(<<N("g")>>, <<B("..", B("..", S("x"), S("y")), S("z"))>>),
       Ret(<<<<"un", "#", N("g")>>, N("g"), C(N("unpack"), <<Table(<<Item(True), Item(<<"false">>)>>)>>)>>) >> }

MCPrograms == Branching \cup Assigning \cup Looping \cup Listing \cup Operating \cup Functions_

MCCompiler(p, stat) == LET compiled == chunk(p, <<stat>>) IN compiled
MCLoader(p) == LET main == close_func(Fs(p)) IN Start(main)
MCMachine(state) == LET next == Step(state) IN next
MCReference(prog) == LET meaning == Meaning(prog) IN meaning
=============================================================================
