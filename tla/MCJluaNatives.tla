---- MODULE MCJluaNatives ----
EXTENDS JluaNatives

MCKeys == <<Num(1)>> \o [i \in 1..11 |-> Name(<<"a", "f", "__index", "__newindex", "__call", "__IsJavaObject", "debug", "traceback", "JLuaStateIndex", "__JVM", "__JVersion">>[i])] \o <<Name("_LOADED"), Name("jlua"), Name("__concat"), Str(<<"a", TwoByteNul>>)>>
MCJavaValues == {<<"null">>, <<"Boolean", FALSE>>, <<"Number", 1>>, <<"String", <<"a", Nul>>>>, <<"JavaFunction">>,
                 <<"Object", "o">>, <<"Object", "forbidden">>, <<"LuaObject", Tab(3)>>}
MCScripts == {"id", "none", "fail", "does not compile"}
Method(name, static, params, does) == [class |-> "C", name |-> name, static |-> static, params |-> params, does |-> does]
MCMethods == {Method("f", FALSE, <<"Object">>, "id"), Method("f", TRUE, <<"int">>, "id"), Method("f", FALSE, <<"String">>, "void"),
              Method("f", TRUE, <<>>, "id"), Method("g", FALSE, <<"interface">>, "throw"), Method("g", FALSE, <<"LuaObject">>, "id"),
              [Method("isInstance", FALSE, <<"Object">>, "id") EXCEPT !.class = "Class"], [Method("f", FALSE, <<>>, "throw") EXCEPT !.class = "Class"],
              Method("g", FALSE, <<"C">>, "throw"), Method("g", TRUE, <<"char">>, "throw"), Method("g", TRUE, <<"boolean">>, "throw")}

\* Table 3 with a metatable 4, the userdata of a Java object with metatable 5,
\* a global a, a global f.
Heap(s, a, f, index, tm) ==
    [s EXCEPT !.tab[2][Name("a")] = a, !.tab[2][Name("f")] = f,
              !.tab[3][Num(1)] = Num(1), !.tab[4][Name("__index")] = index, !.tab[4][Name("__newindex")] = index, !.tab[4][Name("f")] = Fun("id"), !.tab[4][Name("__concat")] = tm,
              !.tab[5][Name("__IsJavaObject")] = Bool(TRUE), !.tab[5][Name("__call")] = tm,
              !.meta[3] = 4, !.meta[11] = 5, !.java[11] = "o"]
Values == {Nil, Num(1), Name("a"), Tab(3), Box(11), Fun("id"), Fun("fail")}
Programs ==
    {NewState(NewStack(<<>>, Nil))} \cup
    {[Heap(NewState(NewStack(elems, Name("old"))), h[1], h[2], h[3], h[4]) EXCEPT !.obj = LuaObject(Tab(3))] :
        elems \in {<<>>} \cup [1..1 -> Values] \cup [1..2 -> Values \ {Nil, Fun("fail")}] \cup [1..3 -> {Num(1), Name("a"), Tab(3)}],
        h \in {<<Tab(3), Fun("id"), Nil, Nil>>, <<Tab(3), Fun("none"), Tab(2), Fun("id")>>,
               <<Num(1), Fun("fail"), Fun("id"), Fun("fail")>>, <<Tab(3), Tab(3), Tab(3), Nil>>}}
\* Lua code that has Java objects: the frame of a metamethod or a function of jlua.
Known(s) == [s EXCEPT !.tab[1][Name("JLuaStateIndex")] = Num(0), !.tab[1][Name("__JVM")] = Box(12), !.tab[1][Name("__JVersion")] = Box(12),
                      !.tab[1][Name("_LOADED")] = Tab(6), !.field = <<"Number", 1>>, !.array = <<<<"Number", 0>>, <<"Boolean", TRUE>>>>]
Debug(s, traceback) == [s EXCEPT !.tab[2][Name("debug")] = Tab(3), !.tab[3][Name("traceback")] = traceback]
Keys_ == {Nil, Num(0), Num(1), Num(2), Num(3), Num(9), Half(0), Half(1), Name("a"), Name("f"), Name("D"), Str(<<"1">>), Str(<<"a", Nul, "x">>)}
Texts == {Str(<<"a", Nul>>), Str(<<"a", FourByte>>), Str(<<TwoByteNul>>)}
Arguments ==
    {<<Box(11)>>, <<Name("C")>>, <<Name("C"), Num(2)>>, <<Name("I"), Tab(3)>>} \cup
    {<<Box(11), v>> : v \in Values \cup Keys_ \cup Texts \cup {Bool(FALSE)}} \cup {<<Box(11), k, v>> : k \in Keys_, v \in Values \cup {Str(<<"a", Nul>>)}}
Frame(args, object, traceback) ==
    [Debug(Known(Heap(NewState(NewStack(args, Name("old"))), Nil, Tab(4), Nil, Nil)), traceback) EXCEPT !.java[11] = object]
Frames ==
    {Frame(args, object, Nil) : args \in Arguments, object \in {"o", "class C", "array", "package", "function"}} \cup
    {Frame(args, object, Fun(f)) : args \in {<<Box(11), Tab(3)>>, <<Box(11), Fun("id")>>, <<Box(11), Nil>>},
                                   object \in {"o", "function"}, f \in {"id", "none", "fail"}} \cup
    {[Frame(args, object, Nil) EXCEPT !.field = <<"Object", "forbidden">>, !.array[1] = <<"Object", "forbidden">>] :
        args \in {<<Box(11), Name("a")>>, <<Box(11), Num(1)>>, <<Box(11), Num(9)>>}, object \in {"o", "array"}} \cup
    {[Frame(args, "o", Nil) EXCEPT !.attached = FALSE] : args \in {<<Box(11), Name("a")>>}}
\* A userdata that is not one of Java's.
Foreign == {[Heap(NewState(NewStack(<<Box(11)>>, Nil)), Nil, Num(1), Nil, Nil) EXCEPT !.meta[11] = 4]}
MCStarts == Foreign \cup Programs \cup Frames
====
