---- MODULE LuaFacade ----
(***************************************************************************)
(* Java's use of one Lua stack: the native methods in any legal order, and  *)
(* the methods of LuaState, LuaObject and Lua that are sequences of them,   *)
(* with operands counted from the top of the stack.                        *)
(*                                                                         *)
(* Java values carry their class in front.  A LuaObject is the value that  *)
(* its registry cell keeps for it (LuaObjects shows that it does).          *)
(***************************************************************************)
EXTENDS JniNatives

CONSTANTS
    JavaValues,     \* what a Java program hands to a method
    Names,          \* the names of globals and fields
    Scripts,        \* the chunks it runs; those that are not in Chunks do not compile
    Starts,         \* the states Java can find when Lua calls it, to start from
    Refused,        \* the objects that the JavaObjectChecker does not let through
    MaxArgs,        \* bound: the arguments of a call
    MaxSteps        \* bound: the calls

VARIABLES
    st,     \* the state
    co,     \* the stack of a coroutine of it
    did,    \* the last call
    steps
vars == <<st, co, did, steps>>

Fields == {"mem", "base", "top", "citop", "tab", "meta", "java", "globals", "env", "upvals", "ret", "err",
           "pins", "obj", "exc", "attached", "field", "array"}
IsRecord(s) == s = [f \in Fields |-> s[f]]
\* A stack: its slots, and a frame within them.
AreSlots(m) == m = [a \in 1..Cap |-> m[a]]
IsStack(s) ==
    /\ AreSlots(s.mem)
    /\ s.base \in Nat \ {0} /\ s.top \in s.base..Cap + 1 /\ s.citop \in 0..Cap + 1
IsState(s) == IsRecord(s) /\ s.pins \in Int /\ (s.err = NoError => IsStack(s))

ASSUME StackAssumption == /\ Cap \in Nat /\ Cap >= 2 + MinStack /\ MinStack \in Nat /\ Cap < -Registry
                          /\ MaxArgs \in Nat /\ MaxArgs >= 2
ASSUME StartsAssumption == \A s \in Starts : IsState(s)
\* The classes of values that pushObjectValue tells apart.
Classes == {"null", "Boolean", "Number", "String", "JavaFunction", "LuaObject", "array", "Object"}
ASSUME ValuesAssumption == \A o \in JavaValues : o[1] \in Classes

Null == <<"null">>
Exception == <<"exception">>
LuaObject(v) == <<"LuaObject", v>>
Answer(s, o) == [s EXCEPT !.obj = o]
Throw(s, e) == [s EXCEPT !.exc = e]
\* The object the last call made is the answer; n elements go.
Taken(s, n) == Answer(pop(s, n), s.ret)

----------------------------------------------------------------------------
(* LuaState *)

\* checkJavaObj
Exempt == {"package", "function", "LuaException"}
Permitted(object) == object \in Exempt \/ object \notin Refused
Refuses(o) == o[1] = "Object" /\ ~Permitted(o[2])
\* The first of the values that is refused, or 0.
FirstRefused(values) == SelectInSeq(values, Refuses)
pushObjectValue(s, o) ==
    CASE o[1] = "null" -> pushNil(s)
      [] o[1] = "Boolean" -> pushBoolean(s, o[2])
      [] o[1] = "Number" -> pushNumber(s, <<"number">> \o Tail(o))
      [] o[1] = "String" -> pushString(s, o[2])
      [] o[1] = "JavaFunction" -> pushJavaFunction(s, "function")
      [] o[1] = "LuaObject" -> Push(s, o[2])
      [] o[1] = "array" -> pushJavaArray(s, "array")
      [] o[1] = "Object" /\ ~Refuses(o) -> pushJavaObject(s, o[2])
      [] OTHER -> Throw(s, "LuaException")
\* What comes after a push, unless it throws.
AfterPush(s, o, Rest(_)) == IF Refuses(o) THEN pushObjectValue(s, o) ELSE Rest(pushObjectValue(s, o))
\* Whether there is room for them in the model.
Wraps(o) == o[1] \in {"JavaFunction", "array", "Object"}
Spare(s) == {n \in 0..MaxArgs : CanCreate(s, n) /\ CanBox(s, n)}
Pushable(room, values) == Cardinality({i \in DOMAIN values : Wraps(values[i])}) \in room

\* LuaObject(L, index): registerValue duplicates the value, luaL_ref pops it.
getLuaObject(s, i) ==
    LET p == pushValue(s, i) IN Return(pop(p, 1), LuaObject(At(p, -1)))

toJavaObject(s, i) ==
    CASE lua_type(s, i) = "boolean" -> Return(s, <<"Boolean", lua_toboolean(s, i)>>)
      [] lua_type(s, i) = "string" -> Return(toString(s, i), <<"String", toString(s, i).ret[2]>>)
      [] lua_type(s, i) \in {"function", "table"} -> getLuaObject(s, i)
      [] lua_type(s, i) = "number" -> Return(s, <<"Number">> \o Tail(lua_tonumber(s, i)))
      [] isObject(s, i).ret = 1 -> Return(s, <<"Object", getObjectFromUserdata(s, i).ret>>)
      [] lua_isuserdata(s, i) /\ isObject(s, i).ret = 0 -> getLuaObject(s, i)
      [] OTHER -> Return(s, Null)

----------------------------------------------------------------------------
(* LuaObject: push, look, pop *)

\* is(s, -1) of the object's value, which is pushed for the time of it.
Ask(s, v, is(_, _)) == LET r == is(Push(s, v), -1) IN Return(pop(r, 1), r.ret)

\* LuaObject(parent, name)
getField_(s, parent, key) ==
    IF Ask(s, parent, isTable).ret = 0 /\ Ask(s, parent, isUserdata).ret = 0 THEN Answer(s, Exception)
    ELSE Then(getTable(Push(Push(s, parent), key), -2), LAMBDA p : Taken(getLuaObject(remove(p, -2), -1), 1))

----------------------------------------------------------------------------
(* Lua *)

handleThrows(s) == Answer(pop(getLuaObject(s, -1), 1), Exception)

getGlobal_(s, name) ==
    Then(getGlobal(s, name), LAMBDA g : Taken(getLuaObject(g, -1), 1))

registerGlobal(s, name, o) == AfterPush(s, o, LAMBDA p : setGlobal(p, name))
createTable(s) == Taken(getLuaObject(newTable(s), -1), 1)

setTableField(s, table, key, o) ==
    IF Ask(s, table, isTable).ret = 0 THEN Answer(s, Exception)
    ELSE AfterPush(Push(s, table), key, LAMBDA p : AfterPush(p, o, LAMBDA q :
         Then(setTable(q, -3), LAMBDA set : Answer(pop(set, 1), Null))))

\* Mutant: only the field is popped if there is one.
getGlobalTableFieldUnpopped(s, name, key) ==
    Then(getGlobal(s, name), LAMBDA g :
    IF isTable(g, -1).ret = 0 THEN Answer(pop(g, 1), Exception)
    ELSE AfterPush(g, key, LAMBDA p : Then(getTable(p, -2), LAMBDA got : Taken(getLuaObject(got, -1), 1))))
getGlobalTableField(s, name, key) ==
    Then(getGlobal(s, name), LAMBDA g :
    IF isTable(g, -1).ret = 0 THEN Answer(pop(g, 1), Exception)
    ELSE AfterPush(g, key, LAMBDA p : Then(getTable(p, -2), LAMBDA got : Taken(getLuaObject(got, -1), 2))))

PushAll(s, args) ==
    LET pushed[n \in 0..Len(args)] == IF n = 0 THEN s ELSE pushObjectValue(pushed[n - 1], args[n])
    IN  pushed[Len(args)]
\* The results, from the stack.
ListOf(r, n) == <<"List", [i \in 1..n |-> getLuaObject(r, i - n - 1).ret[2]]>>
callFunctionEx(s, name, numOfResults, args) ==
    LET k == FirstRefused(args)
        called(r) == IF r.ret # 0 THEN handleThrows(r) ELSE Answer(pop(r, numOfResults), ListOf(r, numOfResults))
    IN  Then(getGlobal(s, name), LAMBDA g :
        IF k # 0 THEN Throw(PushAll(g, SubSeq(args, 1, k - 1)), "LuaException")
        ELSE called(pcall(PushAll(g, args), Len(args), numOfResults, 0)))

\* The results of the chunk stay on the stack.
doString(s, chunk) ==
    Then(LdoString(s, chunk), LAMBDA r : IF r.ret # 0 THEN handleThrows(r) ELSE Answer(r, Null))
doFile(s, chunk, fate) ==
    Then(LdoFile(s, chunk, fate), LAMBDA r : IF r.ret # 0 THEN handleThrows(r) ELSE Answer(r, Null))

----------------------------------------------------------------------------
(* The program: legal calls only (api_check).  did names the call and its    *)
(* arguments.                                                              *)

Fits(s, n) == s.top + n <= s.citop /\ s.top + n <= Cap
Positions == {i \in -lua_gettop(st)..lua_gettop(st) : i # 0}
TablesAt == {i \in Positions : lua_istable(st, i)}
Has(n) == lua_gettop(st) >= n
\* A native method: what it returns to Java is not kept.
Calls(native, s) == st' = Answer(Return(s, 0), Null) /\ did' = native /\ UNCHANGED co
\* A method above the natives; one that pushes Java values may throw.
Does(method, s) == st' = Return(s, 0) /\ did' = method /\ UNCHANGED co
Escaped(s) == IF s.exc = "none" THEN s ELSE Answer(Throw(s, "none"), Exception)
Tries(method, s) == Does(method, Escaped(s))

Rearrange ==
    \/ \E n \in (-lua_gettop(st) - 1)..(Cap - st.base) :
           st.base + n <= st.citop /\ Calls(<<"setTop", n>>, setTop(st, n))
    \/ \E i \in Positions :
        \/ Calls(<<"remove", i>>, remove(st, i))
        \/ st.top <= Cap /\ Calls(<<"insert", i>>, insert(st, i))
        \/ Calls(<<"replace", i>>, replace(st, i))
    \/ Has(1) /\ Type(At(st, -1)) = "table" /\ Calls(<<"replace", Globals>>, replace(st, Globals))
    \/ Fits(st, 1) /\ \E i \in Positions \cup {Globals, Registry} : Calls(<<"pushValue", i>>, pushValue(st, i))
Xmove ==
    \E n \in 1..Cap : /\ n <= lua_gettop(st) /\ co.top + n <= Cap
                      /\ st' = Answer(lua_xmove(st, co, n).from, Null)
                      /\ co' = lua_xmove(st, co, n).to
                      /\ did' = <<"xmove", n>>
PushValues ==
    \/ Fits(st, 1) /\ (Calls(<<"pushInteger">>, pushInteger(st, 1)) \/ Calls(<<"pushBytes">>, pushBytes(st, <<"a">>)))
    \/ \E o \in JavaValues : Fits(st, 4) /\ Pushable(Spare(st), <<o>>) /\ Tries(<<"pushObjectValue", o>>, Answer(pushObjectValue(st, o), Null))
Auxiliary ==
    \/ Fits(st, 2) /\ (\/ Calls(<<"Lwhere">>, Lwhere(st))
                       \/ Calls(<<"Ltyperror">>, Ltyperror(st))
                       \/ Calls(<<"LargError">>, LargError(st))
                       \/ \E a \in Names : \/ Calls(<<"LgetMetatable", a>>, LgetMetatable(st, a))
                                           \/ Calls(<<"Lgsub", a>>, Lgsub(st, <<a, "x", a>>, a, <<"y", "z">>)))
    \/ Has(1) /\ Calls(<<"error">>, error(st))
    \/ \E i \in Positions : \/ Calls(<<"LcheckString", i>>, LcheckString(st, i))
                            \/ Calls(<<"LoptString", i>>, LoptString(st, i, Name("a")))
Convert ==
    \E i \in Positions : \/ Calls(<<"toString", i>>, toString(st, i))
                         \/ Calls(<<"toByteArray", i>>, toByteArray(st, i))
                         \/ Calls(<<"objlen", i>>, objlen(st, i))
GetAccess ==
    \E i \in TablesAt \cup {Globals} :
        \/ Has(1) /\ Calls(<<"getTable", i>>, getTable(st, i))
        \/ Has(1) /\ Calls(<<"rawGet", i>>, rawGet(st, i))
        \/ Has(1) /\ Fits(st, 1) /\ Calls(<<"next", i>>, next(st, i))
        \/ Fits(st, 1) /\ Calls(<<"getMetaTable", i>>, getMetaTable(st, i))
        \/ Fits(st, 1) /\ Calls(<<"rawGetI", i>>, rawGetI(st, i, 1))
        \/ \E a \in Names : /\ Fits(st, 3)
                            /\ \/ Calls(<<"getField", i, a>>, getField(st, i, a))
                               \/ Calls(<<"LgetMetaField", i, a>>, LgetMetaField(st, i, a))
                               \/ Calls(<<"LcallMeta", i, a>>, LcallMeta(st, i, a))
SetAccess ==
    \E i \in TablesAt \cup {Globals} :
        \/ Has(2) /\ Calls(<<"setTable", i>>, setTable(st, i))
        \/ Has(2) /\ Calls(<<"rawSet", i>>, rawSet(st, i))
        \/ Has(1) /\ Calls(<<"rawSetI", i>>, rawSetI(st, i, 1))
        \/ Has(1) /\ \E a \in Names : Calls(<<"setField", i, a>>, setField(st, i, a))
        \/ Has(1) /\ Type(At(st, -1)) \in {"nil", "table"} /\ Calls(<<"setMetaTable", i>>, setMetaTable(st, i))
Concat ==
    \E n \in 0..lua_gettop(st) : /\ n = 0 => Fits(st, 1)
                                 /\ Calls(<<"concat", n>>, concat(st, n))
MetaTables ==
    /\ Fits(st, 4) /\ CanCreate(st, 1)
    /\ \E a \in Names : \/ Calls(<<"LnewMetatable", a>>, LnewMetatable(st, a))
                        \/ Calls(<<"LfindTable", a>>, LfindTable(st, Globals, <<a>>))
Call ==
    \E nargs \in 0..(lua_gettop(st) - 1), nresults \in -1..2 :
        /\ nresults = MultRet \/ st.top - (nargs + 1) + nresults <= st.citop
        /\ \/ Calls(<<"call", nargs, nresults>>, call(st, nargs, nresults))
           \/ \E e \in {0, 1} : Calls(<<"pcall", nargs, nresults, e>>, pcall(st, nargs, nresults, e))
Fates == {"read", "not opened", "not read"}
Load ==
    /\ Fits(st, 2)
    /\ \E c \in Scripts : \/ Calls(<<"LloadString", c>>, LloadString(st, c))
                          \/ Calls(<<"LloadBuffer", c>>, LloadBuffer(st, c))
                          \/ \E f \in Fates : Calls(<<"LloadFile", c, f>>, LloadFile(st, c, f))

Held == HeldBy(st.obj)
ArgLists == UNION {[1..n -> JavaValues] : n \in 0..MaxArgs}
Facade ==
    LET room == Spare(st)
    IN  /\ Fits(st, 4 + MaxArgs)
        /\ \/ 1 \in room /\ Does(<<"createTable">>, createTable(st))
           \/ \E t \in Held, k, o \in JavaValues :
                  Pushable(room, <<k, o>>) /\ Tries(<<"setTableField", t, k, o>>, setTableField(st, t, k, o))
           \/ \E a \in Names :
               \/ Does(<<"getGlobal", a>>, getGlobal_(st, a))
               \/ \E o \in JavaValues :
                      /\ Pushable(room, <<o>>)
                      /\ \/ Tries(<<"registerGlobal", a, o>>, registerGlobal(st, a, o))
                         \/ Tries(<<"getGlobalTableField", a, o>>, getGlobalTableField(st, a, o))
               \/ \E t \in Held : Does(<<"getFieldOf", t, a>>, getField_(st, t, Name(a)))
               \/ \E n \in 0..2, args \in ArgLists :
                      Pushable(room, args) /\ Tries(<<"callFunctionEx", a, n, args>>, callFunctionEx(st, a, n, args))
DoScript ==
    \E c \in Scripts : /\ Fits(st, 2)
                       /\ \/ Does(<<"doString", c>>, doString(st, c))
                          \/ \E f \in Fates : Does(<<"doFile", c, f>>, doFile(st, c, f))

Init ==
    /\ \E s \in Starts : st = s
    /\ co = NewStack(<<>>, Nil)
    /\ did = <<"nothing">> /\ steps = 0
Next ==
    /\ st.err = NoError /\ steps < MaxSteps
    /\ steps' = steps + 1
    /\ \/ Rearrange \/ Xmove \/ PushValues \/ Convert \/ Auxiliary \/ GetAccess \/ SetAccess \/ Concat \/ MetaTables
       \/ Call \/ Load \/ Facade \/ DoScript
Spec == Init /\ [][Next]_vars

----------------------------------------------------------------------------
(* Properties *)

\* The elements before and after a step, and what an index means before it.
was == Elems(st)
now == Elems(st')
Pos(i) == IF i > 0 THEN i ELSE Len(was) + i + 1
Val(i) == IF IsPseudo(i) THEN At(st, i) ELSE was[Pos(i)]
Below(n) == SubSeq(was, 1, Len(was) - n)
Adjusted(vs, n) == IF n = MultRet THEN vs ELSE [i \in 1..n |-> IF i <= Len(vs) THEN vs[i] ELSE Nil]
Step(native) == did'[1] = native /\ st'.err = NoError
Arg(n) == did'[n + 1]

\* The array of slots, with what is left above its top, behaves as the sequence
\* of values that the callers of the API count on (lapi.c).
MovesSlots ==
    /\ Step("setTop") => now = IF Arg(1) >= 0 THEN Adjusted(was, Arg(1)) ELSE Below(-Arg(1) - 1)
    /\ Step("remove") => now = RemoveAt(was, Pos(Arg(1)))
    /\ Step("insert") => now = InsertAt(Below(1), Pos(Arg(1)), Last(was))
    /\ Step("replace") => now = IF Arg(1) = Globals \/ Pos(Arg(1)) = Len(was) THEN Below(1) ELSE ReplaceAt(Below(1), Pos(Arg(1)), Last(was))
    /\ Step("pushValue") => now = Append(was, Val(Arg(1)))
    /\ Step("xmove") => now = Below(Arg(1)) /\ Elems(co') = Elems(co) \o SubSeq(was, Len(was) - Arg(1) + 1, Len(was))
    /\ Step("rawGet") => now = Append(Below(1), RawGet(st, Val(Arg(1))[2], Last(was)))
    /\ did'[1] \in {"setTable", "rawSet"} /\ st'.err = NoError => now = Below(2)
    /\ did'[1] \in {"setField", "rawSetI", "setMetaTable"} /\ st'.err = NoError => now = Below(1)
    /\ Step("next") => (now = Below(1) \/ (SubSeq(now, 1, Len(was) - 1) = Below(1) /\ RawGet(st, Val(Arg(1))[2], now[Len(was)]) = Last(now)))
    /\ Step("concat") =>
           LET operands == SubSeq(was, Len(was) - Arg(1) + 1, Len(was))
           IN  /\ Len(now) = Len(was) - Arg(1) + 1 /\ SubSeq(now, 1, Len(now) - 1) = Below(Arg(1))
               /\ Arg(1) # 1 /\ (\A i \in DOMAIN operands : HasText(operands[i])) =>
                      Last(now) = Str(FlattenSeq([i \in DOMAIN operands |-> TextOf(operands[i])]))
    /\ Step("pushInteger") \/ Step("pushBytes") \/ Step("Lwhere") \/ Step("LgetMetatable") \/ Step("Lgsub") => Len(now) = Len(was) + 1 /\ IsPrefix(was, now)
    /\ did'[1] \in {"LcheckString", "LoptString", "toString", "toByteArray", "objlen"} /\ st'.err = NoError =>
           \A i \in 1..Len(was) : now[i] # was[i] => i = Pos(Arg(1)) /\ now[i] = Str(NumText(was[i]))
    /\ Step("LcallMeta") => IsPrefix(was, now) /\ (Len(now) = Len(was) \/ Last(now) = (Adjusted(Outcome(st, TagMethod(st, Val(Arg(1)), Arg(2)), <<Val(Arg(1))>>).values, 1))[1])
    /\ did'[1] \in {"LloadString", "LloadBuffer", "LloadFile"} => Len(now) = Len(was) + 1 /\ IsPrefix(was, now)
    /\ did'[1] \in {"call", "pcall"} /\ st'.err = NoError =>
           LET n == Arg(1)
               out == Outcome(st, was[Len(was) - n], SubSeq(was, Len(was) - n + 1, Len(was)))
           IN  IF out.ok THEN now = Below(n + 1) \o Adjusted(out.values, Arg(2))
               ELSE Len(now) = Len(was) - n /\ IsPrefix(Below(n + 1), now)
SlotsAreSequence == [][MovesSlots]_vars

\* What is left of a call whose push was refused (Lua.java:179, 234, 273): the
\* table, the table and the key, or the function and the arguments before it.
Left(method) ==
    CASE method[1] = "setTableField" /\ Type(method[2]) = "table" -> FirstRefused(<<method[3], method[4]>>)
      [] method[1] = "getGlobalTableField" /\ isTable(getGlobal(st, method[2]), -1).ret = 1 -> FirstRefused(<<method[3]>>)
      [] method[1] = "callFunctionEx" -> FirstRefused(method[4])
      [] OTHER -> 0
\* The methods of Lua and LuaObject leave the stack as they found it, however
\* they end, whatever is on it, but for what a refused push leaves behind: the
\* elements pushed before it, and no others.  doString and doFile add the results
\* of the chunk.
KeepsStack ==
    /\ did'[1] \in {"getGlobal", "registerGlobal", "getGlobalTableField", "createTable", "getFieldOf", "setTableField", "callFunctionEx"}
           /\ st'.err = NoError => IsPrefix(was, now) /\ Len(now) = Len(was) + Left(did')
    /\ did'[1] \in {"doString", "doFile"} => IsPrefix(was, now) /\ (st'.obj = Exception => now = was)
FacadeKeepsStack == [][KeepsStack]_vars

\* Seen from the program the facade reads and writes globals, fields and
\* functions, with no stack in between (Lua.java counts operands from the top):
\* setTableField is the assignment of the field and touches no other,
\* callFunctionEx gives all results in order, and a call that is refused an
\* operand throws and changes no table.  Lgsub replaces each occurrence.
Pushed(values) == LET p == PushAll(st, values) IN [i \in 1..Len(values) |-> p.mem[st.top + i - 1]]
Untouched == \A t \in TabIds \cap Reachable(st) : st'.tab[t] = st.tab[t]
FacadeMeans == [][
    st'.err = NoError =>
    /\ did'[1] = "Lgsub" /\ Arg(1) = "a" => Last(now) = Str(<<"y", "z", "x", "y", "z">>)
    /\ did'[1] = "getGlobal" => st'.obj = LuaObject(Index(st, st.globals, Name(Arg(1))).values[1]) /\ st'.tab = st.tab
    /\ did'[1] = "registerGlobal" =>
           IF Refuses(Arg(2)) THEN st'.obj = Exception /\ Untouched
           ELSE Arg(2)[1] \in {"null", "Boolean", "Number", "String", "Object"} =>
                    toJavaObject(lua_getfield(st', Globals, Arg(1)), -1).ret = Arg(2)
    /\ did'[1] = "setTableField" =>
           LET operands == Pushed(<<Arg(2), Arg(3)>>)
               target == SetTarget(st, Arg(1), operands[1])
           IN  IF Type(Arg(1)) # "table" \/ Refuses(Arg(2)) \/ Refuses(Arg(3)) THEN st'.obj = Exception /\ Untouched
               ELSE \A t \in TabIds \cap Reachable(st), k \in KeySet :
                        st'.tab[t][k] = IF target = Tab(t) /\ k = operands[1] THEN operands[2] ELSE st.tab[t][k]
    /\ did'[1] = "callFunctionEx" =>
           LET f == Index(st, st.globals, Name(Arg(1))).values[1]
               out == Outcome(st, f, Pushed(Arg(3)))
           IN  IF FirstRefused(Arg(3)) # 0 \/ ~out.ok THEN st'.obj = Exception /\ Untouched
               ELSE st'.obj = <<"List", Adjusted(out.values, Arg(2))>>
    ]_vars

\* The natives that only look at an element or an argument leave the stack as
\* it is, whatever they find.
Unmoved(seen) == seen.err = NoError => Elems(seen) = Elems(st) /\ seen.tab = st.tab
LooksOnly ==
    st.err = NoError /\ steps < MaxSteps /\ Fits(st, 3) =>
    \A i \in Positions :
        /\ Unmoved(isObject(st, i)) /\ Unmoved(isJavaFunction(st, i)) /\ Unmoved(getObjectFromUserdata(st, i))
        /\ Unmoved(pop(strlen(pushValue(st, i), -1), 1)) /\ Unmoved(pop(rawGetI(st, Globals, 1), 1))
        /\ Unmoved(equal(st, i, 1)) /\ Unmoved(rawequal(st, i, 1)) /\ Unmoved(isNoneOrNil(st, i)) /\ Unmoved(isNumber(st, i))
        /\ Unmoved(type(st, i)) /\ Unmoved(isNil(st, i)) /\ Unmoved(isBoolean(st, i)) /\ Unmoved(isFunction(st, i))
        /\ Unmoved(isCFunction(st, i)) /\ Unmoved(getTop(st)) /\ Unmoved(checkStack(st, 2))
        /\ Unmoved(LcheckNumber(st, i)) /\ Unmoved(LoptNumber(st, i, 1)) /\ Unmoved(LcheckType(st, i, "table"))
        /\ Unmoved(LcheckAny(st, i)) /\ Unmoved(LcheckStack(st, 2))

\* False: a table with elements, or a userdata, is asked for its bytes (toByteArray).
NoCrash == st.err # <<"error", <<"crash">>>>

\* A native that returns has released every string it pinned, but for doString.
ReleasesStrings ==
    st'.err = NoError => st'.pins = st.pins + (IF did'[1] = "doString" THEN 1 ELSE 0)
StringsReleased == [][ReleasesStrings]_vars
====
