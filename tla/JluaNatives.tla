---- MODULE JluaNatives ----
(***************************************************************************)
(* The C functions Lua calls to reach Java (jlua.c): the metamethods of     *)
(* Java objects and the functions of the table jlua, with the methods of    *)
(* JLuaAPI they hand their arguments to.  The stack is the frame of the C   *)
(* function; its results are the topmost ret values.                       *)
(*                                                                         *)
(* The Java world is small: an object of class C with a field, the class    *)
(* itself and its member class D, an array, a package, a JavaFunction.      *)
(* Throwing sets exc.                                                      *)
(***************************************************************************)
EXTENDS LuaFacade

CONSTANT
    Methods     \* [class, name, static, params, does], of class C and of Class

Fail(s) == lua_error(Push(s, Message))

----------------------------------------------------------------------------
(* JLuaAPI: conversions *)

Unfit == <<"unfit">>
ObjectValue(o) == CASE o = "array" -> <<"array">> [] o = "function" -> <<"JavaFunction">> [] OTHER -> <<"Object", o>>
ClassObjects == {"class C", "class D"}
ClassOf(o) == CASE o = "o" -> "C" [] o \in ClassObjects -> "Class" [] OTHER -> o
\* Double.intValue stops at the ends of int.
intValue(n) == CASE n < -(JintRange \div 2) -> -(JintRange \div 2) [] n >= JintRange \div 2 -> JintRange \div 2 - 1 [] OTHER -> n
convertLuaNumber(v, class) ==
    CASE class = "int" -> <<"Number", intValue(v[2])>>
      [] class \in {"double", "Number", "Object"} -> <<"Number">> \o Tail(v)
      [] OTHER -> Unfit

\* Mutant: the argument below the one asked for.
CompareTypesShifted(s, class, i) == toJavaObject(s, i - 1).ret
\* What the value at i becomes for a parameter of the class, or Unfit.
compareTypes(s, class, i) ==
    LET v == At(s, i)
        text == NewStringUTF(v[2])
        for(types, o) == IF class \in types THEN o ELSE Unfit
    IN  CASE Type(v) = "boolean" -> for({"boolean", "Boolean", "Object"}, <<"Boolean", v[2]>>)
          [] Type(v) = "string" /\ class = "byte[]" -> <<"bytes", v[2]>>
          [] Type(v) = "string" /\ class = "char" /\ Len(text) = 1 -> <<"Character", text>>
          [] Type(v) = "string" /\ class # "byte[]" /\ ~(class = "char" /\ Len(text) = 1) -> for({"String", "Object"}, <<"String", text>>)
          [] Type(v) = "table" /\ class = "interface" -> <<"proxy", v>>
          [] Type(v) \in {"function", "table"} /\ ~(Type(v) = "table" /\ class = "interface") -> for({"LuaObject", "Object"}, LuaObject(v))
          [] Type(v) = "number" -> convertLuaNumber(v, class)
          [] Type(v) = "userdata" /\ isJavaObject(s, i).ret = 1 ->
                for({"Object", ClassOf(s.java[v[2]])}, ObjectValue(s.java[v[2]]))
          [] Type(v) = "userdata" /\ isJavaObject(s, i).ret = 0 -> for({"LuaObject", "Object"}, LuaObject(v))
          [] Type(v) = "nil" -> Null
          [] OTHER -> Unfit

Primitive == {"boolean", "char", "double", "int"}
Converted(s, m) == [j \in 1..Len(m.params) |-> compareTypes(s, m.params[j], j + 1)]
\* The methods of the name that take the arguments; getMethods lists them in an
\* order Java leaves open, and the first of them is called.
Listed(s, class, name) ==
    {m \in Methods : /\ m.class = class /\ m.name = name
                     /\ Len(m.params) = lua_gettop(s) - 1 /\ Unfit \notin ToSet(Converted(s, m))}
\* On a class first the methods of the class itself, then those of Class.
Fitting(s, o, name) ==
    IF o = "class C" /\ Listed(s, "C", name) # {} THEN Listed(s, "C", name) ELSE Listed(s, ClassOf(o), name)

pushJavaResult(s, o) == Return(pushObjectValue(s, o), 1)

\* objectIndex of JLuaAPI: calls the method m of the object with what is above it.
JavaCall(s, o, m) ==
    LET args == Converted(s, m)
        refused == \/ ~m.static /\ m.class # ClassOf(o)
                   \/ \E j \in 1..Len(args) : args[j] = Null /\ m.params[j] \in Primitive
    IN  IF refused THEN Throw(s, "LuaException")     \* by invoke
        ELSE CASE m.does = "throw" -> Throw(s, "thrown")
               [] m.does = "void" -> Return(s, 0)
               [] OTHER -> pushJavaResult(s, IF args = <<>> THEN Null ELSE Head(args))
JavaObjectIndex(s, o, name, m) ==
    CASE name = "new" /\ o = "class C" ->
            IF lua_gettop(s) = 1 THEN pushJavaResult(s, <<"Object", "o">>) ELSE Throw(s, "LuaException")
      [] ~(name = "new" /\ o = "class C") /\ Fitting(s, o, name) = {} -> Throw(s, "LuaException")
      [] OTHER -> JavaCall(s, o, m)

JavaCheckField(s, o, name) ==
    CASE o = "package" -> pushJavaResult(s, <<"Object", IF name = "C" THEN "class C" ELSE "package">>)
      [] o = "array" /\ name = "length" -> pushJavaResult(s, <<"Number", Len(s.array)>>)
      [] o \in {"o", "class C"} /\ name = "D" -> pushJavaResult(s, <<"Object", "class D">>)
      [] o = "o" /\ name = "a" -> pushJavaResult(s, s.field)
      [] OTHER -> Return(s, 0)
JavaObjectNewIndex(s, o, name) ==
    LET v == compareTypes(s, "Object", 3)
    IN  CASE o # "o" \/ name # "a" \/ v = Unfit -> Throw(s, "LuaException")
          [] OTHER -> Return([s EXCEPT !.field = v], 0)

\* Mutant: Java's index is Lua's.
ArrayIndexFromZero(s, o, index) ==
    IF o # "array" \/ Len(s.array) <= index THEN Throw(s, "LuaException")
    ELSE IF index < 0 THEN Throw(s, "ArrayIndexOutOfBoundsException")
    ELSE pushJavaResult(s, s.array[index + 1])
\* The upper bound is checked here, the lower one by Array.get.
JavaArrayIndex(s, o, index) ==
    IF o # "array" \/ Len(s.array) < index THEN Throw(s, "LuaException")
    ELSE IF index - 1 < 0 THEN Throw(s, "ArrayIndexOutOfBoundsException")
    ELSE pushJavaResult(s, s.array[index])
JavaArrayNewIndex(s, o, index) ==
    LET v == compareTypes(s, "Object", 3)
    IN  IF o # "array" \/ Len(s.array) < index \/ v = Unfit THEN Throw(s, "LuaException")
        ELSE IF index - 1 < 0 THEN Throw(s, "ArrayIndexOutOfBoundsException")
        ELSE Return([s EXCEPT !.array[index] = v], 0)

----------------------------------------------------------------------------
(* jlua.c *)

getLuaStateIndex(s) ==
    Then(lua_rawget(Push(s, Name("JLuaStateIndex")), Registry), LAMBDA got :
    IF ~lua_isnumber(got, -1) THEN Fail(got) ELSE lua_pop(got, 1))

\* The JNI environment of the thread; a thread the JVM does not know is attached,
\* but the answer is NULL that time.
getEnvFromState(s) ==
    LET tag(t, name) == lua_rawget(Push(t, Name(name)), Registry)
    IN  Then(tag(s, "__JVM"), LAMBDA jvm :
        IF ~lua_isuserdata(jvm, -1) THEN Return(lua_pop(jvm, 1), 0)
        ELSE Then(tag(lua_pop(jvm, 1), "__JVersion"), LAMBDA version :
             IF ~lua_isuserdata(version, -1) THEN Return(lua_pop(version, 1), 0)
             ELSE Return([lua_pop(version, 1) EXCEPT !.attached = TRUE], JBool(s.attached))))
getEnvFromStateCheck(s) == Then(getEnvFromState(s), LAMBDA e : IF e.ret = 0 THEN Fail(e) ELSE e)

\* One element too few or too many is left on some ways out (the last lua_pop).
setExceptionStackTrace(s) ==
    Then(lua_getfield(s, Globals, "debug"), LAMBDA debug :
    IF ~lua_istable(debug, -1) THEN lua_pop(lua_pop(debug, 1), 1)
    ELSE Then(lua_getfield(debug, -1, "traceback"), LAMBDA traceback :
         IF lua_type(traceback, -1) # "function" THEN lua_pop(lua_pop(traceback, 2), 1)
         ELSE Then(lua_call(Push(Push(traceback, Str(<<>>)), Num(2)), 2, 1), LAMBDA called :
              IF lua_isstring(called, -1) THEN lua_pop(called, 1) ELSE lua_pop(lua_pop(called, 1), 1))))
\* Mutant: the object is pushed first, and what the trace pops or leaves is on it.
HandleExceptionEarly(s) ==
    IF s.exc = "none" THEN s
    ELSE Then(getLuaStateIndex(Throw(s, "none")), LAMBDA t :
         Then(setExceptionStackTrace(pushJavaObject(t, s.exc)), lua_error))
handleException(s) ==
    IF s.exc = "none" THEN s
    ELSE Then(getLuaStateIndex(Throw(s, "none")), LAMBDA t :
         Then(setExceptionStackTrace(t), LAMBDA u : lua_error(pushJavaObject(u, s.exc))))

\* An argument check in front of the rest.
Checked(s, ok, Rest(_)) == IF s.err # NoError THEN s ELSE IF ok THEN Rest(s) ELSE Fail(s)
ObjectAt(s, i) == s.java[lua_touserdata(s, i)]
IsObject(s, i) == isJavaObject(s, i).ret = 1

\* The name that NewStringUTF makes of a C string.
Named(str) == IF Len(NewStringUTF(str[2])) = 1 THEN NewStringUTF(str[2])[1] ELSE "?"
\* A lua_Integer as the jint of a call: the low bits.
jint(n) == ((n + JintRange \div 2) % JintRange) - JintRange \div 2

objectIndexReturn(s, m) ==
    Checked(getLuaStateIndex(s), IsObject(s, 1), LAMBDA t :
    Then(getEnvFromStateCheck(t), LAMBDA u :
         handleException(JavaObjectIndex(u, ObjectAt(u, 1), Named(At(u, Globals - 1)), m))))
\* The closure that calls the method, with its name as upvalue.
MethodCall(name) == <<"function", "objectIndexReturn", name>>
objectIndex(s) ==
    Checked(getLuaStateIndex(s), lua_isstring(s, -1), LAMBDA r :
    Then(lua_tolstring(r, -1), LAMBDA key :
    Checked(key, IsObject(key, 1), LAMBDA t :
    Then(getEnvFromStateCheck(t), LAMBDA u :
    Then(handleException(JavaCheckField(u, ObjectAt(u, 1), Named(key.ret))), LAMBDA field :
         IF field.ret # 0 THEN field ELSE Return(Push(field, MethodCall(Named(key.ret))), 1))))))
objectNewIndex(s) ==
    Checked(getLuaStateIndex(s), IsObject(s, 1) /\ lua_isstring(s, 2), LAMBDA r :
    Then(lua_tolstring(r, 2), LAMBDA key :
    Then(getEnvFromStateCheck(key), LAMBDA u :
         handleException(JavaObjectNewIndex(u, ObjectAt(u, 1), Named(key.ret))))))
\* A key that is no number is the name of a method or field.
arrayIndex(s) ==
    IF lua_isstring(s, -1) /\ ~lua_isnumber(s, -1) THEN objectIndex(s)
    ELSE Checked(s, lua_isnumber(s, -1), LAMBDA r :
         Checked(getLuaStateIndex(r), IsObject(r, 1), LAMBDA t :
         Then(getEnvFromStateCheck(t), LAMBDA u :
              handleException(JavaArrayIndex(u, ObjectAt(u, 1), jint(lua_tointeger(s, -1)))))))
arrayNewIndex(s) ==
    Checked(getLuaStateIndex(s), IsObject(s, 1) /\ lua_isnumber(s, 2), LAMBDA t :
    Then(getEnvFromStateCheck(t), LAMBDA u :
         handleException(JavaArrayNewIndex(u, ObjectAt(u, 1), jint(lua_tointeger(s, 2))))))

newArray(s) ==
    Checked(s, lua_gettop(s) = 2, LAMBDA r :
    Then(getLuaStateIndex(r), LAMBDA t :
    Checked(getEnvFromStateCheck(t), lua_isstring(s, 1) /\ lua_isnumber(s, 2), LAMBDA u :
    Then(lua_tolstring(u, 1), LAMBDA name :
    handleException(
        IF Named(name.ret) # "C" \/ jint(lua_tointeger(u, 2)) < 0 THEN Throw(name, "LuaException")
        ELSE pushJavaResult([name EXCEPT !.array = [i \in 1..jint(lua_tointeger(u, 2)) |-> Null]], <<"array">>))))))
checkJavaObj(s, o) ==
    Then(getEnvFromStateCheck(s), LAMBDA t : Then(getLuaStateIndex(t), LAMBDA u :
         handleException(IF ~Permitted(o) THEN Throw(u, "LuaException") ELSE u)))
javaGetClass(s) ==
    Checked(s, lua_gettop(s) = 1, LAMBDA r :
    Checked(getEnvFromStateCheck(r), lua_isstring(r, 1), LAMBDA t :
    Then(lua_tolstring(t, 1), LAMBDA name :
    Then(handleException(IF Named(name.ret) = "C" THEN name ELSE Throw(name, "ClassNotFoundException")), LAMBDA u :
    Then(checkJavaObj(u, "class C"), LAMBDA v : Return(pushJavaObject(v, "class C"), 1))))))
createProxy(s) ==
    Checked(s, lua_gettop(s) = 2, LAMBDA r :
    Checked(getLuaStateIndex(r), lua_isstring(r, 1) /\ lua_istable(r, 2), LAMBDA t :
    Then(getEnvFromStateCheck(t), LAMBDA u :
    Then(lua_tolstring(u, 1), LAMBDA name :
    handleException(IF Named(name.ret) # "I" THEN Throw(name, "LuaException")
                    ELSE pushJavaResult(name, <<"Object", "proxy">>))))))
\* does: the values that execute leaves, or its exception.
jluaFunctionCall(s, does) ==
    Checked(s, IsObject(s, 1), LAMBDA r :
    Then(getEnvFromStateCheck(r), LAMBDA t :
    IF ObjectAt(t, 1) # "function" THEN Return(t, 0)
    ELSE IF does = "throw" THEN handleException(Throw(t, "thrown"))
    ELSE Return(Push(t, At(t, -1)), 1)))
gc(s) ==
    IF ~IsObject(s, 1) THEN Return(s, 0)
    ELSE Then(getEnvFromStateCheck(s), LAMBDA t : Return([t EXCEPT !.java[lua_touserdata(s, 1)] = "deleted"], 0))

----------------------------------------------------------------------------
(* Opening a state (jluajni.c) *)

SetEntry(s, name, v) == lua_settable(Push(Push(s, Name(name)), v), -3)
pushJNIEnv(s) ==
    LET keep(t, name) == lua_rawset(lua_insert(Push(lua_newuserdata(t, "jvm"), Name(name)), -2), Registry)
    IN  keep(keep(s, "__JVM"), "__JVersion")
JluaFunctions == <<"getClass", "createProxy", "newArray", "try", "throw">>
jlua_open(s, index) ==
    LET indexed == lua_settable(Push(Push(pushJNIEnv(s), Name("JLuaStateIndex")), Num(index)), Registry)
        made == getGlobal(setGlobal(lua_newtable(indexed), "jlua"), "jlua")
    IN  pushJNIEnv(lua_pop(FoldLeft(LAMBDA t, f : SetEntry(t, f, Fun("none")), made, JluaFunctions), 1))
\* The native calls the opener for no result.
openLibrary(s, name, functions) ==
    Then(luaL_openlib(s, name, functions), LAMBDA t : lua_settop(t, lua_gettop(s)))

----------------------------------------------------------------------------
(* The program: Lua calls a C function with what is on the stack.            *)

Enters(call_, s) == st' = s /\ did' = call_ /\ UNCHANGED co
\* jlua_open has made what Lua reaches these functions by.
Opened == RawGet(st, 1, Name("JLuaStateIndex")) # Nil
NoMethod == [class |-> "?", name |-> "?", static |-> TRUE, params |-> <<>>, does |-> "void"]
Invoke ==
    /\ Opened /\ CanCreate(st, 2) /\ CanBox(st, 2)
    /\ \/ Enters(<<"objectIndex">>, objectIndex(st))
       \/ Enters(<<"objectNewIndex">>, objectNewIndex(st))
       \/ Enters(<<"arrayIndex">>, arrayIndex(st))
       \/ Enters(<<"arrayNewIndex">>, arrayNewIndex(st))
       \/ Enters(<<"newArray">>, newArray(st))
       \/ Enters(<<"getClass">>, javaGetClass(st))
       \/ Enters(<<"createProxy">>, createProxy(st))
       \/ Enters(<<"gc">>, gc(st))
       \/ \E does \in {"id", "throw"} : Enters(<<"execute", does>>, jluaFunctionCall(st, does))
MethodNames == {m.name : m \in Methods} \cup {"new"}
InvokeMethod ==
    /\ Opened /\ CanCreate(st, 2) /\ CanBox(st, 2)
    /\ \E name \in MethodNames :
       LET s == [st EXCEPT !.upvals = <<Name(name)>>]
           fits == IF IsObject(s, 1) THEN Fitting(s, ObjectAt(s, 1), name) ELSE {}
       IN  \E m \in (IF fits = {} THEN {NoMethod} ELSE fits) :
               Enters(<<"method", name, m>>, objectIndexReturn(s, m))
OpenState ==
    /\ CanCreate(st, 1) /\ CanBox(st, 4) /\ Fits(st, 4)
    /\ Enters(<<"jlua_open">>, jlua_open(st, 0))
OpenLibrary ==
    /\ CanCreate(st, 2) /\ Fits(st, 4)
    /\ \E a \in Names : Enters(<<"openLibrary", a>>, openLibrary(st, a, <<"f">>))

NativeNext ==
    \/ Next
    \/ /\ st.err = NoError /\ steps < MaxSteps
       /\ steps' = steps + 1
       /\ Invoke \/ InvokeMethod \/ OpenState \/ OpenLibrary
NativeSpec == Init /\ [][NativeNext]_vars

----------------------------------------------------------------------------
(* Properties *)

\* What the value v of Lua stands for in Java.
Denotes(s, v) ==
    CASE Type(v) = "boolean" -> <<"Boolean", v[2]>>
      [] Type(v) = "number" -> <<"Number", v[2]>>
      [] Type(v) = "string" -> <<"String", v[2]>>
      [] Type(v) = "nil" -> Null
      [] Type(v) = "userdata" /\ MetaOf(s, v) # 0 -> ObjectValue(s.java[v[2]])
      [] OTHER -> LuaObject(v)
Answers(s) == [i \in 1..s.ret |-> Denotes(s, s.mem[s.top - s.ret + i - 1])]
\* A call of a metamethod as Lua makes it, on an object of Java.
Receiver == IF was # <<>> /\ Type(was[1]) = "userdata" /\ MetaOf(st, was[1]) # 0 THEN st.java[was[1][2]] ELSE "none"
Good(native, n, receiver) == did'[1] = native /\ Len(was) = n /\ Receiver = receiver
IsNumber(v) == Type(v) = "number"
Garbled(v) == Type(v) = "string" /\ {Nul, FourByte} \cap ToSet(v[2]) # {}

\* The element that a number asks for: of its whole part, what an int holds.
Jints == -(JintRange \div 2)..(JintRange \div 2 - 1)
Asked(v) == CHOOSE j \in Jints : (v[2] - j) % JintRange = 0
\* The C string of a name ends at the first byte 0.
Spells(v, name) == Type(v) = "string" /\ NewStringUTF(v[2]) = <<name>>
Unchanged == st'.field = st.field /\ st'.array = st.array

\* Lua reads and writes the fields and the elements of Java objects as Java
\* would: array elements count from 1, and an index outside raises an error and
\* changes nothing, as does a field that is not there; but the index is cut to
\* its whole part and to 32 bits first, a name ends at its first byte 0, and
\* what the checker refuses is an error (jlua.c, JLuaAPI).
JavaSeenFromLua == [][
    /\ Good("objectIndex", 2, "o") /\ Spells(was[2], "a") /\ st.attached =>
           IF Refuses(st.field) THEN st'.err # NoError ELSE Answers(st') = <<st.field>>
    /\ did'[1] = "objectIndex" /\ Len(was) = 2 /\ Receiver \in {"o", "class C"} /\ st.attached =>
           /\ Spells(was[2], "D") => Answers(st') = <<<<"Object", "class D">>>>
           /\ Spells(was[2], "f") => Last(now) = MethodCall("f")
    /\ Good("objectNewIndex", 3, "o") /\ st'.err = NoError =>
           /\ Spells(was[2], "a")
           /\ st'.field = Denotes(st, was[3]) \/ Garbled(was[3])
    /\ Good("arrayIndex", 2, "array") /\ IsNumber(was[2]) /\ st.attached =>
           LET i == Asked(was[2])
           IN  IF i \in 1..Len(st.array) /\ ~Refuses(st.array[i]) THEN Answers(st') = <<st.array[i]>> ELSE st'.err # NoError
    /\ Good("arrayNewIndex", 3, "array") /\ IsNumber(was[2]) /\ st.attached =>
           LET i == Asked(was[2])
           IN  IF i \in 1..Len(st.array)
               THEN st'.array = [st.array EXCEPT ![i] = Denotes(st, was[3])] \/ Garbled(was[3])
               ELSE st'.err # NoError /\ Unchanged
    /\ did'[1] \in {"objectIndex", "objectNewIndex", "arrayIndex", "arrayNewIndex", "method"} =>
           IF st'.err # NoError THEN Unchanged ELSE st'.ret <= lua_gettop(st')
    ]_vars

\* What Java throws arrives in Lua as the value of the error, whatever the
\* state of the debug library, unless its traceback fails itself (jlua.c:102).
ThrownIsRaised == [][
    LET thrown == \/ did' = <<"execute", "throw">> /\ Receiver = "function"
                  \/ did'[1] = "method" /\ Receiver = "o" /\ did'[3].does = "throw"
        traceback == RawGet(st, 2, Name("debug"))
        fails == Type(traceback) = "table" /\ RawGet(st, traceback[2], Name("traceback")) = Fun("fail")
    IN  thrown /\ st.attached =>
            IF fails THEN st'.err # NoError
            ELSE Type(st'.err[2]) = "userdata" /\ st'.java[st'.err[2][2]] \in {"thrown", "LuaException"}
    ]_vars

\* A value that Lua passes through a Java method comes back as the same value,
\* or as another userdata of the same object, except for strings with a byte 0 or
\* a character that JNI writes differently; an int parameter gets the int that is
\* nearest to the number's whole part.  The methods of Class are called on a class.
ThroughJava == [][
    did'[1] = "method" /\ did'[3].does = "id" /\ Receiver \in {"o", "class C"} /\ st'.err = NoError =>
        /\ did'[3].params = <<"Object">> => (Answers(st') = <<Denotes(st, was[2])>> <=> ~Garbled(was[2]))
        /\ did'[3].params = <<"int">> =>
               LET given == Answers(st')[1][2]
               IN  given \in Jints /\ \A j \in Jints : (j <= was[2][2] => j <= given) /\ (j >= was[2][2] => j >= given)
        /\ Receiver = "class C" => did'[3].static \/ did'[3].class = "Class"
    ]_vars
====
