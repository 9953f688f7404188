---- MODULE JniNatives ----
(***************************************************************************)
(* The native methods of LuaState (jluajni.c).  Each gets the lua_State out *)
(* of its CPtr, calls one function of the API or the auxiliary library, and *)
(* hands its result to Java in ret.                                         *)
(*                                                                         *)
(* A Java string is pinned for the time of the call (pins); an error that   *)
(* leaves the native skips the release.                                     *)
(***************************************************************************)
EXTENDS LuaAux

\* Java's character 0 is two bytes in the encoding JNI uses.  NewStringUTF stops
\* at a byte 0, and makes other characters of bytes that are not in the encoding
\* (a character of four bytes, say, or one of Latin-1).
Nul == "NUL"
TwoByteNul == "C0 80"
FourByte == "F0"
Misread == "misread"
Encoded(text) == [i \in DOMAIN text |-> IF text[i] = Nul THEN TwoByteNul ELSE text[i]]
NewStringUTF(bytes) ==
    LET end == SelectInSeq(bytes, LAMBDA c : c = Nul)
        read == IF end = 0 THEN bytes ELSE SubSeq(bytes, 1, end - 1)
    IN  [i \in DOMAIN read |-> CASE read[i] = TwoByteNul -> Nul [] read[i] = FourByte -> Misread [] OTHER -> read[i]]

GetStringUTFChars(s) == [s EXCEPT !.pins = @ + 1]
ReleaseStringUTFChars(s) == IF s.err # NoError THEN s ELSE [s EXCEPT !.pins = @ - 1]
JBool(b) == IF b THEN 1 ELSE 0
Released(s) == ReleaseStringUTFChars(s)

----------------------------------------------------------------------------
(* Java objects: a userdata whose metatable has __IsJavaObject *)

\* Mutant: the metatable stays on the stack if the object is not one of Java's.
isJavaObjectUnpopped(s, i) ==
    LET mt == lua_getmetatable(s, i)
        got == lua_rawget(Push(mt, Name("__IsJavaObject")), -2)
    IN  IF ~lua_isuserdata(s, i) THEN Return(s, 0)
        ELSE IF mt.ret = 0 THEN mt
        ELSE IF lua_isnil(got, -1) THEN Return(lua_pop(got, 1), 0)
        ELSE Return(lua_pop(got, 2), 1)
\* isJavaObject pops what it pushed on all three ways out.
isJavaObject(s, i) ==
    LET answer(got) == Return(lua_pop(got, 2), JBool(~lua_isnil(got, -1)))
    IN  IF ~lua_isuserdata(s, i) THEN Return(s, 0)
        ELSE Then(lua_getmetatable(s, i), LAMBDA mt :
             IF mt.ret = 0 THEN mt ELSE answer(lua_rawget(Push(mt, Name("__IsJavaObject")), -2)))
getObjectFromUserdata(s, i) ==
    Then(isJavaObject(s, i), LAMBDA is :
    IF is.ret = 0 THEN Return(is, "exception") ELSE Return(is, is.java[lua_touserdata(is, i)]))
isObject(s, i) == isJavaObject(s, i)

\* One entry of a metatable at the top.
Entry(s, event, v) == lua_rawset(Push(Push(s, Name(event)), v), -3)
Meta(s, event) == Entry(s, event, Fun("none"))
\* A userdata for object and its metatable, which gets its metamethods.
Boxed(s, object) == lua_newtable(lua_newuserdata(s, object))
Marked(s) == lua_setmetatable(Entry(Meta(s, "__gc"), "__IsJavaObject", Bool(TRUE)), -2)
pushJavaObject(s, object) == Marked(Meta(Meta(Boxed(s, object), "__index"), "__newindex"))
pushJavaArray(s, array) == pushJavaObject(s, array)
pushJavaFunction(s, object) == Marked(Meta(Boxed(s, object), "__call"))
isJavaFunction(s, i) ==
    Then(isJavaObject(s, i), LAMBDA is :
    IF is.ret = 0 THEN is ELSE Return(is, JBool(is.java[lua_touserdata(is, i)] = "function")))

----------------------------------------------------------------------------
(* The stack *)

getTop(s) == Return(s, lua_gettop(s))
setTop(s, n) == lua_settop(s, n)
pushValue(s, i) == lua_pushvalue(s, i)
remove(s, i) == lua_remove(s, i)
insert(s, i) == lua_insert(s, i)
replace(s, i) == lua_replace(s, i)
checkStack(s, n) == lua_checkstack(s, n)
pop(s, n) == lua_pop(s, n)

isNumber(s, i) == Return(s, JBool(lua_isnumber(s, i)))
isString(s, i) == Return(s, JBool(lua_isstring(s, i)))
isFunction(s, i) == Return(s, JBool(lua_type(s, i) = "function"))
isCFunction(s, i) == Return(s, JBool(lua_iscfunction(s, i)))
isUserdata(s, i) == Return(s, JBool(lua_isuserdata(s, i)))
isTable(s, i) == Return(s, JBool(lua_istable(s, i)))
isBoolean(s, i) == Return(s, JBool(lua_type(s, i) = "boolean"))
isNil(s, i) == Return(s, JBool(lua_isnil(s, i)))
isNoneOrNil(s, i) == Return(s, JBool(lua_isnoneornil(s, i)))
type(s, i) == Return(s, lua_type(s, i))
equal(s, i, j) == lua_equal(s, i, j)
rawequal(s, i, j) == Return(s, JBool(lua_rawequal(s, i, j)))

toNumber(s, i) == Return(s, lua_tonumber(s, i))
toBoolean(s, i) == Return(s, JBool(lua_toboolean(s, i)))
toString(s, i) ==
    Then(lua_tolstring(s, i), LAMBDA str : IF str.ret = None THEN str ELSE Return(str, Str(NewStringUTF(str.ret[2]))))
\* For a value that is no string, the length is that of a table or a userdata, and
\* the bytes are read from NULL.
toByteArray(s, i) ==
    LET str == lua_tolstring(s, i)
        len == lua_objlen(str, i).ret
    IN  IF str.ret = None /\ len > 0 THEN Raise(s, <<"crash">>) ELSE Return(str, str.ret)
strlen(s, i) == lua_objlen(s, i)
objlen(s, i) == lua_objlen(s, i)

pushNil(s) == Push(s, Nil)
pushNumber(s, v) == Push(s, v)
pushInteger(s, n) == Push(s, Num(n))
pushString(s, text) == Released(Push(GetStringUTFChars(s), Str(Encoded(text))))
pushBytes(s, text) == Released(Push(GetStringUTFChars(s), Str(text)))
pushBoolean(s, b) == Push(s, Bool(b))

----------------------------------------------------------------------------
(* Tables *)

getTable(s, i) == lua_gettable(s, i)
\* Mutant: the name is not released.
getFieldHeld(s, i, name) == lua_getfield(GetStringUTFChars(s), i, name)
getField(s, i, name) == Released(lua_getfield(GetStringUTFChars(s), i, name))
rawGet(s, i) == lua_rawget(s, i)
rawGetI(s, i, n) == lua_rawgeti(s, i, n)
newTable(s) == lua_newtable(s)
getMetaTable(s, i) == lua_getmetatable(s, i)
setTable(s, i) == lua_settable(s, i)
setField(s, i, name) == Released(lua_setfield(GetStringUTFChars(s), i, name))
rawSet(s, i) == lua_rawset(s, i)
rawSetI(s, i, n) == lua_rawseti(s, i, n)
setMetaTable(s, i) == lua_setmetatable(s, i)
next(s, i) == lua_next(s, i)
concat(s, n) == lua_concat(s, n)
setGlobal(s, name) == Released(lua_setfield(GetStringUTFChars(s), Globals, name))
getGlobal(s, name) == Released(lua_getfield(GetStringUTFChars(s), Globals, name))

----------------------------------------------------------------------------
(* Calls and chunks *)

call(s, nargs, nresults) == lua_call(s, nargs, nresults)
pcall(s, nargs, nresults, errfunc) == lua_pcall(s, nargs, nresults, errfunc)
error(s) == lua_error(s)
LdoFile(s, chunk, fate) == Released(luaL_dofile(GetStringUTFChars(s), chunk, fate))
\* The script is never released.
LdoString(s, chunk) == luaL_dostring(GetStringUTFChars(s), chunk)
LloadFile(s, chunk, fate) == Released(luaL_loadfile(GetStringUTFChars(s), chunk, fate))
\* The bytes are pinned like the name.
LloadBuffer(s, chunk) ==
    Released(Released(luaL_loadbuffer(GetStringUTFChars(GetStringUTFChars(s)), chunk)))
LloadString(s, chunk) == Released(luaL_loadstring(GetStringUTFChars(s), chunk))

----------------------------------------------------------------------------
(* The auxiliary library *)

LgetMetaField(s, i, name) == Released(luaL_getmetafield(GetStringUTFChars(s), i, name))
LcallMeta(s, i, name) == Released(luaL_callmeta(GetStringUTFChars(s), i, name))
Ltyperror(s) == Released(luaL_typerror(GetStringUTFChars(s)))
LargError(s) == Released(luaL_argerror(GetStringUTFChars(s)))
LcheckString(s, i) == luaL_checklstring(s, i)
LoptString(s, i, def) == Released(luaL_optlstring(GetStringUTFChars(s), i, def))
LcheckNumber(s, i) == luaL_checknumber(s, i)
LoptNumber(s, i, def) == luaL_optnumber(s, i, def)
LcheckStack(s, n) == Released(luaL_checkstack(GetStringUTFChars(s), n))
LcheckType(s, i, t) == luaL_checktype(s, i, t)
LcheckAny(s, i) == luaL_checkany(s, i)
LnewMetatable(s, name) == Released(luaL_newmetatable(GetStringUTFChars(s), name))
LgetMetatable(s, name) == Released(lua_getfield(GetStringUTFChars(s), Registry, name))
Lwhere(s) == luaL_where(s)
Lgsub(s, text, p, r) ==
    Released(Released(Released(luaL_gsub(GetStringUTFChars(GetStringUTFChars(GetStringUTFChars(s))), text, p, r))))
LfindTable(s, i, names) == Released(luaL_findtable(GetStringUTFChars(s), i, names))
====
