---- MODULE LuaAux ----
(***************************************************************************)
(* The auxiliary library (lauxlib.c) on top of the API: what each function *)
(* leaves on the stack, with its early returns.                            *)
(***************************************************************************)
EXTENDS LuaApi

lua_isnil(s, i) == lua_type(s, i) = "nil"
lua_isnoneornil(s, i) == lua_type(s, i) \in {"nil", "none"}
lua_istable(s, i) == lua_type(s, i) = "table"
lua_newtable(s) == lua_createtable(s)

\* The errors of the library push a message and raise it (luaL_error); what is
\* below it on the stack is of no interest any more.
luaL_error(s) == lua_error(Push(s, Message))
luaL_argerror(s) == luaL_error(s)
luaL_typerror(s) == luaL_argerror(Push(s, Message))
\* No line is known when the caller is not a Lua function.
luaL_where(s) == Push(s, Str(<<>>))

luaL_checkstack(s, n) == IF lua_checkstack(s, n).ret = 0 THEN luaL_error(s) ELSE lua_checkstack(s, n)
luaL_checktype(s, i, t) == IF lua_type(s, i) # t THEN luaL_typerror(s) ELSE s
luaL_checkany(s, i) == IF lua_type(s, i) = "none" THEN luaL_argerror(s) ELSE s
luaL_checklstring(s, i) == IF lua_isstring(s, i) THEN lua_tolstring(s, i) ELSE luaL_typerror(s)
luaL_optlstring(s, i, def) == IF lua_isnoneornil(s, i) THEN Return(s, def) ELSE luaL_checklstring(s, i)
luaL_checknumber(s, i) ==
    IF lua_tonumber(s, i) = Num(0) /\ ~lua_isnumber(s, i) THEN luaL_typerror(s) ELSE Return(s, lua_tonumber(s, i))
luaL_optnumber(s, i, def) == IF lua_isnoneornil(s, i) THEN Return(s, def) ELSE luaL_checknumber(s, i)

luaL_newmetatable(s, name) ==
    Then(lua_getfield(s, Registry, name), LAMBDA got :
    IF ~lua_isnil(got, -1) THEN Return(got, 0)
    ELSE Return(lua_setfield(lua_pushvalue(lua_newtable(lua_pop(got, 1)), -1), Registry, name), 1))

luaL_getmetafield(s, obj, event) ==
    LET answer(got) == IF lua_isnil(got, -1) THEN Return(lua_pop(got, 2), 0)
                       ELSE Return(lua_remove(got, -2), 1)
    IN  Then(lua_getmetatable(s, obj), LAMBDA mt :
        IF mt.ret = 0 THEN mt ELSE answer(lua_rawget(Push(mt, Name(event)), -2)))

\* Mutant: the index is not made absolute before the stack grows.
CallmetaRelative(s, obj, event) ==
    LET got == luaL_getmetafield(s, obj, event)
    IN  IF got.ret = 0 THEN got
        ELSE Return(lua_call(lua_pushvalue(got, obj), 1, 1), 1)
luaL_callmeta(s, obj, event) ==
    LET o == abs_index(s, obj)
    IN  Then(luaL_getmetafield(s, o, event), LAMBDA got :
        IF got.ret = 0 THEN got ELSE Return(lua_call(lua_pushvalue(got, o), 1, 1), 1))

\* One part of the name in luaL_findtable: the table at the top gives way to its
\* field, made if missing; a field that is no table ends the search.
FindPart(s, name) ==
    LET filled(made) == lua_settable(lua_pushvalue(Push(made, Name(name)), -2), -4)
        part(got) == CASE lua_isnil(got, -1) -> lua_remove(filled(lua_newtable(lua_pop(got, 1))), -2)
                       [] lua_istable(got, -1) -> lua_remove(got, -2)
                       [] OTHER -> Return(lua_pop(got, 2), name)
    IN  IF s.ret # "found" THEN s ELSE part(lua_rawget(Push(s, Name(name)), -2))
luaL_findtable(s, i, names) ==
    LET found[n \in 0..Len(names)] ==
            IF n = 0 THEN Return(lua_pushvalue(s, i), "found") ELSE FindPart(found[n - 1], names[n])
    IN  found[Len(names)]

\* luaL_register of a library whose functions are all Fun("none"): into its table
\* in package.loaded, or else the global one of its name, which may not be
\* something else (nup = 0).
luaL_openlib(s, libname, functions) ==
    LET known(found) == IF found.ret # "found" THEN luaL_error(found)
                        ELSE lua_setfield(lua_pushvalue(found, -1), -3, libname)
        lib(got) == IF lua_istable(got, -1) THEN got
                    ELSE known(luaL_findtable(lua_pop(got, 1), Globals, <<libname>>))
    IN  Then(lib(lua_getfield(luaL_findtable(s, Registry, <<"_LOADED">>), -1, libname)), LAMBDA t :
        FoldLeft(LAMBDA u, f : lua_setfield(Push(u, Fun("none")), -2, f), lua_insert(lua_remove(t, -2), -1), functions))

\* r takes the place of every occurrence of p, which is one name here.
luaL_gsub(s, text, p, r) ==
    Push(s, Str(FlattenSeq([i \in 1..Len(text) |-> IF text[i] = p THEN r ELSE <<text[i]>>])))

\* lua_load: the compiled chunk, or a message, is the one value pushed.
Chunks == {"id", "none", "fail"}
lua_load(s, chunk) ==
    IF chunk \in Chunks THEN Return(Push(s, Fun(chunk)), 0) ELSE Return(Push(s, Message), 3)
luaL_loadbuffer(s, chunk) == lua_load(s, chunk)
luaL_loadstring(s, chunk) == luaL_loadbuffer(s, chunk)

\* The file's name stays below what lua_load pushes until the end; how far
\* reading gets is not up to Lua.
errfile(s, fnameindex) == Return(lua_remove(Push(s, Message), fnameindex), 6)
luaL_loadfile(s, chunk, fate) ==
    LET fnameindex == lua_gettop(s) + 1
        named == Push(s, Name("@file"))
        loaded == lua_load(named, chunk)
    IN  CASE fate = "not opened" -> errfile(named, fnameindex)
          [] fate = "not read" -> errfile(lua_settop(loaded, fnameindex), fnameindex)
          [] OTHER -> lua_remove(loaded, fnameindex)

\* luaL_dostring, luaL_dofile: 0 if neither loading nor running fails.
Status(ran) == Return(ran, IF ran.ret = 0 THEN 0 ELSE 1)
Run(loaded) == Status(IF loaded.ret # 0 THEN loaded ELSE lua_pcall(loaded, 0, MultRet, 0))
luaL_dostring(s, chunk) == Run(luaL_loadstring(s, chunk))
luaL_dofile(s, chunk, fate) == Run(luaL_loadfile(s, chunk, fate))
====
