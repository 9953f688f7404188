---- MODULE LuaApi ----
(***************************************************************************)
(* The C API of Lua (lapi.c) and its auxiliary library (lauxlib.c), as      *)
(* operators that take a state and return the state after the call.         *)
(*                                                                         *)
(* The stack is what the code has: an array of slots with base and top,     *)
(* whose slots above top keep what was in them.  A call that fails sets     *)
(* err: what follows it in the same C function does not happen.             *)
(***************************************************************************)
EXTENDS Integers, FiniteSets, SequencesExt, TLC

CONSTANTS
    Cap,        \* bound: the slots of the stack
    TabIds,     \* the tables there can be, 1 and 2 are the registry and the globals
    Boxes,      \* the userdata there can be
    Keys,       \* the keys of tables, a sequence: the order of luaH_next
    Numbers,    \* the whole numbers that a string may denote
    JintRange,  \* 2^32: how many ints Java has
    MinStack,   \* LUA_MINSTACK: the slots a C function has without asking
    MaxTagLoop  \* MAXTAGLOOP

KeySet == ToSet(Keys)

\* Values carry their type in front.
Nil == <<"nil">>
None == <<"none">>      \* luaO_nilobject: what is at an index that is not valid
Bool(b) == <<"boolean", b>>
Num(n) == <<"number", n>>
Half(n) == <<"number", n, "and a half">>    \* n without the fraction
Str(text) == <<"string", text>>
Name(a) == Str(<<a>>)
Tab(t) == <<"table", t>>
Box(u) == <<"userdata", u>>
Fun(f) == <<"function", f>>
NoError == <<"no error">>
Type(v) == v[1]

Registry == -10000
Environ == -10001
Globals == -10002
MultRet == -1

\* Init of lua_newstate and luaV_*: a stack in the running C function's frame.
NewStack(elems, above) ==
    [mem |-> [a \in 1..Cap |-> IF a - 1 \in 1..Len(elems) THEN elems[a - 1] ELSE above],
     base |-> 2, top |-> 2 + Len(elems), citop |-> 2 + MinStack]
NewState(stk) ==
    stk @@ [tab |-> [t \in TabIds |-> [k \in KeySet |-> Nil]],
            meta |-> [o \in TabIds \cup Boxes |-> 0],
            java |-> [u \in Boxes |-> "none"],
            globals |-> Tab(2), env |-> 2, upvals |-> <<>>, ret |-> 0, err |-> NoError,
            pins |-> 0, obj |-> <<"null">>, exc |-> "none", attached |-> TRUE, field |-> <<"null">>, array |-> <<>>]

Elems(s) == [i \in 1..(s.top - s.base) |-> s.mem[s.base + i - 1]]
Raise(s, v) == [s EXCEPT !.err = <<"error", v>>]
Message == Name("message")
Return(s, r) == [s EXCEPT !.ret = r]
Then(s, Op(_)) == IF s.err # NoError THEN s ELSE Op(s)

----------------------------------------------------------------------------
(* Indices (index2adr) *)

Slot(s, i) == IF i > 0 THEN s.base + i - 1 ELSE s.top + i
IsPseudo(i) == i <= Registry
At(s, i) ==
    CASE i = Registry -> Tab(1)
      [] i = Environ -> Tab(s.env)
      [] i = Globals -> s.globals
      [] i < Globals -> IF Globals - i <= Len(s.upvals) THEN s.upvals[Globals - i] ELSE None
      [] i > 0 /\ Slot(s, i) >= s.top -> None
      [] OTHER -> s.mem[Slot(s, i)]
\* api_checkvalidindex
IsValid(s, i) == IF IsPseudo(i) THEN At(s, i) # None ELSE i # 0 /\ Slot(s, i) \in s.base..(s.top - 1)
Value(v) == IF v = None THEN Nil ELSE v
abs_index(s, i) == IF i > 0 \/ IsPseudo(i) THEN i ELSE s.top - s.base + i + 1

\* setobj2s(L, L->top, v); api_incr_top(L)
Push(s, v) == [s EXCEPT !.mem[s.top] = v, !.top = @ + 1]
Shrink(s, n) == [s EXCEPT !.top = @ - n]

----------------------------------------------------------------------------
(* Basic stack manipulation *)

lua_gettop(s) == s.top - s.base
lua_settop(s, i) ==
    IF i >= 0
    THEN [s EXCEPT !.mem = [a \in DOMAIN @ |-> IF a \in s.top..(s.base + i - 1) THEN Nil ELSE @[a]],
                   !.top = s.base + i]
    ELSE [s EXCEPT !.top = @ + i + 1]
lua_pop(s, n) == lua_settop(s, -n - 1)
lua_remove(s, i) ==
    LET p == Slot(s, i)
    IN  [s EXCEPT !.mem = [a \in DOMAIN @ |-> IF a \in p..(s.top - 2) THEN @[a + 1] ELSE @[a]],
                  !.top = @ - 1]
lua_insert(s, i) ==
    LET p == Slot(s, i)
        shifted == [a \in DOMAIN s.mem |-> IF a \in (p + 1)..s.top THEN s.mem[a - 1] ELSE s.mem[a]]
    IN  [s EXCEPT !.mem = [shifted EXCEPT ![p] = shifted[s.top]]]
lua_replace(s, i) ==
    LET v == s.mem[s.top - 1]
        t == Shrink(s, 1)
    IN  CASE i = Environ -> [t EXCEPT !.env = v[2]]
          [] i = Globals -> [t EXCEPT !.globals = v]
          [] i < Globals -> [t EXCEPT !.upvals[Globals - i] = v]
          [] OTHER -> [t EXCEPT !.mem[Slot(s, i)] = v]
lua_pushvalue(s, i) == Push(s, Value(At(s, i)))
lua_checkstack(s, n) ==
    IF s.top + n - 1 > Cap THEN Return(s, 0)
    ELSE Return([s EXCEPT !.citop = IF @ < s.top + n THEN s.top + n ELSE @], 1)

\* n values move from one stack to the other, which has slots of its own.
lua_xmove(from, to, n) ==
    [from |-> Shrink(from, n),
     to |-> [to EXCEPT !.mem = [a \in DOMAIN @ |-> IF a \in to.top..(to.top + n - 1) THEN from.mem[from.top - n + a - to.top] ELSE @[a]],
                       !.top = @ + n]]

----------------------------------------------------------------------------
(* Access functions: stack -> C *)

lua_type(s, i) == Type(At(s, i))
NumText(v) == <<ToString(v[2])>> \o (IF v = Num(v[2]) THEN <<>> ELSE <<".5">>)
\* The number a value is or a string denotes (luaV_tonumber), or None.
ToNumber(v) ==
    CASE Type(v) = "number" -> v
      [] Type(v) = "string" /\ (\E n \in Numbers : v[2] = NumText(Num(n))) -> Num(CHOOSE n \in Numbers : v[2] = NumText(Num(n)))
      [] OTHER -> None
lua_isnumber(s, i) == ToNumber(At(s, i)) # None
lua_isstring(s, i) == lua_type(s, i) \in {"string", "number"}
lua_iscfunction(s, i) == lua_type(s, i) = "function"    \* all functions here are C functions
lua_isuserdata(s, i) == lua_type(s, i) = "userdata"
lua_rawequal(s, i, j) == None \notin {At(s, i), At(s, j)} /\ At(s, i) = At(s, j)
lua_tonumber(s, i) == IF lua_isnumber(s, i) THEN ToNumber(At(s, i)) ELSE Num(0)
\* lua_number2integer cuts the fraction off.
lua_tointeger(s, i) == lua_tonumber(s, i)[2]
lua_toboolean(s, i) == At(s, i) \notin {Nil, None, Bool(FALSE)}
\* A number becomes a string where it is (luaV_tostring).
lua_tolstring(s, i) ==
    CASE lua_type(s, i) = "string" -> Return(s, At(s, i))
      [] lua_type(s, i) = "number" ->
            LET v == Str(NumText(At(s, i)))
            IN  Return(IF IsPseudo(i) THEN [s EXCEPT !.upvals[Globals - i] = v] ELSE [s EXCEPT !.mem[Slot(s, i)] = v], v)
      [] OTHER -> Return(s, None)
\* A border, of the keys 1 and 2 only.
Border(f) ==
    LET has(n) == Num(n) \in DOMAIN f /\ f[Num(n)] # Nil
    IN  IF ~has(1) THEN 0 ELSE IF ~has(2) THEN 1 ELSE 2
lua_objlen(s, i) ==
    CASE lua_isstring(s, i) -> Return(lua_tolstring(s, i), Len(lua_tolstring(s, i).ret[2]))
      [] lua_type(s, i) = "table" -> Return(s, Border(s.tab[At(s, i)[2]]))
      [] lua_type(s, i) = "userdata" -> Return(s, 8)     \* sizeof(jobject)
      [] OTHER -> Return(s, 0)
lua_touserdata(s, i) == IF lua_isuserdata(s, i) THEN At(s, i)[2] ELSE 0

----------------------------------------------------------------------------
(* Push functions: C -> stack.  A new table takes an unused identifier; what *)
(* the program cannot reach any more is unused.                             *)

\* The values that the LuaObjects of an answer denote.
HeldBy(o) == CASE o[1] = "LuaObject" -> {o[2]} [] o[1] = "List" -> ToSet(o[2]) [] OTHER -> {}
Reachable(s) ==
    LET ids(values) == {v[2] : v \in {v \in values : Type(v) \in {"table", "userdata"}}}
        next(o) == (IF s.meta[o] = 0 THEN {} ELSE {s.meta[o]}) \cup
                   (IF o \in TabIds THEN ids(KeySet \cup {s.tab[o][k] : k \in KeySet}) ELSE {})
        reach[found, new \in SUBSET (TabIds \cup Boxes)] ==
            LET more == UNION {next(o) : o \in new} \ found IN IF more = {} THEN found ELSE reach[found \cup more, more]
        roots == {1, s.env} \cup ids({s.globals} \cup {s.mem[a] : a \in 1..(s.top - 1)} \cup ToSet(s.upvals) \cup HeldBy(s.obj))
    IN  reach[roots, roots]
CanCreate(s, n) == Cardinality(TabIds \ Reachable(s)) >= n
CanBox(s, n) == Cardinality(Boxes \ Reachable(s)) >= n

lua_createtable(s) ==
    LET new(t) == Push([s EXCEPT !.tab[t] = [k \in KeySet |-> Nil], !.meta[t] = 0], Tab(t))
    IN  new(Min(TabIds \ Reachable(s)))
lua_newuserdata(s, object) ==
    LET new(u) == Push([s EXCEPT !.java[u] = object, !.meta[u] = 0], Box(u))
    IN  new(Min(Boxes \ Reachable(s)))

----------------------------------------------------------------------------
(* Calls.  A function is its effect: from arguments to results or an error.  *)
(* A method of Java is entered by an action of its own (JluaNatives), and   *)
(* refuses what calls it from here.                                         *)

Results(f, args) ==
    CASE f = "id" -> [ok |-> TRUE, values |-> args]
      [] f = "none" -> [ok |-> TRUE, values |-> <<>>]
      [] f = "fail" -> [ok |-> FALSE, values |-> <<IF args = <<>> THEN Nil ELSE Head(args)>>]
      [] OTHER -> [ok |-> FALSE, values |-> <<Message>>]

MetaOf(s, v) == IF Type(v) \in {"table", "userdata"} THEN s.meta[v[2]] ELSE 0
RawGet(s, t, k) == IF k \in KeySet THEN s.tab[t][k] ELSE Nil
TagMethod(s, v, event) == IF MetaOf(s, v) = 0 THEN Nil ELSE RawGet(s, MetaOf(s, v), Name(event))

\* luaD_precall, tryfuncTM: what is called, and with what.
Outcome(s, f, args) ==
    CASE Type(f) = "function" -> Results(f[2], args)
      [] Type(TagMethod(s, f, "__call")) = "function" -> Results(TagMethod(s, f, "__call")[2], <<f>> \o args)
      [] OTHER -> [ok |-> FALSE, values |-> <<Message>>]

\* Mutant: missing results are not filled up.
PoscallUnfilled(s, func, values, wanted) ==
    [s EXCEPT !.mem = [a \in DOMAIN @ |-> IF a - func + 1 \in 1..Len(values) THEN values[a - func + 1] ELSE @[a]],
              !.top = func + (IF wanted = MultRet THEN Len(values) ELSE wanted)]
\* luaD_poscall: the results go to where the function was, as many as wanted.
luaD_poscall(s, func, values, wanted) ==
    LET n == IF wanted = MultRet THEN Len(values) ELSE wanted
        at(i) == IF i \in 1..Len(values) THEN values[i] ELSE Nil
    IN  [s EXCEPT !.mem = [a \in DOMAIN @ |-> IF a \in func..(func + n - 1) THEN at(a - func + 1) ELSE @[a]],
                  !.top = func + n,
                  !.citop = IF wanted = MultRet /\ func + n > @ THEN func + n ELSE @]

Args(s, nargs) == [i \in 1..nargs |-> s.mem[s.top - nargs - 1 + i]]
lua_call(s, nargs, nresults) ==
    LET func == s.top - (nargs + 1)
        r == Outcome(s, s.mem[func], Args(s, nargs))
    IN  IF r.ok THEN luaD_poscall(s, func, r.values, nresults) ELSE Raise(s, Head(r.values))

\* The error value takes the place of the function; errfunc may change it first
\* (luaG_errormsg), and fails with LUA_ERRERR if it fails (luaD_throw).
lua_pcall(s, nargs, nresults, errfunc) ==
    LET func == s.top - (nargs + 1)
        r == Outcome(s, s.mem[func], Args(s, nargs))
        h == IF errfunc = 0 THEN [ok |-> TRUE, values |-> r.values]
             ELSE IF lua_type(s, errfunc) = "function" THEN Results(At(s, errfunc)[2], r.values)
             ELSE [ok |-> FALSE, values |-> <<Message>>]
    IN  CASE r.ok -> Return(luaD_poscall(s, func, r.values, nresults), 0)
          [] ~r.ok /\ h.ok -> Return(luaD_poscall(s, func, h.values, 1), 2)
          [] OTHER -> Return(luaD_poscall(s, func, <<Message>>, 1), 5)

lua_error(s) == Raise(s, s.mem[s.top - 1])

\* luaV_equalval: the same value, or both have the same __eq and it says so.
lua_equal(s, i, j) ==
    LET a == At(s, i)
        b == At(s, j)
        tm == TagMethod(s, a, "__eq")
        answer(r) == IF ~r.ok THEN Raise(s, Head(r.values))
                     ELSE Return(s, IF r.values # <<>> /\ Head(r.values) \notin {Nil, Bool(FALSE)} THEN 1 ELSE 0)
    IN  CASE None \in {a, b} -> Return(s, 0)
          [] None \notin {a, b} /\ a = b -> Return(s, 1)
          [] a # b /\ Type(a) = Type(b) /\ tm # Nil /\ tm = TagMethod(s, b, "__eq") -> answer(Outcome(s, tm, <<a, b>>))
          [] OTHER -> Return(s, 0)

----------------------------------------------------------------------------
(* Tables: luaV_gettable and luaV_settable follow __index and __newindex *)

Index(s, v, k) ==
    LET at[n \in 0..MaxTagLoop, x \in {v} \cup {Tab(t) : t \in TabIds}] ==
            LET h == TagMethod(s, x, "__index")
                res == IF Type(x) = "table" THEN RawGet(s, x[2], k) ELSE Nil
            IN  IF n = 0 \/ (Type(x) # "table" /\ h = Nil) THEN [ok |-> FALSE, values |-> <<Message>>]
                ELSE CASE res # Nil \/ h = Nil -> [ok |-> TRUE, values |-> <<res>>]
                       [] res = Nil /\ Type(h) = "function" -> Results(h[2], <<x, k>>)
                       [] res = Nil /\ Type(h) = "table" -> at[n - 1, h]
                       [] OTHER -> [ok |-> FALSE, values |-> <<Message>>]
    IN  at[MaxTagLoop, v]

RawSet(s, t, k, v) ==
    IF k = Nil THEN Raise(s, Message)
    ELSE IF k \in KeySet THEN [s EXCEPT !.tab[t][k] = v]
    ELSE s      \* what is under other keys is not looked at
\* The table an assignment ends at, or the function that is called, or None.
SetTarget(s, v, k) ==
    LET at[n \in 0..MaxTagLoop, x \in {v} \cup {Tab(t) : t \in TabIds}] ==
            LET h == TagMethod(s, x, "__newindex")
                found == Type(x) = "table" /\ (h = Nil \/ RawGet(s, x[2], k) # Nil)
            IN  IF n = 0 \/ (Type(x) # "table" /\ h = Nil) \/ (Type(x) = "table" /\ k = Nil) THEN None
                ELSE CASE found -> x
                       [] ~found /\ Type(h) = "function" -> h
                       [] ~found /\ Type(h) = "table" -> at[n - 1, h]
                       [] OTHER -> None
    IN  at[MaxTagLoop, v]
AssignTo(target, s, x, k, v) ==
    CASE Type(target) = "table" -> RawSet(s, target[2], k, v)
      [] Type(target) = "function" ->
            IF Results(target[2], <<x, k, v>>).ok THEN s
            ELSE Raise(s, Head(Results(target[2], <<x, k, v>>).values))
      [] OTHER -> Raise(s, Message)
Assign(s, x, k, v) == AssignTo(SetTarget(s, x, k), s, x, k, v)

\* Where the result of an access goes.
Fetched(s, r, a) ==
    IF ~r.ok THEN Raise(s, Head(r.values))
    ELSE [s EXCEPT !.mem[a] = IF r.values = <<>> THEN Nil ELSE Head(r.values)]
lua_gettable(s, i) == Fetched(s, Index(s, At(s, i), s.mem[s.top - 1]), s.top - 1)
lua_getfield(s, i, name) == Fetched(Push(s, Nil), Index(s, At(s, i), Name(name)), s.top)
lua_rawget(s, i) == [s EXCEPT !.mem[s.top - 1] = RawGet(s, At(s, i)[2], @)]
lua_rawgeti(s, i, n) == Push(s, RawGet(s, At(s, i)[2], Num(n)))
lua_settable(s, i) == Shrink(Assign(s, At(s, i), s.mem[s.top - 2], s.mem[s.top - 1]), 2)
lua_setfield(s, i, name) == Shrink(Assign(s, At(s, i), Name(name), s.mem[s.top - 1]), 1)
lua_rawset(s, i) == Shrink(RawSet(s, At(s, i)[2], s.mem[s.top - 2], s.mem[s.top - 1]), 2)
lua_rawseti(s, i, n) == Shrink(RawSet(s, At(s, i)[2], Num(n), s.mem[s.top - 1]), 1)

lua_getmetatable(s, i) ==
    LET mt == MetaOf(s, At(s, i))
    IN  IF mt = 0 THEN Return(s, 0) ELSE Return(Push(s, Tab(mt)), 1)
\* The metatables of the other types belong to the type and stay out of the model.
lua_setmetatable(s, i) ==
    LET v == s.mem[s.top - 1]
        o == At(s, i)
    IN  Return(IF Type(o) \in {"table", "userdata"}
               THEN Shrink([s EXCEPT !.meta[o[2]] = IF v = Nil THEN 0 ELSE v[2]], 1)
               ELSE Shrink(s, 1), 1)
\* The key after k in the order of traversal (luaH_next), or Nil.
NextIn(f, k) ==
    LET from == IF k = Nil THEN 0 ELSE CHOOSE i \in 1..Len(Keys) : Keys[i] = k
        more == {i \in (from + 1)..Len(Keys) : f[Keys[i]] # Nil}
    IN  IF more = {} THEN Nil ELSE Keys[CHOOSE i \in more : \A j \in more : i <= j]
lua_next(s, i) ==
    LET k == s.mem[s.top - 1]
        f == s.tab[At(s, i)[2]]
    IN  IF k \notin {Nil} \cup KeySet THEN Raise(s, Message)
        ELSE IF NextIn(f, k) = Nil THEN Return(Shrink(s, 1), 0)
        ELSE Return(Push([s EXCEPT !.mem[s.top - 1] = NextIn(f, k)], f[NextIn(f, k)]), 1)

TextOf(v) == IF Type(v) = "number" THEN NumText(v) ELSE v[2]
HasText(v) == Type(v) \in {"string", "number"}
\* Two values become one: their texts, or what the first __concat says (call_binTM).
Pair(s, a, b) ==
    LET tm == IF TagMethod(s, a, "__concat") # Nil THEN TagMethod(s, a, "__concat") ELSE TagMethod(s, b, "__concat")
    IN  CASE HasText(a) /\ HasText(b) -> [ok |-> TRUE, values |-> <<Str(TextOf(a) \o TextOf(b))>>]
          [] ~(HasText(a) /\ HasText(b)) /\ tm # Nil -> Outcome(s, tm, <<a, b>>)
          [] OTHER -> [ok |-> FALSE, values |-> <<Message>>]
FirstOf(values) == IF values = <<>> THEN Nil ELSE Head(values)
\* luaV_concat: from the right, until one is left or a pair fails.
Concatenated(s, vs) ==
    FoldRight(LAMBDA v, r : IF r.ok THEN Pair(s, v, FirstOf(r.values)) ELSE r, Front(vs), [ok |-> TRUE, values |-> <<Last(vs)>>])
lua_concat(s, n) ==
    LET r == Concatenated(s, [i \in 1..n |-> s.mem[s.top - n - 1 + i]])
    IN  CASE n = 0 -> Push(s, Str(<<>>))
          [] n = 1 -> s
          [] n > 1 /\ ~r.ok -> Raise(s, Head(r.values))
          [] OTHER -> Push(Shrink(s, n), FirstOf(r.values))
====
