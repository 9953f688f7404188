# A TLA+ model of JLua

JLua lets Java call Lua 5.1 and Lua call Java. A `LuaState` (Java) wraps a
`lua_State` (C); Java code manipulates its stack through about a hundred
`synchronized native` methods, and Lua code reaches Java objects through
metamethods that call static methods of `JLuaAPI`. What is hard in it is not
the arithmetic but the bookkeeping between two worlds: who owns an index, a
reference, an address or a stack slot, and which thread may touch it when.

## Inventory

| Component | Source | State | Operations | Talks to |
|---|---|---|---|---|
| LuaStateFactory | `LuaStateFactory.java` | static list of LuaStates | newLuaState, getExistingState, insertLuaState, removeLuaState | LuaState constructors, JLuaAPI |
| LuaState | `LuaState.java` | address `luaState`, `stateId`, its monitor | open, newThread, toThread, close, ~100 natives, pushObjectValue, toJavaObject | factory, JNI glue |
| LuaObject | `LuaObject.java` | `ref`, `L` | five constructors, is/get methods, push, call, createProxy, finalize | registry |
| Registry references | `lauxlib.c`, `ltable.c` | registry table with a free list in slot 0 | luaL_ref, luaL_unref, length | LuaObject |
| Lua facade | `Lua.java` | `L`, package path | getters, setters, doString, doFile, callFunctionEx | LuaState, LuaObject |
| LuaInvocationHandler | `LuaInvocationHandler.java` | a LuaObject | invoke | LuaObject.call |
| JavaFunction | `JavaFunction.java` | `L` | register, execute, getParam | jlua.c |
| JLuaAPI | `JLuaAPI.java` | none | reflection, overload resolution | factory, LuaState |
| Native bridge | `jlua.c` | JNI global references in userdata | index/newindex metamethods, gc, throw, try, getClass, createProxy | JLuaAPI |
| JNI glue | `jluajni.c` | none | one function per native method | Lua API |
| Lua API | `lapi.c`, `lauxlib.c` | the stack of the running C function, registry, globals | lua_*, luaL_* | everything in C |
| Lua tables | `ltable.c`, `ltm.c` | array and hash part, bits for absent metamethods | get, set, next, getn | API, machine |
| Lua collector | `lgc.c` | marks, the lists of objects, the phase | singlestep, barriers, finalizers | every allocation |
| Lua compiler | `lparser.c`, `lcode.c`, `ldebug.c` | functions being compiled, jumps and registers still open | statements, expressions, the verifier | machine |
| Lua machine | `lvm.c`, `ldo.c`, `lfunc.c` | stack, call frames, open upvalues | instructions, calls, metamethods | tables, API |

How they interact:

* **Calls down.** Java calls a `synchronized native` method of `LuaState`, which
  calls one function of the Lua API on the `lua_State`. A `LuaObject` method holds
  the monitor of its `LuaState` over several such calls; a method of the facade
  `Lua` does not.
* **Calls back.** Lua code indexes or calls a userdata; its metamethod (`jlua.c`)
  reads the state's index from the registry and calls a static method of
  `JLuaAPI`, which asks `LuaStateFactory` for the `LuaState` with that index and
  synchronizes on it. `LuaInvocationHandler` is the way in through a Java
  interface: a proxy that calls a Lua function.
* **Shared state.** The Lua stack (under the monitor of the `LuaState`), the
  registry (references of `LuaObject`s, the index, the JNI environment), the
  factory's list (under the monitor of its class).
* **Finalizers.** Java's finalizer thread runs `LuaObject.finalize`, which takes
  the monitor and frees a registry slot; Lua's collector runs `gc`, which deletes
  a JNI global reference.
* **Errors.** `handleException` turns a Java exception into a Lua error,
  `LuaObject.call` and `Lua.handleThrows` turn a Lua error into a Java exception.

What is hard to test, component by component, is the list of hazards in
`PROJECT.json`; what makes each component correct is stated by the properties below.

## Modules

JLua itself:

| Module | Models | Its state is the code's |
|---|---|---|
| `RefTable` | `luaL_ref`, `luaL_unref`, `luaH_getn`, and their use by `LuaObject.registerValue` and `finalize` | `t`: the registry, slot 0 is the free list; `ref[o]`: `LuaObject.ref` |
| `ObjectCells` | abstract: one private cell per `LuaObject` | |
| `StateFactory` | `LuaStateFactory`; construction and closing of `LuaState`s; the index in the registry | `states`, `size`: the `ArrayList`; `luaState`, `stateId`: the fields; `reg`: `JLuaStateIndex`; `main`: which addresses are allocated |
| `LuaObjects` | threads on one `LuaState`: methods of `LuaObject` and of the facade, finalizer, close. Composes `RefTable` | `owner`: the monitor; `stack`: the Lua stack; `peer`: `LuaState.luaState # null`; `pc`: where each thread is |
| `Monitors` | the three kinds of monitors, and calls that nest under them, across threads and states | `frames[th]`: the calls a thread is in, each with the monitor it holds or waits for |
| `TryBlock` | `tryBlock`, `throwObj` and `setExceptionStackTrace` of `jlua.c` on the Lua stack | `stack`: the stack of the C function; `err` |
| `TryStatement` | abstract: a try statement with body, handler and closing part | |
| `CallBridge` | Java and Lua calling each other; errors, exceptions, longjmp, coroutines | `frames`: the native stack; `flying`: the pending exception or the error being thrown; `status`: of the coroutines |
| `NestedCalls` | abstract: a stack of method calls with exceptions | |
| `JniNatives` | the native methods of `LuaState` (`jluajni.c`), each one operator over `LuaAux` | `pins`: the Java strings it holds |
| `LuaFacade` | one Lua stack in Java's hands: native methods in any order, and the methods of `LuaState`, `LuaObject` and `Lua` made of several | `st`: the state; `co`: the stack of a coroutine; `did`: the last call |
| `JluaNatives` | the C functions by which Lua reaches Java (`jlua.c`), and the methods of `JLuaAPI` they call: fields, arrays, overloads, conversions, exceptions. Extends `LuaFacade` | in `st`: `field`, `array`: of the Java objects; `exc`: the pending exception |
| `JavaUserdata` | the global reference of a Java object in Lua, from `pushJavaObject` to its finalizer. Composes `LuaGC` | `ref[u]`: the reference; `pushing`: how far `pushJavaObject` is |

The Lua it is built on:

| Module | Models | Its state is the code's |
|---|---|---|
| `LuaApi`, `LuaAux` | `lapi.c` and `lauxlib.c` as operators from a state to the next: indices, stack, tables, metatables, calls, loading | `mem`, `base`, `top`: the slots and the frame; `tab`, `meta`: tables and metatables; `err`: the error that left the call |
| `LuaGC` | the incremental collector under a running program | `currentwhite`, `gcstate`, `tmudata`, ...: fields of `global_State`; `m`: colours and the lists gray, grayagain, weak |
| `LuaTable` | `ltable.c` and the metamethod cache of `ltm.c` | `h`: a table, node by node; `iter`: a traversal |
| `LuaCode`, `LuaParser` | `lcode.c` and `lparser.c`: one pass from the tree of a chunk to its instructions | `FuncState` and `expdesc` as records |
| `LuaDebug` | `luaG_checkcode`: what the machine takes for granted of code | |
| `LuaVM` | `luaV_execute` and what it calls in `ldo.c`, `lfunc.c`, `ltm.c` | one record: stack, `ci`, open upvalues, tables |
| `LuaSemantics` | abstract: what a program means, evaluated on its tree with one cell per variable | |
| `LuaLanguage` | the composition: a chunk compiled statement by statement, then run instruction by instruction | `program`, `P`: the compiler; `m`: the machine |

`*Proofs` hold theorems about the module of that name (`JavaUserdataProofs` about the
collector of `LuaGC` too, which `JavaUserdata` extends; `CallBridgeProofs` about `TryBlock`
too, the other protocol of errors in `jlua.c`), `MC*` constants, symmetry
and programs for TLC. `LuaLanguage` takes compiler, loader, machine and reference
as operator parameters, which `MCLuaLanguage.cfg` binds to the
operators of the modules above: the composition says only when each of them acts.

One action is one step nobody can interrupt: a `synchronized` method of the
factory, a native method, one call of the Lua API under the monitor, one part of
a try statement, one step of the collector, one instruction. Where the code lets
go of a monitor in the middle of a method (the facade, `newThread`, `toThread`,
`close`) the method is several actions in `LuaObjects`, `StateFactory` and
`Monitors`, and `pc` says how far it is. `LuaFacade` looks at the same methods from
the other side: run by one thread, but on the real slots and with every outcome.

`LuaObjects` uses `RefTable` by `INSTANCE` and takes its steps on the registry by
`RefTable`'s actions. What that leaves to show is which value a constructor
registers and when a finalizer may: `ObjectsRight` and `NothingAfterFree`. The lines named `Mutant:` are
plausible bugs next to the definitions they would replace; nothing else uses them.

What the models leave out of the code they stand for:

* Names, strings and numbers are members of small sets. `LuaApi` tells apart
  strings that look like numbers, since conversion in place changes the stack, and
  whole numbers from those with a fraction. A string is a sequence of bytes of which
  three matter: 0, one that modified UTF-8 has no character for, and the two bytes that it
  has for character 0 (`NewStringUTF`, `Encoded`). An `int` has `JintRange = 8` values: an
  index is cut to its whole part (`lua_tointeger`) and then to those (`jint`), as
  `jlua.c:309` and `324` do; a parameter of type `int` stops at the ends (`intValue`).
  `lua_tointeger` is that of a 64-bit build: on x86 without SSE2 it rounds.
* `pushJNIEnv` runs in every native method, rewrites the same two
  registry entries and needs up to three slots; it is part of `jlua_open` only.
* `LuaGC`: how much a step does and when it starts is free, so every interleaving
  with the program is covered and the pacing (`gcdebt`, thresholds) is not.
  The lists `gray`, `grayagain` and `weak` are sets; `udata` keeps its
  order, which decides the order of finalizers. `lua_close` is several actions: the
  choice of the userdata to finalize, one action for each finalizer, and
  `close_state`; after a finalizer written in Lua the program may take any of its
  steps (phase "finalizer"). The collector takes none there: GCTM raises the threshold
  (`lgc.c:463`), and a finalizer that allocates as much as the state holds, or calls
  `collectgarbage`, is not modelled.
* `LuaTable`: memory is never short, so resizing does not fail. That `rehash` leaves
  room for the entries it inserts again, which `ltable.c` takes for granted when it
  goes back through `luaH_set`, is proved (`RoomLeft`). Keys and hashes have no width:
  the overflow branch of `unbound_search` is not reached.
* `LuaParser`: the reading of tokens and the priorities of operators (chunks come as
  trees), limits on the number of locals and levels, line information, messages.
* `LuaVM`: integers only, no hooks, no coroutines, a stack that does not grow. The
  order of strings is `strcoll`'s, some order of the words that occur (`Collation`,
  `l_strcmp`); no string there has a byte 0. What a C function or a metamethod calls runs to its
  end within the step of its caller.
* `LuaDebug`: the tracing of registers for error messages.
* `JluaNatives`: of several methods that take the arguments any may be the first of
  `getMethods`, as Java leaves it. `LuaState` of a coroutine is `Monitors`' matter.

## Runs

All of them take less than three minutes with two workers; `monitors` (1,170,000
states), `luaobjects` (460,000) and `memory` (443,000) are the largest.

| Run | Instance | Shows |
|---|---|---|
| `reftable` | 4 objects, 4 keys, values 1, 2 and another | Whatever order objects are built and finalized in, the free list is sound, keys are exclusive and not lost, the table acts as private cells. 1 and 2 are numbers that look like links. |
| `factory` | 5 wrappers, 3 addresses, `toThread` used or not, no shifting | Until `toThread` is used, a callback from an open state gets that state's `LuaState` and `newThread` wrappers share its slot; indices stay within the list even then. |
| `factory_shift` | 4 wrappers, shifting | Violates `RightState`: see findings. |
| `luaobjects` | 2 objects, 2 threads on objects, 1 on the facade, calls with 2 arguments, finalizer, close, one method that ends in an error or a refused argument | Indices from the top reach the element meant; the stack grows by what a refused push or a strange error value leaves behind and no more; objects keep their value; nothing is used after `lua_close`. |
| `luaobjects_live` | 3 objects, without the facade thread, under fairness | Every method returns, every dropped object is finalized; objects keep their value. |
| `monitors` | 3 threads, 2 states and 1 wrapper, 4 nested calls; no feature, closing early, `newThread`, `toThread`, or `doFile` with crossing and joining | One thread at a time in Lua as long as the state has one `LuaState` and `doFile` is not used; no ring of waiting threads; callbacks of one state serialised even with `doFile` and `newThread`. |
| `tryblock` | all argument lists up to 4, 2 functions, 2 errors, all states of the debug library | `jlua.try` implements the try statement and leaves nothing on its stack. |
| `bridge` | 7 nested activations, 2 exceptions, 2 coroutines; no feature, coroutines, or both and calls without pcall | Every error becomes an exception while Java enters Lua by pcall; calls nest; coroutines end. |
| `memory` | 3 objects and the main thread, 9 plans of what they are (see below), 2 stack slots | Nothing reachable is freed; marking keeps its invariant between any two stores; JNI references are deleted once, in `lua_close` too, and, without weak keys and Lua finalizers, not while in use. |
| `api` | about 700 starting states, one call each, 10 slots, 2 arguments, one object that the checker refuses | The array of slots behaves as a sequence; natives that look leave no trace; facade methods do what they say and restore the stack, up to what a refused push leaves; strings are released; fields, array elements, arguments and exceptions cross the border as what they are, up to the conversions of numbers and strings. |
| `tables` | 3 integer keys, 2 string keys, the hashes of the real doubles, 0 to 2 slots asked for in each part | A table finds what was stored, whatever moved or was cleared; a traversal meets each key once; the length is a border; the cache of absent metamethods is right. |
| `language` | 15,588 programs | Each program answers what it means; its code passes the verifier; frames, top and open upvalues are in order between any two instructions. |

Why these bounds are enough to be worth something:

* `Objects`, `MaxRef`: with four objects the free list reaches length three with
  one key held below and one above it; one stored number equals a key.
* `Wrappers`, `Ptrs`: wrappers are never reused, so each behaviour is a history of
  five constructions; two open states and one created in the gap already need
  three, a `newThread` between two closings four. Three addresses
  let a new state lie where a closed one lay while two others are open.
* `MaxErrors = 1`: one method that ends early leaves up to three elements and shifts
  all indices; two do not show more because nothing looks deeper than the method's
  own part. The theorems have no bound. `MaxArgs = 2`: the second argument may be refused
  when the first one is on the stack.
* `JintRange = 8` with the numbers 0 to 3, 9, 0.5 and 1.5 and an array of two elements: an
  index below it, above it, with a fraction, and past the `int`s, which comes out as 1.
* `MaxDepth = 4` in `Monitors`: Java, Lua, Java, Lua is one thread inside two
  states; rings of threads need one call each to hold and one to wait. One wrapper
  gives one Lua state two monitors, which is all that a second thread needs.
* `MaxDepth = 7` in `CallBridge`: Java, Lua, coroutine, Java, Lua, try, Java.
  The theorems about it have no bound.
* `Plans` in `LuaGC`: a closure with an upvalue, once beside a Java object and
  once beside a second thread whose stack the upvalue is open on; a Java object
  beside another Java object, a proxy with a Lua finalizer, a table that is strong
  or has weak keys or values; a string in a table with weak values or both. Two stack
  slots are what a store from one object to another needs; a violation of the
  tri-colour invariant needs a black object, a white one and a store between two
  steps of the collector, and wrong ordering of finalizers two userdata.
* `MaxSteps = 1` in `LuaFacade`: the starts are all lists of up to two values of seven
  kinds and lists of three of some, over four heaps, with stale values above the top, and the
  frames of every metamethod with well and badly typed arguments; what one
  call leaves is among what the next may find. Each method of `LuaFacade` is
  itself a sequence of up to a dozen API calls.
* `MaxIndexRK = 3`, `FieldsPerFlush = 2`, `MaxArgC = 2` in `LuaCode` are far below the
  real 255, 50 and 511 so that short programs go past them: constants that need a
  register, constructors flushed in several parts, `SETLIST` with its count in
  the next instruction. `MaxTagLoop` and the sizes of stacks are only not
  reached by the programs.
* `Programs`: *Branching* puts 497 conditions of nested `and`, `or`, `not` and
  comparisons in 6 places where a value or a jump is wanted, for 4 values of
  the variables; *Assigning* has 1 to 2 targets that read each other, 1 to 3 values;
  *Looping* has closures made in five kinds of loops, left by break or not;
  *Listing* has open and closed lists in constructors, calls, results;
  *Operating* has operators on all pairs of types with metamethods and errors;
  *Functions* has recursion, tail calls, methods, shared upvalues, an error that closes them.

`CHECK_DEADLOCK FALSE` stands where the program may stop: wrappers, objects or
calls are used up, a state is closed, a program is done, or all threads have
ended. Deadlock of the monitors is a property of its
own (`NoDeadlock`), because some threads can wait for each other while others run.
In `RefTable`, `CallBridge` and `LuaTable` something can always happen and TLC checks it.

### Fairness

Only `luaobjects_live` uses fairness: weak fairness of every thread inside a
method, and of the finalizer thread. The code has no loop or wait except for the monitor,
so a thread in it goes on if the scheduler runs it; the JVM promises to run
`finalize` only eventually, which is what is assumed. Nobody has to start a
method, drop an object or close. Java monitors are not fair; weak fairness is
enough in this instance because objects are never built twice and errors are
bounded, so others stop taking the monitor. With endless traffic the finalizer may starve.

### Assumptions about the application

* `StateFactory`: one thread at a time uses a Lua state (several use several);
  only what `newLuaState` returned gets closed. In `factory` no state is
  created while a lower slot than an open one's is free (`Shifting`);
  `factory_shift` runs without this. `RightState` and `ThreadsAdopted` speak of histories
  without `toThread`, which the run allows.
* `LuaObjects`: one thread on the facade; one `LuaState` for the Lua state; `close` when
  the application's own threads are idle (the finalizer need not be); no `doFile`; Lua
  code called by pcall does not change the globals that are modelled. `StackFramed` and
  `ObjectsRight` speak of the time until a call of another thread fails in the middle
  of a facade method and leaves elements above those of the facade (`disturbed`).
* `Monitors`: what the application does is the variable `uses`; properties say
  for which uses they hold. "hasty close" closes a state while others run.
* `CallBridge`: the same with "unprotected" (access by `getField`, `getTable`
  ..., which have no pcall) and "coroutines". One native thread;
  coroutines are resumed from Lua only. The outermost Java method catches what
  reaches it.
* `JavaUserdata`: `RefsLiveByUse` speaks of programs without weak keys and without
  finalizers written in Lua. `Safe`, `TriColour` and `RefsLiveByUse` speak of the time until
  `lua_close` chooses what to finalize: what comes after frees everything.
* `LuaFacade`: calls are legal as the manual has it (`api_check`): indices are
  valid, operands are there, slots suffice.
* `LuaTable`: a traversal only changes or clears entries, as `lua_next` asks.

## Findings

The run that expects a violation states what the repository says of the code:

* `factory_shift`: `LuaStateFactory.java:60` inserts with `List.add`, which moves
  the states behind the slot away from the index they registered.

Stated in the modules, false of the code, and not among the runs (put the name
under `INVARIANTS` or `PROPERTIES` of the cfg to see the counterexample):

* `InsertAdds` (`MCStateFactory.cfg`): `insertLuaState` throws
  instead of adding when the list has no hole (`LuaStateFactory.java:95`).
* `ClosedIsKnown`, `NeverAnother` (`MCStateFactory.cfg`): a `newThread` wrapper of a
  closed state says it is open; a slot is given away before `lua_close` has run
  the finalizers.
* `OneInLua` (`MCMonitors.cfg`): `_LdoFile` is *static* synchronized
  (`LuaState.java:306`), so it does not exclude the other methods of its state; and
  `newThread` and `toThread` (`LuaState.java:382`, `516`) make a second `LuaState` with
  a monitor of its own over the same `lua_State`.
* `NoDeadlock`, `NoLuaAfterClose` (`MCMonitors.cfg`): threads that join, cross states or use
  one Lua state by two `LuaState`s can wait for each other; a state closed early gets called
  again.
* `ErrorsBecomeExceptions` (`MCCallBridge.cfg`): table access from Java has no pcall
  (`jluajni.c:1032`), so an error in it ends the process or longjmps over Java
  methods.
* `CallbackStack` (`MCCallBridge.cfg`): the index in the registry is that of the main
  Lua thread, also when a coroutine calls Java (`jlua.c:39`).
* `OnlyItsParts` (`MCTryBlock.cfg` with `FunctionErrors = TRUE`): an error that is a
  function is called as if it were the handler (`jlua.c:495`).
* `ThrowsItsArgument` (`MCTryBlock.cfg`): without `debug.traceback`,
  `jlua.throw` raises nil (`jlua.c:99`).
* `RefsLive` (`MCJavaUserdata.cfg`): a table with weak keys, or a finalizer written
  in Lua, gets at a userdata whose reference is deleted already. `ReleasedOnce` says
  what is lost when `pushJavaObject` runs out of memory: its reference (`jlua.c:754`).
* `NoCrash` (`MCJluaNatives.cfg`): `toByteArray` of a userdata, or of a table with
  elements, copies from NULL (`jluajni.c:868`).

Seen in the code and said by a definition or a property that makes the exception:

* `checkJavaObj` throws in the middle of the pushes of `LuaObject.call`, `setTableField`,
  `getGlobalTableField` and `callFunctionEx` (`LuaState.java:833`), and what was pushed
  before stays on the stack for good (`LeftoversExact`, `FacadeKeepsStack`). If that happens
  in a call of one thread while another is in a facade method, the latter's indices
  reach the wrong elements (`disturbed` in `StackFramed` and `ObjectsRight`).
* In `lua_close`, a finalizer written in Lua may make Java objects; they are freed
  without their finalizer and their references leak (`late` in `ReleasedOnce`).
* `a[1.5]` and `a[2^32+1]` are `a[1]` of a Java array (`JavaSeenFromLua`), a field or method
  name ends at its first byte 0, and a string with a byte 0, or not in modified UTF-8, comes
  back from Java as another one (`ThroughJava`).
* With `toThread`, which may store the index of another `LuaState` for the Lua state,
  two callbacks of one state may run at a time (`JavaSerialized`).
* `doString` never releases its script (`jluajni.c:1417`; `StringsReleased`), and `luaL_gsub`
  with an empty pattern never ends (`lauxlib.c:347`; not among the inputs).

## Proofs

TLAPS checks these for every value of the constants:

* `RefTableProofs`: `RefsSafe`, `KeysExact`, `Refinement`. *RefsExclusive* alone is
  not inductive, for `luaL_ref` may pop a key somebody holds if the chain through
  slot 0 is wrong. The invariant adds that chain as an injective path of free
  keys (`IsFreeList`) that, with the held keys, fills the table without a hole
  (`Filled`). The pigeonhole principle bounds its length; without free keys, the border
  is unique because there is no hole.
* `StateFactoryProofs`: `Typed` and `Indices` without restriction; `Routing`
  (`RightState` and `ThreadsAdopted`) until `toThread` is used, when no open state is
  shifted (`Shifting = FALSE`). The invariant of `Routing` is `Agreement`: list, states
  and wrappers name each other. Its hard part is that nobody creates a wrapper of a
  state between the two halves of its closing. `Indices` needs less (`Bounded`):
  the list never gets shorter, so it is enough to follow each index from where it is
  taken to the registry.
* `CallBridgeProofs`: `Safe`, `Refinement`, `Coroutine`, without bound on the nesting.
  The invariant says who can call whom (`Shape`) and that the innermost activation
  raised what is in flight (`Raised`); from it, an error that skips no Java
  lands in the innermost activation (`LandsInnermost`).
  In the same module, `TrySafe` and `TryRefinement` of `TryBlock`, when no error is a
  function. Their invariant adds what the position in the code says of the
  arguments (`Order`) and that the error on top is not a function (`ErrorsPlain`):
  without it `lua_isfunction(L, 3)` may look at the error.
* `MonitorsProofs`: `CallsNest`, `JavaIsSerialized`, `LuaIsSerialized`,
  `CallsNeverDeadlock`, for any number of threads, states and wrappers and any nesting. The
  invariant says which call can be under which (`Places`), that only the innermost
  call waits (`Waiting`), which monitor each method takes (`Methods`), that
  a monitor has one holder (`Exclusive`), that nobody else is at a state being
  made (`Making`), that the calls of a thread that does not cross are about one
  state (`Alike`), and where the index stored in a Lua state leads. No ring: who holds the
  factory is not blocked, and who waits for a `LuaState` would have to hold another
  one. Callbacks exclude each other because `newThread` finds the address in the
  factory's list, so the index that it stores is the one that was there.
* `LuaObjectsProofs`: `ObjectsSound`, `MethodsFramed`, `ObjectsKeepValue`,
  `LeftoversCounted`, `FreedUntouched`. The invariant has the invariant
  of the registry (`Sound`), which thread has the monitor and how many elements of
  the stack are its own at each point of each method (`Steps`, `Deep`), where
  everybody is when the state is closed (`Ends`), and that an object is built by one
  thread (`Building`) and registered until it is finalized (`Registered`).
  The first and last theorem hold without condition; the other three with one
  thread on the facade, for any numbers of refused pushes and strange errors, which are
  part of the model.
* `JavaUserdataProofs`: `CollectorSafe`, `MarkingSound`, `RefsStayLive`,
  `RefsReleased`, for any objects, kinds and stacks. The invariant has two parts: one
  until `lua_close` chooses what to finalize, the other (`Closing`) about the list of
  finalizers still to be called, which is all that counts from there. Neither `Safe` nor `TriColour` is
  inductive. The invariant of the collector has what `TriColour` leaves out: what a
  live object holds, weakly too, is alive (`Solid`); while marking goes on nothing
  is dead, threads and weak tables are not black, and each gray object is a
  string, an open upvalue or on a list that atomic goes through (`Coloured`);
  otherwise no open upvalue is black and what sweeping has passed has the current
  white (`Swept`), which is what the next cycle starts from. The
  one long step is atomic: remarking leaves nothing marked that leads to something
  white but the userdata to be finalized (`Good`); marking those closes the gap;
  what is white then is dropped from the weak tables. What the recursion of marking
  finds is defined as the least set closed under reference (`Closure`), so no
  induction is needed. For the references: `ref` lives until the finalizer is called
  (`Kept`), a sweep frees only userdata with FINALIZEDBIT (`Released`), the stack
  holds a userdata that has no finalizer yet (`Pushed`), and without weak keys and Lua
  finalizers what is alive leads to nothing finalized (`Unreached`): there a
  cleared weak value is needed, which `IsCleared` sees by that bit.
* `LuaTableProofs`: `Invariance`, `TableFindsStored`, `AbsenceRemembered`,
  `TraversalVisitsEach`, `LengthFindsBorder`, for any keys, hashes and initial sizes.
  `FindsStored` is not inductive: a lookup follows one chain, and `newkey` moves nodes
  from one chain to another. The invariant (`Table`) says that each chain is a
  straight line that ends (`Straight`) and goes through the nodes whose keys have
  its head for main position (`Reached`), that no free node is above `lastfree` or on
  a chain (`FreeNodes`), that a key is live in one place (`LiveOnce`), before
  any dead node of the same key (`LiveFirst`); a traversal has met what lies up
  to the element it is at (`Walk`). The long step is `rehash`. Its entries are
  inserted again one by one, and for each there must be room: there are no more
  of them than nodes, and each takes at most one (`RoomLeft`, by the pigeonhole
  principle). A second `rehash` from inside `resize` therefore never happens. That
  `unbound_search` ends is the same principle: every doubling but the last found
  another node.
* `LuaFacadeProofs`: `StackStands`, `FacadeBalances`, `StringsAreReleased`,
  `LooksLeaveTheStack`, about the specification of `LuaFacade`, for any size of the
  stack, any values, chunks and heap to start from, and any sequence of natives. The
  invariant is that the state is an error, or a record whose frame lies within its
  slots (`IsState`). It is inductive; the work is in the operators, which nest
  some eight deep from a method of `Lua` to a slot. Each has a lemma in terms of
  one relation: `Reaches(s, r, h, t)`, from `s` the code came to `r`, with the top at
  `t` and the slots below `h` untouched, or to an error. A native is such
  a path with `h = 1`, a method that balances one with `h` and `t` at the top
  it began at. The functions that are called are those of `Results`: they return
  their arguments or nothing, or fail. A refused push ends the path early: the lemma about the
  method then says how many elements lie above where it began (`Left`). The assumptions: a stack has room for a C
  function (`LUA_MINSTACK`) and no index of it is a pseudo-index (`luaconf.h:443`:
  `LUAI_MAXCSTACK` is smaller than `-LUA_REGISTRYINDEX`); a run starts in a state; a
  value has one of the classes that `pushObjectValue` tells apart.

What a loop of `ltable.c` does is a recursive function of the number of turns, and a
statement about all turns is proved by looking at the least turn of which it is false:
a set of naturals has a least element (`LeastNat`). So loops over numbers need
none of the library's induction theorems, which no installed prover can instantiate.

They rest on the named assumptions in the modules (Nil is not a value,
`MaxRef` is a number, `Main` is not an object or a coroutine, ...), which TLC
evaluates. The `TypeOK` of a module is part of its inductive invariant and proved with it.

Only model-checked are, of the run `api`, that the stack of the natives means a
sequence and each method what it says (`SlotsAreSequence`, `FacadeMeans`), and what
Lua code sees of Java (`JavaSeenFromLua`, `ThrownIsRaised`, `ThroughJava`): they are
statements about single outcomes of long paths, and about the steps that
`JluaNatives` adds, which `LuaFacadeProofs` does not cover. Then the language
(`RunsAsWritten`, `CodeChecked`, `FramesKept`), whose operators recurse over trees and
values and are declared RECURSIVE, which the prover does not reach; and all
liveness: that every method returns and every dropped object is finalized
(`MethodsReturn`, `DroppedReleased`).

## Not modelled, and why

* `Console`, `CPtr`, `LuaException`, `JavaPackage` and the object checkers hold no
  state; what a checker refuses is a constant (`Refused`).
* Of `LuaState`: environments, `resume`, `yield`, `status`, `gc` and natives that
  only name a type or order two values. Of `JLuaAPI`: `javaNew`, class paths and
  imports. Of `jlua.c`: `loadLib`, `import`, the checker's callback.
* Of `lauxlib.c`: buffers. Of `lapi.c`: environments, threads, `lua_dump`, `lua_gc`,
  upvalue functions.
* The standard libraries, the lexer, strings and binary chunks of Lua are
  functions without a protocol, or formats; vendored without changes.

## Plan

Done: the registry, the factory, objects under the monitor, monitors, try, the
bridge; the collector with the Java references; the API, the natives and
conversions; tables; compiler and machine. Next, most important first:

1. Proofs: the steps of `JluaNatives` in the manner of `LuaFacadeProofs`, whose lemmas
   about the API they need, and then `SlotsAreSequence`.
2. The natives still missing (resume, yield, status, environments) and the
   constructors of `JLuaAPI`, in `JniNatives` and `JluaNatives`.
3. Coroutines in `LuaVM`, with the collector's view of their stacks.
4. `LuaTable` with memory errors while it resizes.
