----------------------------- MODULE LuaObjects -----------------------------
(***************************************************************************)
(* One LuaState shared by Java threads: the monitor of the LuaState, the   *)
(* one Lua stack behind it, and the registry that holds what the           *)
(* LuaObjects denote.                                                      *)
(*                                                                         *)
(* The methods of LuaObject hold the monitor from their first push to      *)
(* their last pop.  The methods of the facade class Lua do not: they are   *)
(* sequences of LuaState calls, each synchronized by itself, with indices  *)
(* counted from a top of the stack that any thread may have moved in       *)
(* between.  Finalizer runs LuaObject.finalize at any time, close included.*)
(*                                                                         *)
(* A method may end in the middle: pushObjectValue throws before it pushes *)
(* a Java object whose class the state does not permit, and                *)
(* LuaObject.call throws without a pop when the error value is neither a   *)
(* string nor a Java object.  What has been pushed stays on the stack.     *)
(***************************************************************************)
EXTENDS Integers, Sequences

CONSTANTS
    Objects, Values, Nil, None, MaxRef,     \* as in RefTable
    Workers,        \* threads that use LuaObject methods
    Callers,        \* threads that use the facade class Lua
    Finalizer,      \* the JVM's finalizer thread
    Names,          \* global variables of the Lua state
    Nobody,         \* owner of a free monitor
    MaxArgs,        \* bound: the number of arguments of a call
    MaxErrors       \* bound: the number of methods that end in an error

Threads == Workers \cup Callers \cup {Finalizer}

ASSUME ThreadsAssumption ==
    /\ Workers \cap Callers = {} /\ Finalizer \notin Workers \cup Callers
    /\ Nobody \notin Threads
\* As in RefTable: nil, null and the keys are different things.
ASSUME RegistryAssumption ==
    /\ Nil \notin Values /\ Nil \notin Int
    /\ None \notin Values /\ None \notin Int /\ None # Nil
    /\ MaxRef \in Nat
ASSUME BoundsAssumption == MaxArgs \in Nat /\ MaxErrors \in Nat

VARIABLES
    t, ref,     \* the registry table and LuaObject.ref, see RefTable
    owner,      \* the thread that holds the monitor of the LuaState
    stack,      \* the Lua stack
    globals,    \* globals[n]: the value of a global variable
    peer,       \* LuaState.luaState is not null
    alive,      \* the lua_State has not been freed
    pc,         \* pc[p]: the next step of thread p
    target,     \* target[p]: the LuaObject p is building or finalizing
    func,       \* func[p]: the LuaObject p is calling
    life,       \* life[o]: unborn, built, dropped by Java, finalized
    errors,     \* methods that have ended in an error
    frame,      \* frame[p] is what p takes to be its part of the stack
    wanted,     \* history: wanted[o] is the value o was built from
    left,       \* history: what methods that ended in an error have left on the stack
    disturbed   \* history: some of it lies above elements of a facade method

registry == <<t, ref>>
litter == <<left, disturbed>>
history == <<frame, wanted, litter>>
vars == <<t, ref, owner, stack, globals, peer, alive, pc, target, func, life,
          errors, frame, wanted, left, disturbed>>

Reg == INSTANCE RefTable

\* The places where a thread may be in a method.
NewSteps == {"new.enter", "new.get", "new.ref", "new.pop"}
CallSteps == {"call.enter", "call.push", "call.arg", "call.result", "call.pop"}
FacadeSteps == {"get.ref", "get.pop", "ex.arg", "set", "field.key", "field.get", "field.ref",
                "field.pop", "table.key", "table.value", "table.set", "table.pop"}
FinSteps == {"fin.enter", "fin.check", "fin.unref", "fin.leave"}
CloseSteps == {"close.enter", "close.free", "close.null"}
Labels == {"idle"} \cup NewSteps \cup CallSteps \cup FacadeSteps \cup FinSteps \cup CloseSteps

Lives == {"unborn", "built", "dropped", "finalized"}
Things == Values \cup {Nil}

TypeOK ==
    /\ Reg!TypeOK
    /\ owner \in Threads \cup {Nobody}
    /\ stack \in Seq(Things)
    /\ globals \in [Names -> Things]
    /\ peer \in BOOLEAN /\ alive \in BOOLEAN
    /\ pc \in [Threads -> Labels]
    /\ target \in [Threads -> Objects \cup {None}]
    /\ func \in [Threads -> Objects \cup {None}]
    /\ life \in [Objects -> Lives]
    /\ errors \in 0 .. MaxErrors
    /\ frame \in [Threads -> Seq(Things)]
    /\ wanted \in [Objects -> Things]
    /\ left \in Seq(Things) /\ disturbed \in BOOLEAN

Init ==
    /\ Reg!Init
    /\ owner = Nobody
    /\ stack = <<>>
    /\ globals \in [Names -> Things]
    /\ peer = TRUE /\ alive = TRUE
    /\ pc = [p \in Threads |-> "idle"]
    /\ target = [p \in Threads |-> None]
    /\ func = [p \in Threads |-> None]
    /\ life = [o \in Objects |-> "unborn"]
    /\ errors = 0
    /\ frame = [p \in Threads |-> <<>>]
    /\ wanted = [o \in Objects |-> Nil]
    /\ left = <<>> /\ disturbed = FALSE

-----------------------------------------------------------------------------
(* Monitor, stack and registry. *)

Goto(p, l) == pc' = [pc EXCEPT ![p] = l]

Enter(p) == owner = Nobody /\ owner' = p
LeaveHolding(p) == owner = p /\ UNCHANGED owner     \* mutant: the monitor is kept
Leave(p) == owner = p /\ owner' = Nobody
Inside(p) == owner = p /\ UNCHANGED owner
AloneUnsynchronized == UNCHANGED owner   \* mutant: a native method not synchronized
\* One synchronized call of a thread that does not hold the monitor.
Alone == owner = Nobody /\ UNCHANGED owner

Top(s) == s[Len(s)]
Drop(s, n) == SubSeq(s, 1, Len(s) - n)

\* p pushes v, believing the rest of its part of the stack unchanged.
Push(p, v) == /\ stack' = Append(stack, v)
              /\ frame' = [frame EXCEPT ![p] = Append(@, v)]

\* p pops n elements, believing them its own.
Pop(p, n) == /\ Len(stack) >= n
             /\ stack' = Drop(stack, n)
             /\ frame' = [frame EXCEPT ![p] = Drop(@, n)]

\* The top n elements, which p believes its own, give way to r.
Replace(p, n, r) == /\ Len(stack) >= n
                    /\ stack' = Append(Drop(stack, n), r)
                    /\ frame' = [frame EXCEPT ![p] = Append(Drop(@, n), r)]

\* pcall of the function and the arguments that p has pushed.
Pcall(p, r) == Replace(p, Len(frame[p]), r)

\* p's method ends in an error and leaves the elements s.
Leaves(p, s) == /\ errors < MaxErrors /\ errors' = errors + 1
                /\ frame' = [frame EXCEPT ![p] = <<>>]
                /\ left' = left \o s
                /\ disturbed' = (disturbed \/ \E c \in Callers : c # p /\ Len(frame[c]) > 0)

\* Mutant: luaL_ref without its test for nil.
RegisterAnything(o) == Reg!Register(o, Top(stack))

\* registerValue(-1): the element on the top, duplicated, becomes object o's.
RegisterTop(o) == IF Top(stack) = Nil THEN Reg!RegisterNil(o) ELSE Reg!Register(o, Top(stack))

\* p has built o from what it takes to be on the top of the stack.
Built(p, o) == /\ RegisterTop(o)
               /\ life' = [life EXCEPT ![o] = "built"]
               /\ wanted' = [wanted EXCEPT ![o] = Top(frame[p])]

\* Objects under construction belong to one thread.
Fresh(o) == life[o] = "unborn" /\ \A p \in Threads : target[p] # o

\* The application uses the state: nobody has begun to close it.
InUse == peer /\ \A p \in Threads : pc[p] \notin {"close.enter", "close.free", "close.null"}

-----------------------------------------------------------------------------
(* LuaObject(L, globalName), on a worker. *)

NewStart(p, o) ==
    /\ pc[p] = "idle" /\ InUse /\ Fresh(o)
    /\ Goto(p, "new.enter")
    /\ target' = [target EXCEPT ![p] = o]
    /\ UNCHANGED <<registry, owner, stack, globals, peer, alive, func, life, errors, history>>

NewEnter(p) ==
    /\ pc[p] = "new.enter" /\ Enter(p) /\ Goto(p, "new.get")
    /\ UNCHANGED <<registry, stack, globals, peer, alive, target, func, life, errors, history>>

NewGet(p) ==
    /\ pc[p] = "new.get" /\ Inside(p)
    /\ \E n \in Names : Push(p, globals[n])
    /\ Goto(p, "new.ref")
    /\ UNCHANGED <<registry, globals, peer, alive, target, func, life, errors, wanted, litter>>

NewRef(p) ==
    /\ pc[p] = "new.ref" /\ Inside(p)
    /\ Built(p, target[p]) /\ Goto(p, "new.pop")
    /\ UNCHANGED <<stack, globals, peer, alive, target, func, errors, frame, litter>>

\* Mutant: the constructor without L.pop(1).
NewLeaveUnpopped(p) ==
    /\ pc[p] = "new.pop" /\ Leave(p) /\ Goto(p, "idle")
    /\ frame' = [frame EXCEPT ![p] = <<>>]
    /\ target' = [target EXCEPT ![p] = None]
    /\ UNCHANGED <<registry, stack, globals, peer, alive, func, life, errors, wanted, litter>>

NewLeave(p) ==
    /\ pc[p] = "new.pop" /\ Leave(p)
    /\ Pop(p, 1) /\ Goto(p, "idle")
    /\ target' = [target EXCEPT ![p] = None]
    /\ UNCHANGED <<registry, globals, peer, alive, func, life, errors, wanted, litter>>

-----------------------------------------------------------------------------
(* LuaObject.call with one result, on a worker: a proxy's                  *)
(* LuaInvocationHandler.invoke comes down to this.                         *)

CallStart(p, f, o) ==
    /\ pc[p] = "idle" /\ InUse /\ life[f] = "built" /\ Fresh(o) /\ Reg!Denotes(f) # Nil
    /\ Goto(p, "call.enter")
    /\ func' = [func EXCEPT ![p] = f]
    /\ target' = [target EXCEPT ![p] = o]
    /\ UNCHANGED <<registry, owner, stack, globals, peer, alive, life, errors, history>>

CallEnter(p) ==
    /\ pc[p] = "call.enter" /\ Enter(p) /\ Goto(p, "call.push")
    /\ UNCHANGED <<registry, stack, globals, peer, alive, target, func, life, errors, history>>

CallPush(p) ==
    /\ pc[p] = "call.push" /\ Inside(p)
    /\ Push(p, Reg!Denotes(func[p])) /\ Goto(p, "call.arg")
    /\ UNCHANGED <<registry, globals, peer, alive, target, func, life, errors, wanted, litter>>

CallArg(p) ==
    /\ pc[p] = "call.arg" /\ Inside(p)
    /\ Len(frame[p]) <= MaxArgs
    /\ \E v \in Things : Push(p, v)
    /\ UNCHANGED <<registry, globals, peer, alive, pc, target, func, life, errors, wanted, litter>>

\* checkJavaObj refuses an argument: function and earlier arguments stay.
CallArgRefused(p) ==
    /\ pc[p] = "call.arg" /\ Leave(p)
    /\ Len(frame[p]) <= MaxArgs
    /\ Leaves(p, frame[p]) /\ UNCHANGED stack
    /\ Goto(p, "idle")
    /\ func' = [func EXCEPT ![p] = None]
    /\ target' = [target EXCEPT ![p] = None]
    /\ UNCHANGED <<registry, globals, peer, alive, life, wanted>>

CallReturns(p) ==
    /\ pc[p] = "call.arg" /\ Inside(p)
    /\ \E r \in Things : Pcall(p, r)
    /\ Goto(p, "call.result")
    /\ UNCHANGED <<registry, globals, peer, alive, target, func, life, errors, wanted, litter>>

\* The error value is a string, or a Java object that getLuaObject wraps
\* first: it will be popped.
CallFails(p) ==
    /\ pc[p] = "call.arg" /\ Inside(p)
    /\ errors < MaxErrors /\ errors' = errors + 1
    /\ \E r \in Values : Pcall(p, r)
    /\ Goto(p, "call.pop") \/ Goto(p, "call.result")
    /\ UNCHANGED <<registry, globals, peer, alive, target, func, life, wanted, litter>>

\* It is neither: the exception is thrown with the value left on the stack.
CallFailsStrangely(p) ==
    /\ pc[p] = "call.arg" /\ Leave(p)
    /\ \E r \in Things : Leaves(p, <<r>>) /\ stack' = Append(Drop(stack, Len(frame[p])), r)
    /\ Goto(p, "idle")
    /\ func' = [func EXCEPT ![p] = None]
    /\ target' = [target EXCEPT ![p] = None]
    /\ UNCHANGED <<registry, globals, peer, alive, life, wanted>>

\* toJavaObject(-1) of a function, a table or a userdata builds a LuaObject.
CallResult(p) ==
    /\ pc[p] = "call.result" /\ Inside(p)
    /\ Built(p, target[p]) /\ Goto(p, "call.pop")
    /\ UNCHANGED <<stack, globals, peer, alive, target, func, errors, frame, litter>>

\* Mutant: call without L.pop(1) after the result.
CallLeaveUnpopped(p) ==
    /\ pc[p] = "call.pop" /\ Leave(p) /\ Goto(p, "idle")
    /\ frame' = [frame EXCEPT ![p] = <<>>]
    /\ func' = [func EXCEPT ![p] = None]
    /\ target' = [target EXCEPT ![p] = None]
    /\ UNCHANGED <<registry, stack, globals, peer, alive, life, errors, wanted, litter>>

CallLeave(p) ==
    /\ pc[p] = "call.pop" /\ Leave(p)
    /\ Pop(p, 1) /\ Goto(p, "idle")
    /\ func' = [func EXCEPT ![p] = None]
    /\ target' = [target EXCEPT ![p] = None]
    /\ UNCHANGED <<registry, globals, peer, alive, life, errors, wanted, litter>>

-----------------------------------------------------------------------------
(* The facade Lua, on a caller: getGlobal, getGlobalTableField,            *)
(* callFunctionEx with one result, registerGlobal and setTableField.  Each *)
(* step is one call of LuaState, synchronized by itself.                   *)

FacadeGet(c, o) ==
    /\ pc[c] = "idle" /\ InUse /\ Alone /\ Fresh(o)
    /\ \E n \in Names : Push(c, globals[n])
    /\ Goto(c, "get.ref") \/ Goto(c, "ex.arg") \/ Goto(c, "field.key")
    /\ target' = [target EXCEPT ![c] = o]
    /\ UNCHANGED <<registry, globals, peer, alive, func, life, errors, wanted, litter>>

FacadePush(c) ==
    /\ pc[c] = "idle" /\ InUse /\ Alone
    /\ \E v \in Things : Push(c, v)
    /\ Goto(c, "set") \/ Goto(c, "table.key")
    /\ UNCHANGED <<registry, globals, peer, alive, target, func, life, errors, wanted, litter>>

\* A push after the first one, and where it leads.
Pushing(c, l) == \/ pc[c] = "ex.arg" /\ Len(frame[c]) <= MaxArgs /\ l = "ex.arg"
                 \/ pc[c] = "field.key" /\ l = "field.get"
                 \/ pc[c] = "table.key" /\ l = "table.value"
                 \/ pc[c] = "table.value" /\ l = "table.set"

FacadeArg(c) ==
    /\ Alone
    /\ \E l \in FacadeSteps : Pushing(c, l) /\ Goto(c, l)
    /\ \E v \in Things : Push(c, v)
    /\ UNCHANGED <<registry, globals, peer, alive, target, func, life, errors, wanted, litter>>

\* checkJavaObj refuses an argument, a key or a value: what is there stays.
FacadeArgRefused(c) ==
    /\ Alone
    /\ \E l \in FacadeSteps : Pushing(c, l)
    /\ Leaves(c, frame[c]) /\ Goto(c, "idle")
    /\ target' = [target EXCEPT ![c] = None]
    /\ UNCHANGED <<registry, stack, globals, peer, alive, func, life, wanted>>

\* The result or the error value: handleThrows treats the latter alike.
FacadePcall(c) ==
    /\ pc[c] = "ex.arg" /\ Alone
    /\ \E r \in Things : Pcall(c, r)
    /\ Goto(c, "get.ref")
    /\ UNCHANGED <<registry, globals, peer, alive, target, func, life, errors, wanted, litter>>

\* L.getTable(-2): the key gives way to the field.
FacadeField(c) ==
    /\ pc[c] = "field.get" /\ Alone
    /\ \E r \in Things : Replace(c, 1, r)
    /\ Goto(c, "field.ref")
    /\ UNCHANGED <<registry, globals, peer, alive, target, func, life, errors, wanted, litter>>

FacadeRef(c) ==
    /\ \/ pc[c] = "get.ref" /\ Goto(c, "get.pop")
       \/ pc[c] = "field.ref" /\ Goto(c, "field.pop")
    /\ Alone /\ Len(stack) > 0 /\ Built(c, target[c])
    /\ UNCHANGED <<stack, globals, peer, alive, target, func, errors, frame, litter>>

FacadePop(c) ==
    /\ Alone /\ Goto(c, "idle")
    /\ \/ pc[c] = "get.pop" /\ Pop(c, 1)
       \/ pc[c] = "field.key" /\ Pop(c, 1)     \* not a table
       \/ pc[c] = "field.pop" /\ Pop(c, 2)
    /\ target' = [target EXCEPT ![c] = None]
    /\ UNCHANGED <<registry, globals, peer, alive, func, life, errors, wanted, litter>>

\* setTableField: L.setTable(-3), then L.pop(1).
FacadeTable(c) ==
    /\ Alone
    /\ \/ pc[c] = "table.set" /\ Pop(c, 2) /\ Goto(c, "table.pop")
       \/ pc[c] = "table.pop" /\ Pop(c, 1) /\ Goto(c, "idle")
    /\ UNCHANGED <<registry, globals, peer, alive, target, func, life, errors, wanted, litter>>

FacadeSet(c) ==
    /\ pc[c] = "set" /\ Alone
    /\ \E n \in Names : globals' = [globals EXCEPT ![n] = Top(stack)]
    /\ Pop(c, 1) /\ Goto(c, "idle")
    /\ UNCHANGED <<registry, peer, alive, target, func, life, errors, wanted, litter>>

-----------------------------------------------------------------------------
(* LuaObject.finalize, once Java has dropped the object. *)

JavaDrops(o) ==
    /\ life[o] = "built" /\ \A p \in Threads : func[p] # o
    /\ life' = [life EXCEPT ![o] = "dropped"]
    /\ UNCHANGED <<registry, owner, stack, globals, peer, alive, pc, target, func, errors, history>>

FinStart(o) ==
    /\ pc[Finalizer] = "idle" /\ life[o] = "dropped"
    /\ Goto(Finalizer, "fin.enter")
    /\ target' = [target EXCEPT ![Finalizer] = o]
    /\ UNCHANGED <<registry, owner, stack, globals, peer, alive, func, life, errors, history>>

FinEnter ==
    /\ pc[Finalizer] = "fin.enter" /\ Enter(Finalizer) /\ Goto(Finalizer, "fin.check")
    /\ UNCHANGED <<registry, stack, globals, peer, alive, target, func, life, errors, history>>

\* Mutant: finalize does not ask whether the state is closed.
FinCheckNothing ==
    /\ pc[Finalizer] = "fin.check" /\ Inside(Finalizer) /\ Goto(Finalizer, "fin.unref")
    /\ UNCHANGED <<registry, stack, globals, peer, alive, target, func, life, errors, history>>

\* L.getCPtrPeer() != 0
FinCheck ==
    /\ pc[Finalizer] = "fin.check" /\ Inside(Finalizer)
    /\ IF peer THEN Goto(Finalizer, "fin.unref") ELSE Goto(Finalizer, "fin.leave")
    /\ UNCHANGED <<registry, stack, globals, peer, alive, target, func, life, errors, history>>

FinUnref ==
    /\ pc[Finalizer] = "fin.unref" /\ Inside(Finalizer)
    /\ Reg!Finalize(target[Finalizer]) /\ Goto(Finalizer, "fin.leave")
    /\ UNCHANGED <<stack, globals, peer, alive, target, func, life, errors, history>>

FinLeave ==
    /\ pc[Finalizer] = "fin.leave" /\ Leave(Finalizer) /\ Goto(Finalizer, "idle")
    /\ life' = [life EXCEPT ![target[Finalizer]] = "finalized"]
    /\ target' = [target EXCEPT ![Finalizer] = None]
    /\ UNCHANGED <<registry, stack, globals, peer, alive, func, errors, history>>

-----------------------------------------------------------------------------
(* LuaState.close, by a thread of the application when none of them is in  *)
(* the middle of something else.  The finalizer may be.                    *)

CloseStart(p) ==
    /\ InUse /\ \A q \in Workers \cup Callers : pc[q] = "idle"
    /\ Goto(p, "close.enter")
    /\ UNCHANGED <<registry, owner, stack, globals, peer, alive, target, func, life, errors, history>>

CloseEnter(p) ==
    /\ pc[p] = "close.enter" /\ Enter(p) /\ Goto(p, "close.free")
    /\ UNCHANGED <<registry, stack, globals, peer, alive, target, func, life, errors, history>>

CloseFree(p) ==
    /\ pc[p] = "close.free" /\ Inside(p) /\ alive' = FALSE /\ Goto(p, "close.null")
    /\ UNCHANGED <<registry, stack, globals, peer, target, func, life, errors, history>>

\* Mutant: close keeps the monitor.
CloseNullHolding(p) ==
    /\ pc[p] = "close.null" /\ Inside(p) /\ peer' = FALSE /\ Goto(p, "idle")
    /\ UNCHANGED <<registry, stack, globals, alive, target, func, life, errors, history>>

CloseNull(p) ==
    /\ pc[p] = "close.null" /\ Leave(p) /\ peer' = FALSE /\ Goto(p, "idle")
    /\ UNCHANGED <<registry, stack, globals, alive, target, func, life, errors, history>>

-----------------------------------------------------------------------------
Start(p) ==
    \/ p \in Workers /\ \E o \in Objects : NewStart(p, o) \/ \E f \in Objects : CallStart(p, f, o)
    \/ p \in Callers /\ (FacadePush(p) \/ \E o \in Objects : FacadeGet(p, o))
    \/ CloseStart(p)

Continue(p) ==
    \/ NewEnter(p) \/ NewGet(p) \/ NewRef(p) \/ NewLeave(p)
    \/ CallEnter(p) \/ CallPush(p) \/ CallArg(p) \/ CallArgRefused(p)
    \/ CallReturns(p) \/ CallFails(p) \/ CallFailsStrangely(p)
    \/ CallResult(p) \/ CallLeave(p)
    \/ FacadeArg(p) \/ FacadeArgRefused(p) \/ FacadePcall(p) \/ FacadeField(p)
    \/ FacadeRef(p) \/ FacadePop(p) \/ FacadeTable(p) \/ FacadeSet(p)
    \/ CloseEnter(p) \/ CloseFree(p) \/ CloseNull(p)

Finalize == (\E o \in Objects : FinStart(o)) \/ FinEnter \/ FinCheck \/ FinUnref \/ FinLeave

Next ==
    \/ \E p \in Workers \cup Callers : Start(p) \/ Continue(p)
    \/ \E o \in Objects : JavaDrops(o)
    \/ Finalize

Spec == Init /\ [][Next]_vars

(***************************************************************************)
(* Fairness: a thread inside a method goes on, and the JVM runs the        *)
(* finalizer.  Nobody has to start anything, drop anything or close.       *)
(***************************************************************************)
Fairness == /\ \A p \in Workers \cup Callers : WF_vars(Continue(p))
            /\ WF_vars(Finalize)

FairSpec == Spec /\ Fairness

-----------------------------------------------------------------------------
\* The elements that caller c, in the middle of a facade method, counts on.
CallerFrame == IF Callers = {} THEN <<>> ELSE frame[CHOOSE c \in Callers : TRUE]
OwnerFrame == IF owner \in Workers THEN frame[owner] ELSE <<>>

(***************************************************************************)
(* With one thread on the facade and any number on LuaObject methods, the  *)
(* stack is what failed methods have left, then what the facade thread has *)
(* pushed, topped by what the owner of the monitor has pushed: the indices *)
(* -1, -2 every method counts from the top reach the element the method    *)
(* meant.  It ends when a worker's call fails in the middle of a facade    *)
(* method and leaves elements above those of the facade.                   *)
(***************************************************************************)
StackFramed == alive /\ ~disturbed => stack = (left \o CallerFrame) \o OwnerFrame

(***************************************************************************)
(* Always, the stack has grown by exactly what failed methods have left:   *)
(* a strange error value, or what was pushed before the refused argument,  *)
(* key or value.  No other way out of a method leaves or takes an element. *)
(***************************************************************************)
LeftoversExact ==
    alive => Len(stack) = Len(left) + Len(CallerFrame) + Len(OwnerFrame)

(***************************************************************************)
(* A LuaObject denotes the value it was built from, from its construction  *)
(* until its finalizer runs, whatever the other threads build, call and    *)
(* finalize meanwhile, and whatever failed calls have left below.          *)
(***************************************************************************)
ObjectsRight ==
    ~disturbed => \A o \in Objects : life[o] \in {"built", "dropped"} /\ ref[o] # None =>
        Reg!Denotes(o) = wanted[o]

(***************************************************************************)
(* Nothing reaches into the Lua state after lua_close: neither the stack,  *)
(* nor the globals, nor the registry, where a late finalizer would.        *)
(***************************************************************************)
NothingAfterFree == [][~alive => UNCHANGED <<registry, stack, globals>>]_vars

(***************************************************************************)
(* Every method that has begun returns, and every LuaObject that Java      *)
(* drops gets finalized: no thread waits for the monitor forever, and the  *)
(* elements a method counts on are there.                                  *)
(***************************************************************************)
MethodsReturn == \A p \in Threads : pc[p] # "idle" ~> pc[p] = "idle"
DroppedReleased == \A o \in Objects : life[o] = "dropped" ~> life[o] = "finalized"
=============================================================================
