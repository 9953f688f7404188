----------------------------- MODULE CallBridge -----------------------------
(***************************************************************************)
(* Calls between Java and Lua that nest, and the errors and exceptions     *)
(* that cross them.  One native thread runs a stack of activations of Java *)
(* methods and Lua functions.  Between two of them lie the C functions by  *)
(* which one was called from the other: some are places where the longjmp  *)
(* of a Lua error lands, most are not.  The longjmp goes to the innermost  *)
(* landing place of the Lua thread the error is raised on (L->errorJmp,    *)
(* ldo.c:94-121), whatever the native stack holds above it.                *)
(*                                                                         *)
(* Arguments, results and the Lua stack's contents are left out; a run of  *)
(* Lua-to-Lua calls is one activation.                                     *)
(***************************************************************************)
EXTENDS Naturals, Sequences, FiniteSets

CONSTANTS Exceptions,   \* the Throwables Java code throws of its own
          Main,         \* the Lua thread LuaStateFactory.newLuaState made
          Coroutines,   \* the other Lua threads of that state
          MaxDepth,     \* bound: activations on the stack
          Uses          \* the sets of features the application may use

\* "unprotected": Java reads or writes tables and calls functions through
\* the LuaState methods that have no pcall (getField, getTable, call, ...).
\* "coroutines": Lua code runs coroutines that call Java.
Features == {"unprotected", "coroutines"}

ASSUME BridgeAssumption ==
    /\ Main \notin Coroutines
    /\ MaxDepth \in Nat
    /\ Uses \subseteq SUBSET Features
    /\ {"LuaException", "message", "none"} \cap Exceptions = {}

LuaThreads == {Main} \union Coroutines
Throwables == Exceptions \union {"LuaException"}

\* What lua_error can carry: a Throwable pushed by pushJavaObject, or any
\* other value (a string, a table, nil).
ErrorValues == Throwables \union {"message"}

NoError == [lang |-> "none"]
JavaError(e) == [lang |-> "java", what |-> e]
LuaError(v, t) == [lang |-> "lua", what |-> v, thr |-> t]

\* How an activation was called.  A Java method: the program started with
\* it, or a C function of the bridge called it.  A Lua function: lua_pcall
\* from Java, pcall or jlua's try from Lua, lua_resume; or an API function
\* without a landing place.
JavaVia == {"start", "c"}
Landings == {"pcall", "catch", "resume"}
LuaVia == Landings \union {"api"}

VARIABLES
    uses,     \* the features this application uses
    frames,   \* the activations, outermost first: how each was called, and
              \* the Lua thread it runs on or (Java) works with
    flying,   \* the error or exception that is unwinding it
    status,   \* of each coroutine: suspended, running or dead
    fate      \* "ok", or how the process came to its end
vars == <<uses, frames, flying, status, fate>>

Init == /\ uses \in Uses
        /\ frames = <<[via |-> "start", thr |-> Main]>>
        /\ flying = NoError
        /\ status = [co \in Coroutines |-> "suspended"]
        /\ fate = "ok"

Depth == Len(frames)
Top == frames[Depth]
InJava(i) == frames[i].via \in JavaVia

Runs == fate = "ok" /\ flying = NoError
JavaRuns == Runs /\ InJava(Depth)
LuaRuns == Runs /\ ~InJava(Depth)

Enter(how, t) == /\ Depth < MaxDepth
                 /\ frames' = Append(frames, [via |-> how, thr |-> t])
Cut(n) == SubSeq(frames, 1, n)

-----------------------------------------------------------------------------
(***************************************************************************)
(* Java.                                                                   *)
(***************************************************************************)

\* Mutant: call where pcall belongs.
JavaCallsBare == /\ JavaRuns
                 /\ Enter("api", Top.thr)
                 /\ UNCHANGED <<uses, flying, status, fate>>

\* LuaObject.call, Lua.callFunctionEx, doString, doFile: a pcall on the
\* lua_State of the LuaState object the Java code works with.
JavaCalls == /\ JavaRuns
             /\ Enter("pcall", Top.thr)
             /\ UNCHANGED <<uses, flying, status, fate>>

\* getField, getTable, setField, call ... of LuaState, and the methods of
\* Lua and LuaObject on top of them: a metamethod may run, or the access
\* itself may be an error, with no pcall around it.
JavaIndexes == /\ "unprotected" \in uses
               /\ JavaRuns
               /\ Enter("api", Top.thr)
               /\ UNCHANGED <<uses, flying, status, fate>>

\* A method called from Lua returns to its C function, and that to Lua.
JavaReturns == /\ JavaRuns
               /\ Depth > 1
               /\ frames' = Cut(Depth - 1)
               /\ UNCHANGED <<uses, flying, status, fate>>

JavaThrows == /\ JavaRuns
              /\ \E e \in Throwables : flying' = JavaError(e)
              /\ UNCHANGED <<uses, frames, status, fate>>

\* Some activation of Java code handles the exception; the outermost one
\* (Console.main, a thread's run method) always does.
JavaCatches == /\ fate = "ok"
               /\ flying.lang = "java"
               /\ flying' = NoError
               /\ UNCHANGED <<uses, frames, status, fate>>

\* Mutant: the exception's text is raised, not the exception.
JavaLeavesAsText == /\ fate = "ok"
                    /\ flying.lang = "java"
                    /\ Depth > 1
                    /\ flying' = LuaError("message", frames[Depth - 1].thr)
                    /\ frames' = Cut(Depth - 1)
                    /\ UNCHANGED <<uses, status, fate>>

\* handleException: the exception leaves the Java method, and the C function
\* that called the method raises it as a Lua error, on its own lua_State.
JavaLeaves == /\ fate = "ok"
              /\ flying.lang = "java"
              /\ Depth > 1
              /\ flying' = LuaError(flying.what, frames[Depth - 1].thr)
              /\ frames' = Cut(Depth - 1)
              /\ UNCHANGED <<uses, status, fate>>

-----------------------------------------------------------------------------
(***************************************************************************)
(* Lua.                                                                    *)
(***************************************************************************)

\* objectIndexReturn, jluaFunctionCall and the other C functions of jlua.c:
\* JLuaAPI finds its LuaState by the index in the registry, which all
\* threads of a Lua state share, and so gets that of the main thread.
LuaCallsJava == /\ LuaRuns
                /\ Enter("c", Main)
                /\ UNCHANGED <<uses, flying, status, fate>>

\* pcall and try.
LuaTries == /\ LuaRuns
            /\ Enter("catch", Top.thr)
            /\ UNCHANGED <<uses, flying, status, fate>>

\* coroutine.resume and the functions coroutine.wrap makes.
LuaResumes(co) == /\ "coroutines" \in uses
                  /\ LuaRuns
                  /\ status[co] = "suspended"
                  /\ Enter("resume", co)
                  /\ status' = [status EXCEPT ![co] = "running"]
                  /\ UNCHANGED <<uses, flying, fate>>

\* coroutine.yield; with a C call in between it is an error (LuaRaises).
LuaYields == /\ LuaRuns
             /\ Top.via = "resume"
             /\ frames' = Cut(Depth - 1)
             /\ status' = [status EXCEPT ![Top.thr] = "suspended"]
             /\ UNCHANGED <<uses, flying, fate>>

\* A function returns to whoever called it: pcall, try, an API call or
\* lua_resume.
LuaReturns ==
    /\ LuaRuns
    /\ frames' = Cut(Depth - 1)
    /\ status' = IF Top.via = "resume"
                 THEN [status EXCEPT ![Top.thr] = "dead"] ELSE status
    /\ UNCHANGED <<uses, flying, fate>>

\* error, throw, and every error the interpreter finds.
LuaRaises == /\ LuaRuns
             /\ \E v \in ErrorValues : flying' = LuaError(v, Top.thr)
             /\ UNCHANGED <<uses, frames, status, fate>>

-----------------------------------------------------------------------------
(***************************************************************************)
(* luaD_throw: L->errorJmp is the innermost landing place of this Lua      *)
(* thread; what lies above it on the native stack is cut off.              *)
(***************************************************************************)

Catches(i, t) == frames[i].via \in Landings /\ frames[i].thr = t
Lands(i) == /\ flying.lang = "lua"
            /\ Catches(i, flying.thr)
            /\ \A j \in i + 1 .. Depth : ~Catches(j, flying.thr)
JavaInside(i) == \E j \in i + 1 .. Depth : InJava(j)

Unwinds(i) == /\ fate = "ok"
              /\ Lands(i)
              /\ ~JavaInside(i)
              /\ frames' = Cut(i - 1)
              /\ UNCHANGED <<uses, fate>>

\* LuaObject.call, handleThrows: the Throwable itself, or a LuaException
\* with the text of any other value.
AsThrowable(v) == IF v \in Throwables THEN v ELSE "LuaException"

LandsInPcall(i) == /\ Unwinds(i)
                   /\ frames[i].via = "pcall"
                   /\ flying' = JavaError(AsThrowable(flying.what))
                   /\ UNCHANGED status

\* The caller of pcall has the error as a value, the catch function has run;
\* or a try without one raises the error again.
LandsInCatch(i) == /\ Unwinds(i)
                   /\ frames[i].via = "catch"
                   /\ flying' \in {NoError, flying}
                   /\ UNCHANGED status

\* Mutant: without L->status = status.
LandsInResumeAlive(i) ==
    /\ Unwinds(i)
    /\ frames[i].via = "resume"
    /\ flying' \in {NoError, LuaError(flying.what, frames[i - 1].thr)}
    /\ UNCHANGED status

\* lua_resume marks the coroutine dead.  coroutine.resume returns the error
\* as a value, a function made by coroutine.wrap raises it in its caller.
LandsInResume(i) ==
    /\ Unwinds(i)
    /\ frames[i].via = "resume"
    /\ flying' \in {NoError, LuaError(flying.what, frames[i - 1].thr)}
    /\ status' = [status EXCEPT ![flying.thr] = "dead"]

\* longjmp over Java activations: what the virtual machine does then is
\* undefined, and the model stops there.
SkipsJava(i) == /\ fate = "ok"
                /\ Lands(i)
                /\ JavaInside(i)
                /\ fate' = "skipped"
                /\ UNCHANGED <<uses, frames, flying, status>>

\* No landing place: the panic function prints the message, and the process
\* exits.
Panics == /\ fate = "ok"
          /\ flying.lang = "lua"
          /\ \A i \in DOMAIN frames : ~Catches(i, flying.thr)
          /\ fate' = "panic"
          /\ UNCHANGED <<uses, frames, flying, status>>

Ended == fate # "ok" /\ UNCHANGED vars

Unwind == \/ \E i \in DOMAIN frames : \/ LandsInPcall(i)
                                      \/ LandsInCatch(i)
                                      \/ LandsInResume(i)
                                      \/ SkipsJava(i)
          \/ Panics

Next == \/ JavaCalls \/ JavaIndexes \/ JavaReturns
        \/ JavaThrows \/ JavaCatches \/ JavaLeaves
        \/ LuaCallsJava \/ LuaTries \/ LuaReturns \/ LuaRaises
        \/ \E co \in Coroutines : LuaResumes(co)
        \/ LuaYields
        \/ Unwind
        \/ Ended

Spec == Init /\ [][Next]_vars

-----------------------------------------------------------------------------
(***************************************************************************)
(* Properties.                                                             *)
(***************************************************************************)

Errors == {NoError} \union {JavaError(e) : e \in Throwables}
          \union {LuaError(v, t) : v \in ErrorValues, t \in LuaThreads}

TypeOK == /\ uses \in Uses
          /\ frames \in Seq([via : JavaVia \union LuaVia, thr : LuaThreads])
          /\ flying \in Errors
          /\ status \in [Coroutines -> {"suspended", "running", "dead"}]
          /\ fate \in {"ok", "skipped", "panic"}

\* README.md:12: a Lua error causes a Java exception and vice versa.  No
\* error ends the process or tears down Java methods behind their back.
ErrorsBecomeExceptions == fate = "ok"

\* It does so for as long as Java enters Lua by the calls that use pcall,
\* however the calls nest and whichever coroutines they come from.
ErrorsBecomeExceptionsByCalls ==
    "unprotected" \notin uses => ErrorsBecomeExceptions

\* LuaStateFactory.java:30-35: the index is used to find the right LuaState
\* when Lua calls a Java function.  The Java method works on the Lua thread
\* that called it, where its arguments are.
CallbackStack ==
    \A i \in DOMAIN frames :
        frames[i].via = "c" => frames[i].thr = frames[i - 1].thr

Resumes(co) == {i \in DOMAIN frames : frames[i] = [via |-> "resume", thr |-> co]}

\* A coroutine is resumed on the native stack exactly while it is running,
\* and only once: none is left running for ever by an error that went past
\* its resume, and none is resumed again below its own activation.
ResumedOnce ==
    fate = "ok" =>
        \A co \in Coroutines : IF status[co] = "running"
                               THEN \E i \in Resumes(co) : Resumes(co) = {i}
                               ELSE Resumes(co) = {}

\* Seen from Java the bridge is a stack of method calls: an activation ends
\* by returning or by an exception that leaves it, innermost first, and a
\* Throwable comes out of any depth of Lua as the object that went in
\* (LuaObject.call, handleThrows, handleException).
JavaActive == Cardinality({i \in DOMAIN frames : InJava(i)})
AsSeen(e) == IF e = NoError THEN "none" ELSE AsThrowable(e.what)
InFlight == AsSeen(flying)

Nested == INSTANCE NestedCalls WITH NoThrowable <- "none",
                                    active <- JavaActive,
                                    thrown <- InFlight

ImplementsNested == Nested!Init /\ [][Nested!Next]_<<JavaActive, InFlight>>
=============================================================================
