------------------------------ MODULE Monitors ------------------------------
(***************************************************************************)
(* The Java monitors of JLua and the calls that nest under them: Java      *)
(* calls Lua, Lua calls Java back, which may start threads, wait for them  *)
(* and call Lua again.  A LuaState is its own monitor, and newThread and   *)
(* toThread make more LuaStates over the same Lua state; LdoFile, a static *)
(* synchronized method, takes the monitor of the class LuaState instead;   *)
(* the methods of LuaStateFactory take that of the factory.  A monitor is  *)
(* free for the thread that already holds it.                              *)
(***************************************************************************)
EXTENDS Integers, Sequences

CONSTANTS
    Threads, Main,  \* the Java threads; Main is the one that runs at first
    States,         \* the LuaStates of newLuaState, and the Lua state of each
    Wrappers,       \* the LuaStates of newThread and toThread
    Uses,           \* the sets of Features that the application may use
    MaxDepth        \* bound: nested calls of a thread

Features == {"doFile",      \* it uses Lua.doFile
             "across",      \* Java code called from one state uses another
             "join",        \* Java code waits for a thread to end
             "newThread",   \* it uses LuaState.newThread
             "toThread",    \* it uses LuaState.toThread
             "hasty close"} \* it closes a state while other threads run

ASSUME MonitorsAssumption ==
    Main \in Threads /\ Uses \subseteq SUBSET Features /\ MaxDepth \in Nat

VARIABLES
    uses,       \* the features that this application uses
    frames,     \* frames[th]: the calls thread th is in, the innermost last
    life,       \* life[th]: new, running, ended
    state,      \* state[s]: unborn, built (by the constructor), open, closed;
                \* of a wrapper: unborn, under construction by newThread or
                \* toThread, reopened (by jlua_open), open
    over,       \* over[o]: the Lua state whose lua_State LuaState o wraps
    entry,      \* entry[o]: the LuaState that the factory's list has for o's address
    found       \* found[s]: the LuaState at the index stored in Lua state s

wraps == <<over, entry, found>>
vars == <<uses, frames, life, state, wraps>>

LuaStates == States \cup Wrappers

ClassLuaState == "class LuaState"
Factory == "class LuaStateFactory"
NoMonitor == "no monitor"
Nowhere == "nowhere"
Monitor == LuaStates \cup {ClassLuaState, Factory, NoMonitor}

\* The monitors are different objects, and a thread is not a LuaState.
ASSUME ObjectsAssumption ==
    /\ LuaStates \cap {ClassLuaState, Factory, NoMonitor, Nowhere} = {}
    /\ LuaStates \cap Threads = {} /\ States \cap Wrappers = {}

Ops == {"lua",      \* Lua code runs in state about
        "lookup",   \* LuaStateFactory.getExistingState
        "java",     \* a method of JLuaAPI, called from Lua code of state about
        "function", \* JavaFunction.execute, called from Lua code of state about
        "new",      \* LuaStateFactory.newLuaState
        "open",     \* the native methods called by the constructor of about
        "close",    \* LuaState.close
        "remove",   \* LuaStateFactory.removeLuaState
        "thread",   \* _newthread or _toThread, for the wrapper about
        "insert",   \* LuaStateFactory.insertLuaState of about
        "reopen",   \* jlua_open, called by the constructor of about
        "join"}     \* Thread.join of the thread about

\* A call of op about a state (or thread) under monitor m, held once entered.
Frame(op, m, a) == [op |-> op, monitor |-> m, about |-> a, held |-> m = NoMonitor]

TypeOK ==
    /\ uses \in Uses
    /\ frames \in [Threads -> Seq([op : Ops, monitor : Monitor,
                                   about : LuaStates \cup Threads, held : BOOLEAN])]
    /\ life \in [Threads -> {"new", "running", "ended"}]
    /\ \A th \in Threads : life[th] # "running" => frames[th] = <<>>
    /\ state \in [LuaStates -> {"unborn", "built", "open", "closed",
                                "newThread", "toThread", "reopened"}]
    /\ over \in [LuaStates -> States \cup {Nowhere}]
    /\ entry \in [LuaStates -> LuaStates]
    /\ found \in [States -> LuaStates]

Init ==
    /\ uses \in Uses
    /\ frames = [th \in Threads |-> <<>>]
    /\ life = [th \in Threads |-> IF th = Main THEN "running" ELSE "new"]
    /\ state = [o \in LuaStates |-> "unborn"]
    /\ over = [o \in LuaStates |-> IF o \in States THEN o ELSE Nowhere]
    /\ entry = [o \in LuaStates |-> o]
    /\ found = [s \in States |-> s]

-----------------------------------------------------------------------------
Idle(th) == life[th] = "running" /\ frames[th] = <<>>
Inner(th) == frames[th][Len(frames[th])]
Outer(th) == SubSeq(frames[th], 1, Len(frames[th]) - 1)

\* Thread th runs code of op, not waiting to enter it.
In(th, op) == frames[th] # <<>> /\ Inner(th).op = op /\ Inner(th).held

\* Thread th runs Java code of the application.
InJava(th) == Idle(th) \/ In(th, "java") \/ In(th, "function")

Calls(th, f) == frames' = [frames EXCEPT ![th] = Append(@, f)]
Becomes(th, f) == frames' = [frames EXCEPT ![th] = Append(Outer(th), f)]

Holds(th, m) == \E i \in 1 .. Len(frames[th]) :
    frames[th][i].monitor = m /\ frames[th][i].held

\* The threads that keep th from going on.
Blockers(th) ==
    IF frames[th] = <<>> \/ Inner(th).held THEN {}
    ELSE IF Inner(th).op = "join" THEN {u \in Threads : u = Inner(th).about /\ life[u] # "ended"}
    ELSE {u \in Threads \ {th} : Holds(u, Inner(th).monitor)}

\* The states whose Lua code is under way in th.
Under(th) == {frames[th][i].about : i \in {j \in 1 .. Len(frames[th]) : frames[th][j].op = "lua"}}

\* Java code of th may use LuaState o.
MayUse(th, o) ==
    /\ state[o] \in {"open", "closed"}
    /\ state[over[o]] = "closed" => "hasty close" \in uses
    /\ Len(frames[th]) < MaxDepth
    /\ "across" \in uses \/ Under(th) \subseteq {over[o]}

-----------------------------------------------------------------------------
\* The monitor is free, or th holds it already.
Enter(th) ==
    /\ frames[th] # <<>> /\ ~Inner(th).held /\ Blockers(th) = {}
    /\ Becomes(th, [Inner(th) EXCEPT !.held = TRUE])
    /\ UNCHANGED <<uses, life, state, wraps>>

\* Mutant: a native method that runs Lua code is not synchronized.
CallLuaUnsynchronized(th, o) ==
    /\ InJava(th) /\ MayUse(th, o)
    /\ Calls(th, Frame("lua", NoMonitor, over[o]))
    /\ UNCHANGED <<uses, life, state, wraps>>

\* LdoString, pcall, LuaObject.call, a method of a proxy: all on the LuaState.
CallLua(th, o) ==
    /\ InJava(th) /\ MayUse(th, o)
    /\ Calls(th, Frame("lua", o, over[o]))
    /\ UNCHANGED <<uses, life, state, wraps>>

\* LdoFile, on the class.
DoFile(th, o) ==
    /\ "doFile" \in uses /\ InJava(th) /\ MayUse(th, o)
    /\ Calls(th, Frame("lua", ClassLuaState, over[o]))
    /\ UNCHANGED <<uses, life, state, wraps>>

\* Lua code uses a Java object: JLuaAPI looks its LuaState up ...
CallJava(th) ==
    /\ In(th, "lua") /\ Len(frames[th]) < MaxDepth
    /\ Calls(th, Frame("lookup", Factory, Inner(th).about))
    /\ UNCHANGED <<uses, life, state, wraps>>

\* Mutant: no synchronized (L) after the lookup.
FoundUnsynchronized(th) ==
    /\ In(th, "lookup")
    /\ Becomes(th, Frame("java", NoMonitor, Inner(th).about))
    /\ UNCHANGED <<uses, life, state, wraps>>

\* ... leaves the factory, and synchronizes on what it found.
Found(th) ==
    /\ In(th, "lookup")
    /\ Becomes(th, Frame("java", found[Inner(th).about], Inner(th).about))
    /\ UNCHANGED <<uses, life, state, wraps>>

\* Lua code calls a JavaFunction, which jlua.c executes without a monitor.
CallFunction(th) ==
    /\ In(th, "lua") /\ Len(frames[th]) < MaxDepth
    /\ Calls(th, Frame("function", NoMonitor, Inner(th).about))
    /\ UNCHANGED <<uses, life, state, wraps>>

Return(th) ==
    /\ \E op \in {"lua", "java", "function", "open", "remove"} : In(th, op)
    /\ frames' = [frames EXCEPT ![th] = Outer(th)]
    /\ UNCHANGED <<uses, life, state, wraps>>

-----------------------------------------------------------------------------
(* newLuaState holds the factory while the constructor calls the native    *)
(* methods of a LuaState that no other thread knows yet.                   *)

NewLuaState(th, s) ==
    /\ Idle(th) /\ state[s] = "unborn"
    /\ \A u \in Threads : \A i \in 1 .. Len(frames[u]) : frames[u][i].about # s
    /\ Calls(th, Frame("new", Factory, s))
    /\ UNCHANGED <<uses, life, state, wraps>>

\* Mutant: the LuaState is published before it is constructed.
ConstructPublished(th) ==
    /\ In(th, "new") /\ state[Inner(th).about] = "unborn"
    /\ Calls(th, Frame("open", Inner(th).about, Inner(th).about))
    /\ state' = [state EXCEPT ![Inner(th).about] = "open"]
    /\ UNCHANGED <<uses, life, wraps>>

Construct(th) ==
    /\ In(th, "new") /\ state[Inner(th).about] = "unborn"
    /\ Calls(th, Frame("open", Inner(th).about, Inner(th).about))
    /\ state' = [state EXCEPT ![Inner(th).about] = "built"]
    /\ UNCHANGED <<uses, life, wraps>>

\* states.add and the return.
Publish(th) ==
    /\ In(th, "new") /\ state[Inner(th).about] = "built"
    /\ frames' = [frames EXCEPT ![th] = Outer(th)]
    /\ state' = [state EXCEPT ![Inner(th).about] = "open"]
    /\ UNCHANGED <<uses, life, wraps>>

-----------------------------------------------------------------------------
(* newThread and toThread on LuaState o make one more LuaState, w, over    *)
(* the same Lua state: LuaState(CPtr) enters it into the factory's list    *)
(* and runs jlua_open, which stores the index it got in the Lua state.     *)

\* Mutant: insertLuaState does not recognize the address.
NewThreadOwnEntry(th, o, w) ==
    /\ "newThread" \in uses /\ InJava(th) /\ MayUse(th, o) /\ state[w] = "unborn"
    /\ Calls(th, Frame("thread", o, w))
    /\ state' = [state EXCEPT ![w] = "newThread"]
    /\ over' = [over EXCEPT ![w] = over[o]]
    /\ UNCHANGED <<uses, life, entry, found>>

\* _newthread returns the address of o: the list has a LuaState for it.
NewThread(th, o, w) ==
    /\ "newThread" \in uses /\ InJava(th) /\ MayUse(th, o) /\ state[w] = "unborn"
    /\ Calls(th, Frame("thread", o, w))
    /\ state' = [state EXCEPT ![w] = "newThread"]
    /\ over' = [over EXCEPT ![w] = over[o]]
    /\ entry' = [entry EXCEPT ![w] = entry[o]]
    /\ UNCHANGED <<uses, life, found>>

\* The LuaStates over s that Java code may have.
Known(s) == {v \in LuaStates : state[v] = "open" /\ over[v] = s}

\* _toThread returns that of a coroutine, which the list has, or of the main
\* thread, or one that the list does not have.
ToThread(th, o, w) ==
    /\ "toThread" \in uses /\ InJava(th) /\ MayUse(th, o) /\ state[w] = "unborn"
    /\ Calls(th, Frame("thread", o, w))
    /\ state' = [state EXCEPT ![w] = "toThread"]
    /\ over' = [over EXCEPT ![w] = over[o]]
    /\ \E e \in {w} \cup {entry[v] : v \in Known(over[o])} : entry' = [entry EXCEPT ![w] = e]
    /\ UNCHANGED <<uses, life, found>>

Insert(th) ==
    /\ In(th, "thread")
    /\ Becomes(th, Frame("insert", Factory, Inner(th).about))
    /\ UNCHANGED <<uses, life, state, wraps>>

\* List.set does not append: without a hole, an address that is not in the
\* list ends in an exception, and w is nobody's.
InsertThrows(th) ==
    /\ In(th, "insert") /\ state[Inner(th).about] = "toThread"
    /\ entry[Inner(th).about] = Inner(th).about
    /\ frames' = [frames EXCEPT ![th] = Outer(th)]
    /\ UNCHANGED <<uses, life, state, wraps>>

Reopen(th) ==
    /\ In(th, "insert") /\ state[Inner(th).about] \in {"newThread", "toThread"}
    /\ Becomes(th, Frame("reopen", Inner(th).about, Inner(th).about))
    /\ UNCHANGED <<uses, life, state, wraps>>

\* toThread returns; newThread inserts w once more.
Reopened(th) ==
    LET w == Inner(th).about
    IN  /\ In(th, "reopen")
        /\ found' = [found EXCEPT ![over[w]] = entry[w]]
        /\ \/ /\ state[w] = "toThread"
              /\ state' = [state EXCEPT ![w] = "open"]
              /\ frames' = [frames EXCEPT ![th] = Outer(th)]
           \/ /\ state[w] = "newThread"
              /\ state' = [state EXCEPT ![w] = "reopened"]
              /\ Becomes(th, Frame("insert", Factory, w))
        /\ UNCHANGED <<uses, life, over, entry>>

Inserted(th) ==
    /\ In(th, "insert") /\ state[Inner(th).about] = "reopened"
    /\ frames' = [frames EXCEPT ![th] = Outer(th)]
    /\ state' = [state EXCEPT ![Inner(th).about] = "open"]
    /\ UNCHANGED <<uses, life, wraps>>

-----------------------------------------------------------------------------
(* Lua.release: LuaState.close, from the outermost level. *)

Close(th, s) ==
    /\ Idle(th) /\ state[s] = "open"
    /\ "hasty close" \in uses \/ \A u \in Threads \ {th} : life[u] # "running"
    /\ \A u \in Threads : \A i \in 1 .. Len(frames[u]) : frames[u][i].op # "close"
    /\ Calls(th, Frame("close", s, s))
    /\ UNCHANGED <<uses, life, state, wraps>>

CloseRemove(th) ==
    /\ In(th, "close") /\ state[Inner(th).about] = "open"
    /\ Calls(th, Frame("remove", Factory, Inner(th).about))
    /\ state' = [state EXCEPT ![Inner(th).about] = "closed"]
    /\ UNCHANGED <<uses, life, wraps>>

CloseReturn(th) ==
    /\ In(th, "close") /\ state[Inner(th).about] = "closed"
    /\ frames' = [frames EXCEPT ![th] = Outer(th)]
    /\ UNCHANGED <<uses, life, state, wraps>>

-----------------------------------------------------------------------------
\* thread:start(), called from Lua or from Java.
StartThread(th, u) ==
    /\ InJava(th) /\ life[u] = "new"
    /\ life' = [life EXCEPT ![u] = "running"]
    /\ UNCHANGED <<uses, frames, state, wraps>>

EndThread(u) ==
    /\ Idle(u) /\ u # Main
    /\ life' = [life EXCEPT ![u] = "ended"]
    /\ UNCHANGED <<uses, frames, state, wraps>>

\* thread:join(); Enter is its return.
Join(th, u) ==
    /\ "join" \in uses /\ InJava(th) /\ u # th /\ life[u] # "new"
    /\ Len(frames[th]) < MaxDepth
    /\ Calls(th, [Frame("join", NoMonitor, u) EXCEPT !.held = FALSE])
    /\ UNCHANGED <<uses, life, state, wraps>>

JoinReturn(th) ==
    /\ In(th, "join")
    /\ frames' = [frames EXCEPT ![th] = Outer(th)]
    /\ UNCHANGED <<uses, life, state, wraps>>

Next ==
    \E th \in Threads :
        \/ Enter(th) \/ CallJava(th) \/ Found(th) \/ CallFunction(th) \/ Return(th)
        \/ Construct(th) \/ Publish(th) \/ CloseRemove(th) \/ CloseReturn(th)
        \/ Insert(th) \/ InsertThrows(th) \/ Reopen(th) \/ Reopened(th) \/ Inserted(th)
        \/ EndThread(th) \/ JoinReturn(th)
        \/ \E s \in States : NewLuaState(th, s) \/ Close(th, s)
        \/ \E o \in LuaStates : CallLua(th, o) \/ DoFile(th, o)
        \/ \E o \in LuaStates, w \in Wrappers : NewThread(th, o, w) \/ ToThread(th, o, w)
        \/ \E u \in Threads : StartThread(th, u) \/ Join(th, u)

Spec == Init /\ [][Next]_vars

-----------------------------------------------------------------------------
\* The threads that are somewhere inside op of state s.
Inside(op, s) == {th \in Threads : \E i \in 1 .. Len(frames[th]) :
    frames[th][i].op = op /\ frames[th][i].about = s /\ frames[th][i].held}

(***************************************************************************)
(* README.md: "Fixed some multithreading issues."  Two threads never run   *)
(* Lua code of one state at the same time, nested calls included.          *)
(***************************************************************************)
OneInLua == \A s \in States : \A th, u \in Inside("lua", s) : th = u

(***************************************************************************)
(* They do not as long as a Lua state has one LuaState and nobody uses     *)
(* LdoFile: newThread and toThread make another LuaState, with a monitor   *)
(* of its own, over the same Lua state, and LdoFile takes the class's.     *)
(***************************************************************************)
OneInLuaByCalls == uses \cap {"doFile", "newThread", "toThread"} = {} => OneInLua

(***************************************************************************)
(* Two threads never run, in JLuaAPI, Java code called from one state,     *)
(* even where LdoFile or a LuaState of newThread has let both into Lua:    *)
(* the lookup finds one LuaState for all, until toThread, which may store  *)
(* the index of another one.                                               *)
(***************************************************************************)
JavaSerialized ==
    "toThread" \notin uses => \A s \in States : \A th, u \in Inside("java", s) : th = u

(***************************************************************************)
(* No set of threads waits for itself.                                     *)
(***************************************************************************)
NoDeadlock == \A D \in (SUBSET Threads) \ {{}} :
    \E th \in D : Blockers(th) \cap D = {}

(***************************************************************************)
(* JLua adds no deadlock of its own: threads that each use one state at a  *)
(* time, by its one LuaState and without LdoFile, and do not join each     *)
(* other never wait in a ring.                                             *)
(***************************************************************************)
NoDeadlockByCalls == uses \subseteq {"hasty close"} => NoDeadlock

(***************************************************************************)
(* Console.java, "an example on how to ... startup a JLua application",    *)
(* runs files and releases the state, while the threads that the examples  *)
(* of README.md start run Lua code of it: no Lua code starts in a state    *)
(* that was closed.                                                        *)
(***************************************************************************)
NoLuaAfterClose ==
    [][\A s \in States : \A th \in Threads :
          /\ state[s] = "closed" /\ th \notin Inside("lua", s)
          => th \notin Inside("lua", s)']_vars
=============================================================================
