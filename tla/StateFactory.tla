---------------------------- MODULE StateFactory ----------------------------
(***************************************************************************)
(* LuaStateFactory and the life of a LuaState: how a lua_State gets a slot *)
(* in the list LuaStateFactory.states, stores the slot's index in its own  *)
(* registry (JLuaStateIndex), and is found again by that index when Lua    *)
(* calls Java.  Each method of the factory is synchronized on its class,   *)
(* so it is one step; what LuaState does between two of them is not.       *)
(*                                                                         *)
(* Two things the application decides are parameters.  It uses one Lua     *)
(* state from one thread at a time, and closes only the LuaStates that     *)
(* newLuaState gave it.                                                    *)
(***************************************************************************)
EXTENDS Integers

CONSTANTS
    Wrappers,   \* the LuaState instances
    Ptrs,       \* the addresses at which a lua_State may be allocated
    Null,       \* the Java null, the C NULL
    Shifting,   \* may a state be created while a lower slot than an open state's is free?
    Coroutines  \* is LuaState.toThread used?

ASSUME NullAssumption == Null \notin Wrappers /\ Null \notin Ptrs /\ Null \notin Int
ASSUME UseAssumption == Shifting \in BOOLEAN /\ Coroutines \in BOOLEAN

VARIABLES
    size, states,   \* LuaStateFactory.states: states[i] for i in 0 .. size - 1
    pc,             \* pc[w]: how far the construction or the closing of w is
    kind,           \* kind[w]: the method that made w
    luaState,       \* luaState[w]: LuaState.luaState, the address it wraps
    stateId,        \* stateId[w]: LuaState.stateId
    main,           \* main[p]: the main thread of the lua_State at p; Null if p is free
    reg             \* reg[p]: JLuaStateIndex in the registry of main thread p

factory == <<size, states>>
java == <<pc, kind, luaState, stateId>>
lua == <<main, reg>>
vars == <<factory, java, lua>>

Stages == {"unborn", "insert", "reopen", "reinsert", "open", "failed",
           "removed", "freed", "closed", "orphan"}
Kinds == {"newLuaState", "newThread", "toThread"}

TypeOK ==
    /\ size \in Nat
    /\ states \in [0 .. size - 1 -> Wrappers \cup {Null}]
    /\ pc \in [Wrappers -> Stages]
    /\ kind \in [Wrappers -> Kinds]
    /\ luaState \in [Wrappers -> Ptrs \cup {Null}]
    /\ \A w \in Wrappers : luaState[w] = Null <=> pc[w] \in {"unborn", "closed"}
    /\ stateId \in [Wrappers -> Nat]
    /\ main \in [Ptrs -> Ptrs \cup {Null}]
    /\ reg \in [Ptrs -> Nat]

Init ==
    /\ size = 0
    /\ states = [i \in 0 .. -1 |-> Null]
    /\ pc = [w \in Wrappers |-> "unborn"]
    /\ kind = [w \in Wrappers |-> "newLuaState"]
    /\ luaState = [w \in Wrappers |-> Null]
    /\ stateId = [w \in Wrappers |-> 0]
    /\ main = [p \in Ptrs |-> Null]
    /\ reg = [p \in Ptrs |-> 0]

-----------------------------------------------------------------------------
\* getNextStateIndex: the first null entry, else the size of the list.
NextStateIndex(i) ==
    /\ i \in 0 .. size
    /\ i < size => states[i] = Null
    /\ \A j \in 0 .. i - 1 : states[j] # Null

\* List.add(i, w) shifts the entries from i on.
AddAt(i, w) ==
    /\ size' = size + 1
    /\ states' = [j \in 0 .. size |-> IF j < i THEN states[j]
                                      ELSE IF j = i THEN w ELSE states[j - 1]]

\* Entry i of the list has the peer of w (LuaState.getCPtrPeer of both).
SamePeer(i, w) == states[i] # Null /\ luaState[states[i]] = luaState[w]

\* The entry insertLuaState finds: the first one with the same peer.
FoundAt(i, w) == /\ i \in 0 .. size - 1 /\ SamePeer(i, w)
                 /\ \A j \in 0 .. i - 1 : ~SamePeer(j, w)

\* insertLuaState(w) returns i: a match, or a hole that w now fills.
InsertReturns(w, i) ==
    \/ FoundAt(i, w) /\ UNCHANGED factory
    \/ /\ \A j \in 0 .. size - 1 : ~SamePeer(j, w)
       /\ NextStateIndex(i) /\ i < size
       /\ states' = [states EXCEPT ![i] = w]
       /\ UNCHANGED size

\* insertLuaState(w) throws: no match, and List.set does not append.
InsertThrows(w) == /\ \A j \in 0 .. size - 1 : ~SamePeer(j, w)
                   /\ NextStateIndex(size)
                   /\ UNCHANGED factory

-----------------------------------------------------------------------------
(* LuaStateFactory.newLuaState, all of it under the monitor of the class. *)

NewLuaState(w) ==
    /\ pc[w] = "unborn"
    /\ \E i \in 0 .. size, p \in Ptrs :
          /\ NextStateIndex(i)
          /\ Shifting \/ \A j \in i .. size - 1 : states[j] = Null
          /\ main[p] = Null
          /\ AddAt(i, w)
          /\ luaState' = [luaState EXCEPT ![w] = p]
          /\ stateId' = [stateId EXCEPT ![w] = i]
          /\ main' = [main EXCEPT ![p] = p]
          /\ reg' = [reg EXCEPT ![p] = i]
    /\ pc' = [pc EXCEPT ![w] = "open"]
    /\ kind' = [kind EXCEPT ![w] = "newLuaState"]

-----------------------------------------------------------------------------
(* LuaState.newThread and LuaState.toThread on v, which make the wrapper w *)
(* by LuaState(CPtr).                                                      *)

\* close has taken the slot of p away but lua_close has not freed it yet.
Closing(p) == \E w \in Wrappers : pc[w] = "removed" /\ luaState[w] = p

\* v can be called: built, and its Lua state neither closed nor being closed.
Usable(v) == pc[v] = "open" /\ ~Closing(main[luaState[v]])

\* No wrapper of the Lua state of v is under construction (one thread per state).
Quiet(v) == \A u \in Wrappers :
    pc[u] \in {"insert", "reopen", "reinsert"} => main[luaState[u]] # main[luaState[v]]

\* Mutant: _newthread returns the address of the coroutine.
NewThreadOwnPeer(v, w) ==
    /\ Usable(v) /\ Quiet(v) /\ pc[w] = "unborn"
    /\ \E p \in Ptrs : /\ main[p] = Null
                       /\ main' = [main EXCEPT ![p] = main[luaState[v]]]
                       /\ luaState' = [luaState EXCEPT ![w] = p]
    /\ pc' = [pc EXCEPT ![w] = "insert"]
    /\ kind' = [kind EXCEPT ![w] = "newThread"]
    /\ UNCHANGED <<factory, stateId, reg>>

\* _newthread allocates a coroutine but returns the address it was given.
NewThread(v, w) ==
    /\ Usable(v) /\ Quiet(v) /\ pc[w] = "unborn"
    /\ \E p \in Ptrs : /\ main[p] = Null
                       /\ main' = [main EXCEPT ![p] = main[luaState[v]]]
    /\ pc' = [pc EXCEPT ![w] = "insert"]
    /\ kind' = [kind EXCEPT ![w] = "newThread"]
    /\ luaState' = [luaState EXCEPT ![w] = luaState[v]]
    /\ UNCHANGED <<factory, stateId, reg>>

\* _toThread returns the address of a thread that is on the stack of v.
ToThread(v, w) ==
    /\ Coroutines /\ Usable(v) /\ Quiet(v) /\ pc[w] = "unborn"
    /\ \E p \in Ptrs : /\ main[p] = main[luaState[v]]
                       /\ luaState' = [luaState EXCEPT ![w] = p]
    /\ pc' = [pc EXCEPT ![w] = "insert"]
    /\ kind' = [kind EXCEPT ![w] = "toThread"]
    /\ UNCHANGED <<factory, stateId, lua>>

\* The constructor's call of insertLuaState.
Insert(w) ==
    /\ pc[w] = "insert"
    /\ \/ \E i \in 0 .. size - 1 : /\ InsertReturns(w, i)
                                   /\ stateId' = [stateId EXCEPT ![w] = i]
                                   /\ pc' = [pc EXCEPT ![w] = "reopen"]
       \/ /\ InsertThrows(w)
          /\ pc' = [pc EXCEPT ![w] = "failed"]
          /\ UNCHANGED stateId
    /\ UNCHANGED <<kind, luaState, lua>>

\* Mutant: the constructor calls jlua_open before it sets its stateId.
JluaOpenEarly(w) ==
    /\ pc[w] = "reopen"
    /\ reg' = [reg EXCEPT ![main[luaState[w]]] = 0]
    /\ pc' = [pc EXCEPT ![w] = IF kind[w] = "newThread" THEN "reinsert" ELSE "open"]
    /\ UNCHANGED <<factory, kind, luaState, stateId, main>>

\* The constructor's call of jlua_open, which writes the shared registry.
JluaOpen(w) ==
    /\ pc[w] = "reopen"
    /\ reg' = [reg EXCEPT ![main[luaState[w]]] = stateId[w]]
    /\ pc' = [pc EXCEPT ![w] = IF kind[w] = "newThread" THEN "reinsert" ELSE "open"]
    /\ UNCHANGED <<factory, kind, luaState, stateId, main>>

\* newThread calls insertLuaState again and drops what it returns.
Reinsert(w) ==
    /\ pc[w] = "reinsert"
    /\ \/ /\ \E i \in 0 .. size - 1 : InsertReturns(w, i)
          /\ pc' = [pc EXCEPT ![w] = "open"]
       \/ /\ InsertThrows(w)
          /\ pc' = [pc EXCEPT ![w] = "failed"]
    /\ UNCHANGED <<kind, luaState, stateId, lua>>

-----------------------------------------------------------------------------
(* LuaState.close, under the monitor of w. *)

\* Mutant: List.remove(i) for List.set(i, null).
CloseShrink(w) ==
    /\ pc[w] = "open" /\ kind[w] = "newLuaState" /\ Quiet(w)
    /\ size' = size - 1
    /\ states' = [j \in 0 .. size - 2 |-> IF j < stateId[w] THEN states[j] ELSE states[j + 1]]
    /\ pc' = [pc EXCEPT ![w] = "removed"]
    /\ UNCHANGED <<kind, luaState, stateId, lua>>

CloseRemove(w) ==
    /\ pc[w] = "open" /\ kind[w] = "newLuaState" /\ Quiet(w)
    /\ states' = [states EXCEPT ![stateId[w]] = Null]
    /\ pc' = [pc EXCEPT ![w] = "removed"]
    /\ UNCHANGED <<size, kind, luaState, stateId, lua>>

\* lua_close frees the main thread and every coroutine, under the feet of
\* the other wrappers of the state.
CloseFree(w) ==
    /\ pc[w] = "removed"
    /\ main' = [p \in Ptrs |-> IF main[p] = main[luaState[w]] THEN Null ELSE main[p]]
    /\ pc' = [v \in Wrappers |->
                 IF v = w THEN "freed"
                 ELSE IF pc[v] = "open" /\ main[luaState[v]] = main[luaState[w]] THEN "orphan"
                 ELSE pc[v]]
    /\ UNCHANGED <<factory, kind, luaState, stateId, reg>>

CloseNull(w) ==
    /\ pc[w] = "freed"
    /\ luaState' = [luaState EXCEPT ![w] = Null]
    /\ pc' = [pc EXCEPT ![w] = "closed"]
    /\ UNCHANGED <<factory, kind, stateId, lua>>

Next ==
    \/ \E w \in Wrappers : \/ NewLuaState(w)
                           \/ Insert(w) \/ JluaOpen(w) \/ Reinsert(w)
                           \/ CloseRemove(w) \/ CloseFree(w) \/ CloseNull(w)
    \/ \E v, w \in Wrappers : NewThread(v, w) \/ ToThread(v, w)

Spec == Init /\ [][Next]_vars

-----------------------------------------------------------------------------
\* The main threads of the Lua states that exist.
Mains == {p \in Ptrs : main[p] = p}

\* getExistingState, called back from the Lua state p, returns a LuaState of p.
Resolves(p) == /\ reg[p] \in 0 .. size - 1
               /\ states[reg[p]] # Null
               /\ luaState[states[reg[p]]] = p

\* No coroutine has got a LuaState of its own.
NoToThread == \A w \in Wrappers : kind[w] # "toThread"

(***************************************************************************)
(* Called back from an open Lua state, JLuaAPI gets a LuaState with the    *)
(* same lua_State: neither null nor another's.  True until toThread is     *)
(* used, as long as no state is created below an open one.                 *)
(***************************************************************************)
RightState == NoToThread => \A p \in Mains : ~Closing(p) => Resolves(p)

(***************************************************************************)
(* A wrapper that newThread makes shares the slot of the state it was made *)
(* from: neither of the two calls of insertLuaState throws or claims a     *)
(* slot of its own, whatever other threads create and close meanwhile.     *)
(***************************************************************************)
ThreadsAdopted == NoToThread =>
    \A w \in Wrappers : kind[w] = "newThread" =>
        /\ pc[w] # "failed"
        /\ pc[w] \in {"reopen", "reinsert"} =>
              stateId[w] = reg[luaState[w]] /\ Resolves(luaState[w])
        /\ \A i \in 0 .. size - 1 : states[i] # w

-----------------------------------------------------------------------------
(* Why RightState holds when no open state is ever shifted.  Owners are    *)
(* the LuaStates of newLuaState from creation to lua_close.                *)

Owner(w) == kind[w] = "newLuaState" /\ pc[w] \in {"open", "removed"}
Listed(w) == kind[w] = "newLuaState" /\ pc[w] = "open"
Building(w) == pc[w] \in {"insert", "reopen", "reinsert"}

\* The list holds the open owners, each at its own stateId.
SlotsOwned ==
    /\ \A i \in 0 .. size - 1 : states[i] # Null => Listed(states[i]) /\ stateId[states[i]] = i
    /\ \A w \in Wrappers : Listed(w) => /\ stateId[w] \in 0 .. size - 1
                                        /\ states[stateId[w]] = w
                                        /\ reg[luaState[w]] = stateId[w]

\* Every Lua state has one owner.
StatesOwned ==
    /\ \A w \in Wrappers : Owner(w) => luaState[w] \in Mains
    /\ \A v, w \in Wrappers : Owner(v) /\ Owner(w) /\ luaState[v] = luaState[w] => v = w
    /\ \A p \in Mains : \E w \in Wrappers : Owner(w) /\ luaState[w] = p
    /\ \A p \in Ptrs : main[p] # Null => main[p] \in Mains

\* A wrapper under construction shares the address and the slot of a listed owner.
BuildersShare ==
    \A w \in Wrappers : Building(w) =>
        /\ kind[w] = "newThread"
        /\ \E v \in Wrappers : /\ Listed(v) /\ luaState[v] = luaState[w]
                               /\ pc[w] # "insert" => stateId[w] = stateId[v]

\* newThread makes the other wrappers, and none of them is ever refused.
AliasesShare ==
    \A w \in Wrappers :
        /\ kind[w] # "toThread"
        /\ pc[w] = "unborn" => kind[w] = "newLuaState"
        /\ kind[w] = "newThread" => Building(w) \/ pc[w] \in {"open", "orphan"}
        /\ pc[w] = "open" => luaState[w] \in Mains

(***************************************************************************)
(* The factory's list, the Lua states and the wrappers agree: the open     *)
(* states are listed under the index they registered, once each, and every *)
(* wrapper newThread makes stands for one of them.                         *)
(***************************************************************************)
Agreement == SlotsOwned /\ StatesOwned /\ BuildersShare /\ AliasesShare

-----------------------------------------------------------------------------
(***************************************************************************)
(* However states are created, wrapped and closed, the index a Lua state   *)
(* registered stays within the list: getExistingState may return the wrong *)
(* entry but does not throw.                                               *)
(***************************************************************************)
IdsInRange == \A p \in Mains : reg[p] \in 0 .. size - 1

(***************************************************************************)
(* LuaState.java: isClosed "Returns true if state is closed."  It does so  *)
(* for every LuaState of the state, not only the one that was closed.      *)
(***************************************************************************)
ClosedIsKnown == \A w \in Wrappers : pc[w] = "orphan" => luaState[w] = Null

(***************************************************************************)
(* LuaStateFactory.insertLuaState: "If it doesn't exist adds it to the     *)
(* list."                                                                  *)
(***************************************************************************)
InsertAdds == \A w \in Wrappers : pc[w] # "failed"

(***************************************************************************)
(* LuaStateFactory: the index "is used to find the right LuaState when lua *)
(* calls a Java Function", also for the Lua finalizers that lua_close      *)
(* runs: they never get the LuaState of another Lua state.                 *)
(***************************************************************************)
NeverAnother == \A p \in Mains : \/ states[reg[p]] = Null
                                 \/ luaState[states[reg[p]]] = p
=============================================================================
