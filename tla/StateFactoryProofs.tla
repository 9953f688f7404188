------------------------- MODULE StateFactoryProofs -------------------------
(***************************************************************************)
(* Proofs about StateFactory, for any number of LuaStates and addresses:   *)
(* while no open state is shifted and toThread is not used, Lua calls back *)
(* into the right LuaState.                                                *)
(*                                                                         *)
(* RightState speaks of one index; that it survives a step needs to know   *)
(* who owns every slot and every lua_State, which Agreement states.        *)
(***************************************************************************)
EXTENDS StateFactory, TLAPS

IInv == TypeOK /\ Agreement

USE NullAssumption

(* The empty list has the right type. *)
LEMMA TypeInit == Init => TypeOK
BY DEF Init, TypeOK, Stages, Kinds

(***************************************************************************)
(* The list keeps its shape.                                               *)
(***************************************************************************)
LEMMA AddAtType ==
    ASSUME TypeOK, NEW i \in 0 .. size, NEW w \in Wrappers, AddAt(i, w)
    PROVE  size' \in Nat /\ states' \in [0 .. size' - 1 -> Wrappers \cup {Null}]
<1>1. size' = size + 1 /\ size \in Nat /\ 0 .. size' - 1 = 0 .. size
    BY DEF TypeOK, AddAt
<1>2. \A j \in 0 .. size : j > i => j - 1 \in 0 .. size - 1
    BY <1>1
<1>3. \A j \in 0 .. size : j < i => j \in 0 .. size - 1
    BY <1>1
<1>4. \A j \in 0 .. size :
        (IF j < i THEN states[j] ELSE IF j = i THEN w ELSE states[j - 1]) \in Wrappers \cup {Null}
    BY <1>2, <1>3 DEF TypeOK
<1>5. states' = [j \in 0 .. size |-> IF j < i THEN states[j]
                                     ELSE IF j = i THEN w ELSE states[j - 1]]
    BY DEF AddAt
<1> HIDE DEF AddAt
<1> QED BY <1>1, <1>4, <1>5

(* insertLuaState returns an index of the list. *)
LEMMA InsertType ==
    ASSUME TypeOK, NEW w \in Wrappers,
           \/ \E i \in 0 .. size - 1 : InsertReturns(w, i)
           \/ InsertThrows(w)
    PROVE  size' \in Nat /\ states' \in [0 .. size' - 1 -> Wrappers \cup {Null}]
BY DEF TypeOK, InsertReturns, InsertThrows, factory

(* Every method keeps the types, whatever the application does. *)
LEMMA TypeStep == TypeOK /\ [Next]_vars => TypeOK'
<1> SUFFICES ASSUME TypeOK, [Next]_vars PROVE TypeOK'
    OBVIOUS
<1> USE DEF Stages, Kinds
<1>1. ASSUME NEW w \in Wrappers, NewLuaState(w) PROVE TypeOK'
    <2>1. PICK i \in 0 .. size, p \in Ptrs :
              /\ AddAt(i, w)
              /\ luaState' = [luaState EXCEPT ![w] = p]
              /\ stateId' = [stateId EXCEPT ![w] = i]
              /\ main' = [main EXCEPT ![p] = p]
              /\ reg' = [reg EXCEPT ![p] = i]
        BY <1>1 DEF NewLuaState
    <2>2. i \in Nat
        BY DEF TypeOK
    <2>3. size' \in Nat /\ states' \in [0 .. size' - 1 -> Wrappers \cup {Null}]
        BY <2>1, AddAtType
    <2>4. /\ luaState' \in [Wrappers -> Ptrs \cup {Null}] /\ stateId' \in [Wrappers -> Nat]
          /\ main' \in [Ptrs -> Ptrs \cup {Null}] /\ reg' \in [Ptrs -> Nat]
        BY <2>1, <2>2 DEF TypeOK
    <2>5. pc' \in [Wrappers -> Stages] /\ kind' \in [Wrappers -> Kinds]
        BY <1>1 DEF TypeOK, NewLuaState
    <2>6. \A u \in Wrappers : luaState'[u] = Null <=> pc'[u] \in {"unborn", "closed"}
        BY <1>1, <2>1 DEF TypeOK, NewLuaState
    <2> QED BY <2>3, <2>4, <2>5, <2>6 DEF TypeOK
<1>2. ASSUME NEW w \in Wrappers, Insert(w) PROVE TypeOK'
    <2>1. size' \in Nat /\ states' \in [0 .. size' - 1 -> Wrappers \cup {Null}]
        BY <1>2, InsertType DEF Insert
    <2>2. stateId' \in [Wrappers -> Nat] /\ pc' \in [Wrappers -> Stages]
        <3>1. CASE \E i \in 0 .. size - 1 : /\ stateId' = [stateId EXCEPT ![w] = i]
                                            /\ pc' = [pc EXCEPT ![w] = "reopen"]
            BY <3>1 DEF TypeOK
        <3>2. CASE UNCHANGED stateId /\ pc' = [pc EXCEPT ![w] = "failed"]
            BY <3>2 DEF TypeOK
        <3> QED BY <1>2, <3>1, <3>2 DEF Insert
    <2> QED BY <1>2, <2>1, <2>2 DEF TypeOK, Insert, lua
<1>3. ASSUME NEW w \in Wrappers, JluaOpen(w) PROVE TypeOK'
    BY <1>3 DEF TypeOK, JluaOpen, factory
<1>4. ASSUME NEW w \in Wrappers, Reinsert(w) PROVE TypeOK'
    <2>1. size' \in Nat /\ states' \in [0 .. size' - 1 -> Wrappers \cup {Null}]
        BY <1>4, InsertType DEF Reinsert
    <2> QED BY <1>4, <2>1 DEF TypeOK, Reinsert, lua
<1>5. ASSUME NEW w \in Wrappers, CloseRemove(w) PROVE TypeOK'
    BY <1>5 DEF TypeOK, CloseRemove, lua
<1>6. ASSUME NEW w \in Wrappers, CloseFree(w) PROVE TypeOK'
    <2>1. main' \in [Ptrs -> Ptrs \cup {Null}]
        BY <1>6 DEF TypeOK, CloseFree
    <2>2. pc' \in [Wrappers -> Stages]
        BY <1>6 DEF TypeOK, CloseFree
    <2> QED BY <1>6, <2>1, <2>2 DEF TypeOK, CloseFree, factory
<1>7. ASSUME NEW w \in Wrappers, CloseNull(w) PROVE TypeOK'
    BY <1>7 DEF TypeOK, CloseNull, factory, lua
<1>8. ASSUME NEW v \in Wrappers, NEW w \in Wrappers, NewThread(v, w) PROVE TypeOK'
    <2>1. luaState[v] \in Ptrs
        BY <1>8 DEF TypeOK, NewThread, Usable
    <2>2. main' \in [Ptrs -> Ptrs \cup {Null}]
        BY <1>8, <2>1 DEF TypeOK, NewThread
    <2>3. pc' \in [Wrappers -> Stages] /\ kind' \in [Wrappers -> Kinds]
        BY <1>8 DEF TypeOK, NewThread
    <2>4. /\ luaState' \in [Wrappers -> Ptrs \cup {Null}]
          /\ \A u \in Wrappers : luaState'[u] = Null <=> pc'[u] \in {"unborn", "closed"}
        BY <1>8, <2>1 DEF TypeOK, NewThread
    <2> QED BY <1>8, <2>2, <2>3, <2>4 DEF TypeOK, NewThread, factory
<1>9. ASSUME NEW v \in Wrappers, NEW w \in Wrappers, ToThread(v, w) PROVE TypeOK'
    <2>1. luaState' \in [Wrappers -> Ptrs \cup {Null}]
        BY <1>9 DEF TypeOK, ToThread
    <2> QED BY <1>9, <2>1 DEF TypeOK, ToThread, factory, lua
<1>10. ASSUME UNCHANGED vars PROVE TypeOK'
    BY <1>10 DEF TypeOK, vars, factory, java, lua
<1> QED
    BY <1>1, <1>2, <1>3, <1>4, <1>5, <1>6, <1>7, <1>8, <1>9, <1>10 DEF Next

-----------------------------------------------------------------------------
(***************************************************************************)
(* IdsInRange, with shifting and toThread allowed: the list never shrinks, *)
(* and every index that is stored, or about to be, was one of the list's.  *)
(***************************************************************************)
Bounded ==
    /\ \A p \in Ptrs : reg[p] < size \/ reg[p] = 0
    /\ \A w \in Wrappers : pc[w] # "unborn" => size > 0
    /\ \A w \in Wrappers : pc[w] = "reopen" => stateId[w] < size
    /\ \A p \in Ptrs : main[p] # Null => size > 0

(* A new state makes the list longer, and takes an index of the new list. *)
LEMMA CreateBounded ==
    ASSUME TypeOK, Bounded, NEW w \in Wrappers, NewLuaState(w)
    PROVE  Bounded'
<1>1. PICK i \in 0 .. size, p \in Ptrs :
          /\ size' = size + 1
          /\ stateId' = [stateId EXCEPT ![w] = i]
          /\ reg' = [reg EXCEPT ![p] = i]
          /\ pc' = [pc EXCEPT ![w] = "open"]
    BY DEF NewLuaState, AddAt
<1>2. size \in Nat /\ size' \in Nat /\ size' > 0 /\ i < size'
    BY <1>1 DEF TypeOK
<1>3. ASSUME NEW q \in Ptrs PROVE reg'[q] < size' \/ reg'[q] = 0
    BY <1>1, <1>2 DEF TypeOK, Bounded
<1>4. ASSUME NEW u \in Wrappers, pc'[u] = "reopen" PROVE stateId'[u] < size'
    BY <1>1, <1>2, <1>4 DEF TypeOK, Bounded
<1> QED BY <1>2, <1>3, <1>4 DEF Bounded

(* The constructor of another wrapper stores an index of the list.  *)
LEMMA InsertBounded ==
    ASSUME TypeOK, Bounded, NEW w \in Wrappers, Insert(w)
    PROVE  Bounded'
<1>1. size' = size /\ reg' = reg /\ main' = main
    BY DEF Insert, InsertReturns, InsertThrows, factory, lua
<1>2. CASE \E i \in 0 .. size - 1 : /\ stateId' = [stateId EXCEPT ![w] = i]
                                    /\ pc' = [pc EXCEPT ![w] = "reopen"]
    BY <1>1, <1>2 DEF TypeOK, Bounded
<1>3. CASE pc[w] = "insert" /\ pc' = [pc EXCEPT ![w] = "failed"] /\ UNCHANGED stateId
    BY <1>1, <1>3 DEF TypeOK, Bounded
<1> QED BY <1>2, <1>3 DEF Insert

(* Every step keeps the stored indices within the list.  *)
LEMMA BoundedStep == TypeOK /\ Bounded /\ [Next]_vars => Bounded'
<1> SUFFICES ASSUME TypeOK, Bounded, [Next]_vars PROVE Bounded'
    OBVIOUS
<1>1. ASSUME NEW w \in Wrappers, NewLuaState(w) PROVE Bounded'
    BY <1>1, CreateBounded
<1>2. ASSUME NEW w \in Wrappers, Insert(w) PROVE Bounded'
    BY <1>2, InsertBounded
<1>3. ASSUME NEW w \in Wrappers, JluaOpen(w) PROVE Bounded'
    BY <1>3 DEF TypeOK, Bounded, JluaOpen, factory
<1>4. ASSUME NEW w \in Wrappers, Reinsert(w) PROVE Bounded'
    <2>1. size' = size
        BY <1>4 DEF Reinsert, InsertReturns, InsertThrows, factory
    <2> QED BY <1>4, <2>1 DEF TypeOK, Bounded, Reinsert, lua
<1>5. ASSUME NEW w \in Wrappers, CloseRemove(w) PROVE Bounded'
    BY <1>5 DEF TypeOK, Bounded, CloseRemove, lua
<1>6. ASSUME NEW w \in Wrappers, CloseFree(w) PROVE Bounded'
    BY <1>6 DEF TypeOK, Bounded, CloseFree, factory
<1>7. ASSUME NEW w \in Wrappers, CloseNull(w) PROVE Bounded'
    BY <1>7 DEF TypeOK, Bounded, CloseNull, factory, lua
<1>8. ASSUME NEW v \in Wrappers, NEW w \in Wrappers, NewThread(v, w) PROVE Bounded'
    <2>1. size > 0
        BY <1>8 DEF Bounded, NewThread, Usable
    <2> QED BY <1>8, <2>1 DEF TypeOK, Bounded, NewThread, factory
<1>9. ASSUME NEW v \in Wrappers, NEW w \in Wrappers, ToThread(v, w) PROVE Bounded'
    BY <1>9 DEF TypeOK, Bounded, ToThread, Usable, factory, lua
<1>10. ASSUME UNCHANGED vars PROVE Bounded'
    BY <1>10 DEF Bounded, vars, factory, java, lua
<1> QED
    BY <1>1, <1>2, <1>3, <1>4, <1>5, <1>6, <1>7, <1>8, <1>9, <1>10 DEF Next

(***************************************************************************)
(* However the application uses the factory, the index in the registry of  *)
(* a Lua state stays within the list of LuaStates.                         *)
(***************************************************************************)
THEOREM Indices == Spec => []IdsInRange
<1>1. Init => TypeOK /\ Bounded
    BY TypeInit DEF Init, Bounded
<1>2. TypeOK /\ Bounded /\ [Next]_vars => (TypeOK /\ Bounded)'
    BY TypeStep, BoundedStep
<1>3. ASSUME TypeOK, Bounded PROVE IdsInRange
    <2> SUFFICES ASSUME NEW p \in Ptrs, main[p] = p PROVE reg[p] \in 0 .. size - 1
        BY DEF IdsInRange, Mains
    <2>1. size > 0
        BY NullAssumption, <1>3 DEF Bounded
    <2>2. reg[p] \in Nat /\ size \in Nat /\ (reg[p] < size \/ reg[p] = 0)
        BY <1>3 DEF TypeOK, Bounded
    <2> QED BY <2>1, <2>2
<1> QED BY <1>1, <1>2, <1>3, PTL DEF Spec

-----------------------------------------------------------------------------
(***************************************************************************)
(* From here on no open state is shifted, and toThread has not been used.  *)
(***************************************************************************)
Disciplined == Shifting = FALSE

(* newLuaState lists the new state under the index it registers. *)
LEMMA NewLuaStateStep ==
    ASSUME Disciplined, IInv, NEW w \in Wrappers, NewLuaState(w)
    PROVE  Agreement'
<1>1. PICK i \in 0 .. size, p \in Ptrs :
          /\ NextStateIndex(i)
          /\ \A j \in i .. size - 1 : states[j] = Null
          /\ main[p] = Null
          /\ AddAt(i, w)
          /\ luaState' = [luaState EXCEPT ![w] = p]
          /\ stateId' = [stateId EXCEPT ![w] = i]
          /\ main' = [main EXCEPT ![p] = p]
          /\ reg' = [reg EXCEPT ![p] = i]
    BY DEF NewLuaState, Disciplined
<1>2. /\ pc[w] = "unborn" /\ pc' = [pc EXCEPT ![w] = "open"]
      /\ kind' = [kind EXCEPT ![w] = "newLuaState"]
    BY DEF NewLuaState
<1>3. \A u \in Wrappers : u # w =>
          /\ pc'[u] = pc[u] /\ kind'[u] = kind[u]
          /\ luaState'[u] = luaState[u] /\ stateId'[u] = stateId[u]
    BY <1>1, <1>2 DEF IInv, TypeOK
<1>4. pc'[w] = "open" /\ kind'[w] = "newLuaState" /\ luaState'[w] = p /\ stateId'[w] = i
    BY <1>1, <1>2 DEF IInv, TypeOK
<1>5. size \in Nat /\ size' = size + 1 /\ i \in 0 .. size' - 1 /\ states'[i] = w
    BY <1>1 DEF IInv, TypeOK, AddAt
<1>6. \A j \in 0 .. size' - 1 : j # i => \/ j \in 0 .. size - 1 /\ j < i /\ states'[j] = states[j]
                                         \/ states'[j] = Null
    <2> TAKE j \in 0 .. size' - 1
    <2>1. CASE j < i
        BY <1>1, <1>5, <2>1 DEF AddAt
    <2>2. CASE j > i
        <3>1. j - 1 \in i .. size - 1 /\ states'[j] = states[j - 1]
            BY <1>1, <1>5, <2>2 DEF AddAt
        <3> QED BY <1>1, <3>1
    <2> QED BY <1>5, <2>1, <2>2
<1>7. p \notin Mains /\ p \in Mains' /\ \A q \in Ptrs : q # p => (q \in Mains' <=> q \in Mains)
    BY <1>1 DEF IInv, TypeOK, Mains
<1>8. SlotsOwned'
    <2>1. ASSUME NEW j \in 0 .. size' - 1, states'[j] # Null
          PROVE  /\ kind'[states'[j]] = "newLuaState" /\ pc'[states'[j]] = "open"
                 /\ stateId'[states'[j]] = j
        <3>1. CASE j = i
            BY <1>4, <1>5, <3>1
        <3>2. CASE j # i
            <4>1. j \in 0 .. size - 1 /\ states'[j] = states[j] /\ states[j] # Null
                BY <1>6, <2>1, <3>2
            <4>2. states[j] \in Wrappers /\ Listed(states[j]) /\ stateId[states[j]] = j
                BY <4>1 DEF IInv, TypeOK, Agreement, SlotsOwned
            <4>3. states[j] # w
                BY <1>2, <4>2 DEF Listed
            <4> QED BY <1>3, <4>1, <4>2, <4>3 DEF Listed
        <3> QED BY <3>1, <3>2
    <2>2. ASSUME NEW u \in Wrappers, Listed(u)'
          PROVE  /\ stateId'[u] \in 0 .. size' - 1 /\ states'[stateId'[u]] = u
                 /\ reg'[luaState'[u]] = stateId'[u]
        <3>1. CASE u = w
            BY <1>1, <1>4, <1>5, <3>1 DEF IInv, TypeOK
        <3>2. CASE u # w
            <4>1. Listed(u) /\ stateId'[u] = stateId[u] /\ luaState'[u] = luaState[u]
                BY <1>3, <2>2, <3>2 DEF Listed
            <4>2. /\ stateId[u] \in 0 .. size - 1 /\ states[stateId[u]] = u
                  /\ reg[luaState[u]] = stateId[u]
                BY <4>1 DEF IInv, Agreement, SlotsOwned
            <4>3. stateId[u] < i
                BY <1>1, <1>5, <4>2
            <4>4. states'[stateId[u]] = u
                BY <1>1, <1>5, <4>2, <4>3 DEF AddAt
            <4>5. luaState[u] \in Mains /\ luaState[u] # p
                BY <1>7, <4>1 DEF IInv, Agreement, StatesOwned, Owner, Listed
            <4>6. reg'[luaState[u]] = stateId[u]
                BY <1>1, <4>2, <4>5 DEF IInv, TypeOK, Mains
            <4> QED BY <1>5, <4>1, <4>2, <4>4, <4>6
        <3> QED BY <3>1, <3>2
    <2> QED BY <2>1, <2>2 DEF SlotsOwned, Listed
<1>9. StatesOwned'
    <2>1. \A u \in Wrappers : u # w => (Owner(u)' <=> Owner(u))
        BY <1>3 DEF Owner
    <2>2. Owner(w)' /\ luaState'[w] = p /\ ~Owner(w)
        BY <1>2, <1>4 DEF Owner
    <2>3. \A u \in Wrappers : Owner(u) => luaState[u] \in Mains /\ luaState[u] # p
        BY <1>7 DEF IInv, Agreement, StatesOwned
    <2>4. \A u \in Wrappers : Owner(u)' => luaState'[u] \in Mains'
        BY <1>3, <1>7, <2>1, <2>2, <2>3 DEF Mains
    <2>5. \A u, v \in Wrappers : Owner(u)' /\ Owner(v)' /\ luaState'[u] = luaState'[v] => u = v
        BY <1>3, <2>1, <2>2, <2>3 DEF IInv, Agreement, StatesOwned
    <2>6. \A q \in Mains' : \E u \in Wrappers : Owner(u)' /\ luaState'[u] = q
        <3> TAKE q \in Mains'
        <3>1. CASE q = p
            BY <2>2, <3>1
        <3>2. CASE q # p
            <4>1. PICK u \in Wrappers : Owner(u) /\ luaState[u] = q
                BY <1>7, <3>2 DEF IInv, Agreement, StatesOwned, Mains
            <4> QED BY <1>3, <2>1, <2>2, <4>1
        <3> QED BY <3>1, <3>2
    <2>7. \A q \in Ptrs : main'[q] # Null => main'[q] \in Mains'
        BY <1>1, <1>7 DEF IInv, TypeOK, Agreement, StatesOwned
    <2> QED BY <2>4, <2>5, <2>6, <2>7 DEF StatesOwned, Owner, Mains
<1>10. BuildersShare'
    <2>1. SUFFICES ASSUME NEW u \in Wrappers, Building(u)'
                   PROVE  /\ kind'[u] = "newThread"
                          /\ \E v \in Wrappers :
                                /\ Listed(v)' /\ luaState'[v] = luaState'[u]
                                /\ pc'[u] # "insert" => stateId'[u] = stateId'[v]
        BY DEF BuildersShare, Building, Listed
    <2>2. u # w /\ Building(u)
        BY <1>3, <1>4, <2>1 DEF Building
    <2>3. PICK v \in Wrappers : /\ Listed(v) /\ luaState[v] = luaState[u]
                                /\ pc[u] # "insert" => stateId[u] = stateId[v]
        <3>1. BuildersShare
            BY DEF IInv, Agreement
        <3> QED BY <2>2, <3>1 DEF BuildersShare
    <2>4. v # w
        BY <1>2, <2>3 DEF Listed
    <2> QED BY <1>3, <2>2, <2>3, <2>4 DEF IInv, Agreement, BuildersShare, Listed
<1>11. AliasesShare'
    <2>1. \A u \in Wrappers : luaState[u] \in Mains => luaState[u] \in Mains'
        BY <1>7 DEF Mains
    <2> QED BY <1>3, <1>4, <1>7, <2>1
            DEF IInv, TypeOK, Agreement, AliasesShare, Building, Mains
<1> QED BY <1>8, <1>9, <1>10, <1>11 DEF Agreement

(***************************************************************************)
(* A new wrapper of v: its owner is listed, because the state of v is      *)
(* neither closed nor being closed.                                        *)
(***************************************************************************)
LEMMA NewThreadStep ==
    ASSUME IInv, NEW v \in Wrappers, NEW w \in Wrappers, NewThread(v, w)
    PROVE  Agreement'
<1>1. PICK p \in Ptrs : main[p] = Null /\ main' = [main EXCEPT ![p] = main[luaState[v]]]
    BY DEF NewThread
<1>2. /\ pc[w] = "unborn" /\ pc'[w] = "insert" /\ kind'[w] = "newThread"
      /\ luaState'[w] = luaState[v] /\ kind[w] = "newLuaState"
      /\ \A u \in Wrappers : u # w => /\ pc'[u] = pc[u] /\ kind'[u] = kind[u]
                                      /\ luaState'[u] = luaState[u]
      /\ stateId' = stateId /\ size' = size /\ states' = states /\ reg' = reg
    BY DEF NewThread, IInv, TypeOK, Agreement, AliasesShare, factory
<1>3. luaState[v] \in Mains /\ main[luaState[v]] = luaState[v]
    BY DEF NewThread, Usable, IInv, Agreement, AliasesShare, Mains
<1>4. Mains' = Mains
    BY <1>1, <1>3 DEF IInv, TypeOK, Mains
<1>5. PICK u \in Wrappers : Listed(u) /\ luaState[u] = luaState[v]
    <2>1. PICK u \in Wrappers : Owner(u) /\ luaState[u] = luaState[v]
        BY <1>3 DEF IInv, Agreement, StatesOwned
    <2>2. pc[u] # "removed"
        BY <1>3, <2>1 DEF NewThread, Usable, Closing
    <2> QED BY <2>1, <2>2 DEF Owner, Listed
<1>6. \A x \in Wrappers : (Listed(x)' <=> Listed(x)) /\ (Owner(x)' <=> Owner(x))
    BY <1>2 DEF Listed, Owner
<1>7. SlotsOwned'
    BY <1>2, <1>6 DEF IInv, TypeOK, Agreement, SlotsOwned, Listed
<1>8. StatesOwned'
    <2>1. \A x \in Wrappers : Owner(x) => x # w /\ luaState'[x] = luaState[x]
        BY <1>2 DEF Owner
    <2>2. \A q \in Ptrs : main'[q] # Null => main'[q] \in Mains
        BY <1>1, <1>3 DEF IInv, TypeOK, Agreement, StatesOwned
    <2> QED BY <1>4, <1>6, <2>1, <2>2 DEF IInv, Agreement, StatesOwned
<1>9. BuildersShare'
    <2>1. SUFFICES ASSUME NEW x \in Wrappers, Building(x)'
                   PROVE  /\ kind'[x] = "newThread"
                          /\ \E y \in Wrappers :
                                /\ Listed(y)' /\ luaState'[y] = luaState'[x]
                                /\ pc'[x] # "insert" => stateId'[x] = stateId'[y]
        BY DEF BuildersShare, Building, Listed
    <2>2. CASE x = w
        BY <1>2, <1>5, <1>6, <2>2 DEF Listed
    <2>3. CASE x # w
        <3>1. Building(x) /\ pc'[x] = pc[x]
            BY <1>2, <2>1, <2>3 DEF Building
        <3>2. PICK y \in Wrappers : /\ Listed(y) /\ luaState[y] = luaState[x]
                                    /\ pc[x] # "insert" => stateId[x] = stateId[y]
            BY <3>1 DEF IInv, Agreement, BuildersShare
        <3>3. kind[x] = "newThread" /\ y # w
            BY <1>2, <3>1, <3>2 DEF IInv, Agreement, BuildersShare, Listed
        <3> QED BY <1>2, <1>6, <2>3, <3>1, <3>2, <3>3
    <2> QED BY <2>2, <2>3
<1>10. AliasesShare'
    BY <1>2, <1>4 DEF IInv, Agreement, AliasesShare, Building
<1> QED BY <1>7, <1>8, <1>9, <1>10 DEF Agreement

(***************************************************************************)
(* insertLuaState of a wrapper under construction finds the slot of the    *)
(* owner of its Lua state: that one has the same peer and no other entry   *)
(* does.                                                                   *)
(***************************************************************************)
LEMMA InsertFinds ==
    ASSUME IInv, NEW w \in Wrappers, Building(w)
    PROVE  \E v \in Wrappers :
              /\ Listed(v) /\ luaState[v] = luaState[w]
              /\ pc[w] # "insert" => stateId[w] = stateId[v]
              /\ ~InsertThrows(w)
              /\ \A i \in 0 .. size - 1 : InsertReturns(w, i) => i = stateId[v] /\ UNCHANGED factory
<1>1. PICK v \in Wrappers : /\ Listed(v) /\ luaState[v] = luaState[w]
                            /\ pc[w] # "insert" => stateId[w] = stateId[v]
    BY DEF IInv, Agreement, BuildersShare
<1>2. stateId[v] \in 0 .. size - 1 /\ states[stateId[v]] = v /\ SamePeer(stateId[v], w)
    BY <1>1 DEF IInv, Agreement, SlotsOwned, SamePeer
<1>3. ASSUME NEW i \in 0 .. size - 1, SamePeer(i, w) PROVE i = stateId[v]
    <2>1. states[i] \in Wrappers /\ Listed(states[i]) /\ stateId[states[i]] = i
        BY <1>3 DEF IInv, TypeOK, Agreement, SlotsOwned, SamePeer
    <2>2. luaState[states[i]] = luaState[v]
        BY <1>1, <1>3 DEF SamePeer
    <2>3. states[i] = v
        BY <1>1, <2>1, <2>2 DEF IInv, Agreement, StatesOwned, Owner, Listed
    <2> QED BY <2>1, <2>3
<1>4. ~InsertThrows(w)
    BY <1>2 DEF InsertThrows
<1>5. \A i \in 0 .. size - 1 : InsertReturns(w, i) => i = stateId[v] /\ UNCHANGED factory
    BY <1>2, <1>3 DEF InsertReturns, FoundAt
<1> QED BY <1>1, <1>4, <1>5

(* insertLuaState finds the slot of the state a wrapper shares. *)
LEMMA InsertStep ==
    ASSUME IInv, NEW w \in Wrappers, Insert(w)
    PROVE  Agreement'
<1>1. pc[w] = "insert" /\ Building(w)
    BY DEF Insert, Building
<1>2. PICK v \in Wrappers :
          /\ Listed(v) /\ luaState[v] = luaState[w] /\ ~InsertThrows(w)
          /\ \A i \in 0 .. size - 1 : InsertReturns(w, i) => i = stateId[v] /\ UNCHANGED factory
    BY <1>1, InsertFinds
<1>3. /\ stateId' = [stateId EXCEPT ![w] = stateId[v]]
      /\ pc' = [pc EXCEPT ![w] = "reopen"] /\ UNCHANGED factory
    BY <1>2 DEF Insert
<1>4. /\ pc'[w] = "reopen" /\ stateId'[w] = stateId[v]
      /\ \A u \in Wrappers : u # w => pc'[u] = pc[u] /\ stateId'[u] = stateId[u]
      /\ kind' = kind /\ luaState' = luaState /\ main' = main /\ reg' = reg
      /\ size' = size /\ states' = states
    BY <1>3 DEF Insert, IInv, TypeOK, factory, lua
<1>5. kind[w] = "newThread" /\ v # w
    BY <1>1, <1>2 DEF IInv, Agreement, BuildersShare, Listed
<1>6. \A x \in Wrappers : (Listed(x)' <=> Listed(x)) /\ (Owner(x)' <=> Owner(x))
    BY <1>4, <1>5 DEF Listed, Owner
<1>7. \A x \in Wrappers : Listed(x) => stateId'[x] = stateId[x]
    BY <1>4, <1>5 DEF Listed
<1>8. SlotsOwned'
    BY <1>4, <1>6, <1>7 DEF IInv, TypeOK, Agreement, SlotsOwned, Listed
<1>9. StatesOwned'
    BY <1>4, <1>6 DEF IInv, Agreement, StatesOwned, Mains
<1>10. BuildersShare'
    <2>1. SUFFICES ASSUME NEW x \in Wrappers, Building(x)'
                   PROVE  /\ kind'[x] = "newThread"
                          /\ \E y \in Wrappers :
                                /\ Listed(y)' /\ luaState'[y] = luaState'[x]
                                /\ pc'[x] # "insert" => stateId'[x] = stateId'[y]
        BY DEF BuildersShare, Building, Listed
    <2>2. CASE x = w
        BY <1>2, <1>4, <1>5, <1>6, <1>7, <2>2
    <2>3. CASE x # w
        <3>1. Building(x) /\ pc'[x] = pc[x]
            BY <1>4, <2>1, <2>3 DEF Building
        <3>2. PICK y \in Wrappers : /\ Listed(y) /\ luaState[y] = luaState[x]
                                    /\ pc[x] # "insert" => stateId[x] = stateId[y]
            BY <3>1 DEF IInv, Agreement, BuildersShare
        <3>3. kind[x] = "newThread"
            BY <3>1 DEF IInv, Agreement, BuildersShare
        <3> QED BY <1>4, <1>6, <1>7, <2>3, <3>1, <3>2, <3>3
    <2> QED BY <2>2, <2>3
<1>11. AliasesShare'
    BY <1>4, <1>5 DEF IInv, Agreement, AliasesShare, Building, Mains
<1> QED BY <1>8, <1>9, <1>10, <1>11 DEF Agreement

(***************************************************************************)
(* jlua_open writes the index that is already there, and the second        *)
(* insertLuaState finds the same entry again: only pc changes.             *)
(***************************************************************************)
LEMMA StageStep ==
    ASSUME IInv, NEW w \in Wrappers, Building(w), pc[w] # "insert",
           NEW stage \in {"reinsert", "open"}, pc' = [pc EXCEPT ![w] = stage],
           UNCHANGED <<factory, kind, luaState, stateId, lua>>
    PROVE  Agreement'
<1>1. /\ pc'[w] = stage /\ kind[w] = "newThread"
      /\ \A u \in Wrappers : u # w => pc'[u] = pc[u]
      /\ kind' = kind /\ luaState' = luaState /\ stateId' = stateId
      /\ main' = main /\ reg' = reg /\ size' = size /\ states' = states
    BY DEF IInv, TypeOK, Agreement, BuildersShare, factory, lua
<1>2. \A x \in Wrappers : (Listed(x)' <=> Listed(x)) /\ (Owner(x)' <=> Owner(x))
    BY <1>1 DEF Listed, Owner
<1>3. SlotsOwned' /\ StatesOwned'
    <2>1. SlotsOwned'
        BY <1>1, <1>2 DEF IInv, TypeOK, Agreement, SlotsOwned, Listed
    <2>2. StatesOwned'
        BY <1>1, <1>2 DEF IInv, Agreement, StatesOwned, Mains
    <2> QED BY <2>1, <2>2
<1>4. BuildersShare'
    <2>1. SUFFICES ASSUME NEW x \in Wrappers, Building(x)'
                   PROVE  /\ kind[x] = "newThread"
                          /\ \E y \in Wrappers :
                                /\ Listed(y) /\ luaState[y] = luaState[x]
                                /\ pc'[x] # "insert" => stateId[x] = stateId[y]
        BY <1>1, <1>2 DEF BuildersShare
    <2>2. Building(x) /\ (pc'[x] # "insert" => pc[x] # "insert")
        BY <1>1, <2>1 DEF Building
    <2> QED BY <2>2 DEF IInv, Agreement, BuildersShare
<1>5. AliasesShare'
    <2>1. PICK v \in Wrappers : Listed(v) /\ luaState[v] = luaState[w]
        BY DEF IInv, Agreement, BuildersShare
    <2>2. luaState[w] \in Mains
        BY <2>1 DEF IInv, Agreement, StatesOwned, Owner, Listed
    <2> QED BY <1>1, <2>2 DEF IInv, Agreement, AliasesShare, Building, Mains
<1> QED BY <1>3, <1>4, <1>5 DEF Agreement

(* jlua_open registers again the index that is registered. *)
LEMMA JluaOpenStep ==
    ASSUME IInv, NEW w \in Wrappers, JluaOpen(w)
    PROVE  Agreement'
<1>1. Building(w) /\ pc[w] = "reopen" /\ kind[w] = "newThread"
    BY DEF JluaOpen, Building, IInv, Agreement, BuildersShare
<1>2. PICK v \in Wrappers : /\ Listed(v) /\ luaState[v] = luaState[w]
                            /\ stateId[w] = stateId[v]
    BY <1>1 DEF IInv, Agreement, BuildersShare
<1>3. luaState[w] \in Mains /\ reg[luaState[w]] = stateId[w]
    BY <1>2 DEF IInv, Agreement, StatesOwned, SlotsOwned, Owner, Listed
<1>4. reg' = reg
    BY <1>3 DEF JluaOpen, IInv, TypeOK, Mains
<1> QED BY <1>1, <1>4, StageStep DEF JluaOpen, lua

(* The second insertLuaState finds the same slot. *)
LEMMA ReinsertStep ==
    ASSUME IInv, NEW w \in Wrappers, Reinsert(w)
    PROVE  Agreement'
<1>1. Building(w) /\ pc[w] = "reinsert"
    BY DEF Reinsert, Building
<1>2. UNCHANGED factory /\ pc' = [pc EXCEPT ![w] = "open"]
    BY <1>1, InsertFinds DEF Reinsert
<1> QED BY <1>1, <1>2, StageStep DEF Reinsert

(***************************************************************************)
(* close empties the owner's slot; nobody is building a wrapper of its     *)
(* state then.                                                             *)
(***************************************************************************)
LEMMA CloseRemoveStep ==
    ASSUME IInv, NEW w \in Wrappers, CloseRemove(w)
    PROVE  Agreement'
<1>1. /\ Listed(w) /\ Owner(w) /\ Quiet(w)
      /\ states' = [states EXCEPT ![stateId[w]] = Null]
      /\ pc'[w] = "removed" /\ \A u \in Wrappers : u # w => pc'[u] = pc[u]
      /\ size' = size /\ kind' = kind /\ luaState' = luaState /\ stateId' = stateId
      /\ main' = main /\ reg' = reg
    BY DEF CloseRemove, Listed, Owner, IInv, TypeOK, lua
<1>2. stateId[w] \in 0 .. size - 1 /\ states[stateId[w]] = w
    BY <1>1 DEF IInv, Agreement, SlotsOwned
<1>3. \A x \in Wrappers : /\ Owner(x)' <=> Owner(x)
                          /\ Listed(x)' <=> (Listed(x) /\ x # w)
    BY <1>1 DEF Listed, Owner
<1>4. SlotsOwned'
    <2>1. ASSUME NEW i \in 0 .. size' - 1, states'[i] # Null
          PROVE  /\ kind'[states'[i]] = "newLuaState" /\ pc'[states'[i]] = "open"
                 /\ stateId'[states'[i]] = i
        <3>1. i # stateId[w] /\ states'[i] = states[i] /\ states[i] \in Wrappers
            BY <1>1, <1>2, <2>1 DEF IInv, TypeOK
        <3>2. Listed(states[i]) /\ stateId[states[i]] = i /\ states[i] # w
            BY <1>1, <2>1, <3>1 DEF IInv, Agreement, SlotsOwned
        <3> QED BY <1>1, <3>1, <3>2 DEF Listed
    <2>2. ASSUME NEW u \in Wrappers, Listed(u)'
          PROVE  /\ stateId'[u] \in 0 .. size' - 1 /\ states'[stateId'[u]] = u
                 /\ reg'[luaState'[u]] = stateId'[u]
        <3>1. Listed(u) /\ u # w
            BY <1>3, <2>2
        <3>2. /\ stateId[u] \in 0 .. size - 1 /\ states[stateId[u]] = u
              /\ reg[luaState[u]] = stateId[u]
            BY <3>1 DEF IInv, Agreement, SlotsOwned
        <3>3. stateId[u] # stateId[w]
            BY <1>2, <3>1, <3>2
        <3> QED BY <1>1, <3>2, <3>3 DEF IInv, TypeOK
    <2> QED BY <2>1, <2>2 DEF SlotsOwned, Listed
<1>5. StatesOwned'
    BY <1>1, <1>3 DEF IInv, Agreement, StatesOwned, Mains
<1>6. BuildersShare'
    <2>1. SUFFICES ASSUME NEW x \in Wrappers, Building(x)'
                   PROVE  /\ kind[x] = "newThread"
                          /\ \E y \in Wrappers :
                                /\ Listed(y)' /\ luaState[y] = luaState[x]
                                /\ pc'[x] # "insert" => stateId[x] = stateId[y]
        BY <1>1 DEF BuildersShare, Listed
    <2>2. Building(x) /\ pc'[x] = pc[x]
        BY <1>1, <2>1 DEF Building
    <2>3. PICK y \in Wrappers : /\ Listed(y) /\ luaState[y] = luaState[x]
                                /\ pc[x] # "insert" => stateId[x] = stateId[y]
        BY <2>2 DEF IInv, Agreement, BuildersShare
    <2>4. y # w
        BY <1>1, <2>2, <2>3 DEF Quiet, Building
    <2>5. kind[x] = "newThread"
        BY <2>2 DEF IInv, Agreement, BuildersShare
    <2> QED BY <1>3, <2>2, <2>3, <2>4, <2>5
<1>7. AliasesShare'
    BY <1>1 DEF IInv, Agreement, AliasesShare, Building, Mains, Listed
<1> QED BY <1>4, <1>5, <1>6, <1>7 DEF Agreement

(***************************************************************************)
(* lua_close frees one Lua state, whose owner is w, and leaves the others. *)
(***************************************************************************)
LEMMA CloseFreeStep ==
    ASSUME IInv, NEW w \in Wrappers, CloseFree(w)
    PROVE  Agreement'
<1> DEFINE gone(p) == main[p] = main[luaState[w]]
<1>1. /\ pc[w] = "removed" /\ pc'[w] = "freed"
      /\ \A u \in Wrappers : u # w => pc'[u] = IF pc[u] = "open" /\ gone(luaState[u])
                                               THEN "orphan" ELSE pc[u]
      /\ \A p \in Ptrs : main'[p] = IF gone(p) THEN Null ELSE main[p]
      /\ size' = size /\ states' = states /\ kind' = kind /\ luaState' = luaState
      /\ stateId' = stateId /\ reg' = reg
    BY DEF CloseFree, IInv, TypeOK, factory
<1>2. kind[w] = "newLuaState"
    BY <1>1 DEF IInv, Agreement, AliasesShare, Building, TypeOK, Kinds
<1>3. Owner(w) /\ luaState[w] \in Mains /\ main[luaState[w]] = luaState[w]
    BY <1>1, <1>2 DEF Owner, IInv, Agreement, StatesOwned, Mains
<1>4. \A p \in Ptrs : p \in Mains' <=> p \in Mains /\ p # luaState[w]
    BY <1>1, <1>3 DEF Mains
<1>5. \A x \in Wrappers : Owner(x) /\ x # w => luaState[x] \in Mains' /\ ~gone(luaState[x])
    <2> TAKE x \in Wrappers
    <2> HAVE Owner(x) /\ x # w
    <2>1. luaState[x] \in Mains /\ luaState[x] # luaState[w]
        BY <1>3 DEF IInv, Agreement, StatesOwned
    <2> QED BY <1>3, <1>4, <2>1 DEF Mains
<1>6. \A x \in Wrappers : /\ Owner(x)' <=> (Owner(x) /\ x # w)
                          /\ Listed(x)' <=> Listed(x)
    BY <1>1, <1>5 DEF Owner, Listed
<1>7. SlotsOwned'
    <2>1. ASSUME NEW i \in 0 .. size - 1, states[i] # Null
          PROVE  Listed(states[i])'
        <3>1. states[i] \in Wrappers /\ Listed(states[i])
            BY <2>1 DEF IInv, TypeOK, Agreement, SlotsOwned
        <3>2. states[i] # w
            BY <1>1, <3>1 DEF Listed
        <3>3. pc'[states[i]] = "open"
            BY <1>1, <1>5, <3>1, <3>2 DEF Listed, Owner
        <3> QED BY <1>1, <3>1, <3>3 DEF Listed
    <2>2. \A i \in 0 .. size - 1 : states[i] # Null => stateId[states[i]] = i
        BY DEF IInv, Agreement, SlotsOwned
    <2>3. \A u \in Wrappers : Listed(u) => /\ stateId[u] \in 0 .. size - 1
                                           /\ states[stateId[u]] = u
                                           /\ reg[luaState[u]] = stateId[u]
        BY DEF IInv, Agreement, SlotsOwned
    <2> QED BY <1>1, <1>6, <2>1, <2>2, <2>3 DEF SlotsOwned, Listed
<1>8. StatesOwned'
    <2>1. \A q \in Mains' : \E u \in Wrappers : Owner(u)' /\ luaState[u] = q
        <3> TAKE q \in Mains'
        <3>1. q \in Mains /\ q # luaState[w]
            BY <1>4 DEF Mains
        <3>2. PICK u \in Wrappers : Owner(u) /\ luaState[u] = q
            BY <3>1 DEF IInv, Agreement, StatesOwned
        <3> QED BY <1>6, <3>1, <3>2
    <2>2. \A q \in Ptrs : main'[q] # Null => main'[q] \in Mains'
        <3> TAKE q \in Ptrs
        <3> HAVE main'[q] # Null
        <3>1. main'[q] = main[q] /\ main[q] # luaState[w]
            BY <1>1, <1>3
        <3>2. main[q] \in Mains
            BY <3>1 DEF IInv, Agreement, StatesOwned
        <3> QED BY <1>4, <3>1, <3>2 DEF Mains
    <2>3. \A x \in Wrappers : Owner(x)' => luaState[x] \in Mains'
        BY <1>5, <1>6
    <2>4. \A u, x \in Wrappers : Owner(u)' /\ Owner(x)' /\ luaState[u] = luaState[x] => u = x
        BY <1>6 DEF IInv, Agreement, StatesOwned
    <2> QED BY <1>1, <2>1, <2>2, <2>3, <2>4 DEF StatesOwned
<1>9. BuildersShare'
    <2>1. SUFFICES ASSUME NEW x \in Wrappers, Building(x)'
                   PROVE  /\ kind[x] = "newThread"
                          /\ \E y \in Wrappers :
                                /\ Listed(y) /\ luaState[y] = luaState[x]
                                /\ pc'[x] # "insert" => stateId[x] = stateId[y]
        BY <1>1, <1>6 DEF BuildersShare
    <2>2. Building(x) /\ pc'[x] = pc[x]
        BY <1>1, <2>1 DEF Building
    <2> QED BY <2>2 DEF IInv, Agreement, BuildersShare
<1>10. AliasesShare'
    <2>1. ASSUME NEW x \in Wrappers, pc'[x] = "open" PROVE luaState[x] \in Mains'
        <3>1. pc[x] = "open" /\ ~gone(luaState[x])
            BY <1>1, <2>1 DEF IInv, TypeOK
        <3>2. luaState[x] \in Mains
            BY <3>1 DEF IInv, Agreement, AliasesShare
        <3> QED BY <1>3, <1>4, <3>1, <3>2 DEF Mains
    <2>2. ASSUME NEW x \in Wrappers, kind[x] = "newThread"
          PROVE  Building(x)' \/ pc'[x] \in {"open", "orphan"}
        <3>1. x # w /\ (Building(x) \/ pc[x] \in {"open", "orphan"})
            BY <1>2, <2>2 DEF IInv, Agreement, AliasesShare
        <3> QED BY <1>1, <3>1 DEF Building
    <2>3. \A x \in Wrappers : pc'[x] = "unborn" => kind[x] = "newLuaState"
        BY <1>1 DEF IInv, Agreement, AliasesShare
    <2>4. \A x \in Wrappers : kind[x] # "toThread"
        BY DEF IInv, Agreement, AliasesShare
    <2> QED BY <1>1, <2>1, <2>2, <2>3, <2>4 DEF AliasesShare
<1> QED BY <1>7, <1>8, <1>9, <1>10 DEF Agreement

(* Forgetting the address of a freed state disturbs no other. *)
LEMMA CloseNullStep ==
    ASSUME IInv, NEW w \in Wrappers, CloseNull(w)
    PROVE  Agreement'
<1>1. /\ pc[w] = "freed" /\ pc'[w] = "closed" /\ luaState'[w] = Null
      /\ \A u \in Wrappers : u # w => pc'[u] = pc[u] /\ luaState'[u] = luaState[u]
      /\ size' = size /\ states' = states /\ kind' = kind
      /\ stateId' = stateId /\ main' = main /\ reg' = reg
    BY DEF CloseNull, IInv, TypeOK, factory, lua
<1>2. ~Owner(w) /\ ~Listed(w) /\ ~Building(w) /\ kind[w] = "newLuaState"
    BY <1>1 DEF Owner, Listed, Building, IInv, Agreement, AliasesShare, TypeOK, Kinds
<1>3. \A x \in Wrappers : /\ Owner(x)' <=> Owner(x)
                          /\ Listed(x)' <=> Listed(x)
                          /\ Building(x)' <=> Building(x)
    BY <1>1 DEF Owner, Listed, Building
<1>4. SlotsOwned'
    <2>1. \A i \in 0 .. size - 1 : states[i] # Null =>
              Listed(states[i]) /\ stateId[states[i]] = i /\ states[i] # w
        BY <1>2 DEF IInv, Agreement, SlotsOwned
    <2>2. \A u \in Wrappers : Listed(u) => /\ stateId[u] \in 0 .. size - 1
                                           /\ states[stateId[u]] = u
                                           /\ reg[luaState[u]] = stateId[u]
                                           /\ luaState'[u] = luaState[u]
        BY <1>1, <1>2 DEF IInv, Agreement, SlotsOwned
    <2>3. \A i \in 0 .. size - 1 : states[i] # Null => Listed(states[i])'
        BY <1>1, <2>1 DEF IInv, TypeOK, Listed
    <2> QED BY <1>1, <1>3, <2>1, <2>2, <2>3 DEF SlotsOwned, Listed
<1>5. StatesOwned'
    BY <1>1, <1>2, <1>3 DEF IInv, Agreement, StatesOwned, Mains
<1>6. BuildersShare'
    BY <1>1, <1>2, <1>3 DEF IInv, Agreement, BuildersShare
<1>7. AliasesShare'
    BY <1>1, <1>2, <1>3 DEF IInv, Agreement, AliasesShare, Mains
<1> QED BY <1>4, <1>5, <1>6, <1>7 DEF Agreement

-----------------------------------------------------------------------------
(* Under the discipline every step keeps list and states in agreement. *)
LEMMA NextAgreement ==
    ASSUME Disciplined, IInv, [Next]_vars, NoToThread'
    PROVE  Agreement'
<1>1. ASSUME NEW w \in Wrappers, NewLuaState(w) PROVE Agreement'
    BY <1>1, NewLuaStateStep
<1>2. ASSUME NEW w \in Wrappers, Insert(w) \/ JluaOpen(w) \/ Reinsert(w) PROVE Agreement'
    BY <1>2, InsertStep, JluaOpenStep, ReinsertStep
<1>3. ASSUME NEW w \in Wrappers, CloseRemove(w) \/ CloseFree(w) \/ CloseNull(w) PROVE Agreement'
    BY <1>3, CloseRemoveStep, CloseFreeStep, CloseNullStep
<1>4. ASSUME NEW v \in Wrappers, NEW w \in Wrappers, NewThread(v, w) PROVE Agreement'
    BY <1>4, NewThreadStep
<1>5. ASSUME NEW v \in Wrappers, NEW w \in Wrappers, ToThread(v, w) PROVE Agreement'
    BY <1>5 DEF ToThread, NoToThread, IInv, TypeOK
<1>6. CASE UNCHANGED vars
    BY <1>6 DEF vars, factory, java, lua, IInv, Agreement, SlotsOwned, StatesOwned,
                BuildersShare, AliasesShare, Listed, Owner, Building, Mains
<1> QED BY <1>1, <1>2, <1>3, <1>4, <1>5, <1>6 DEF Next

(* Nothing is listed, nothing is open. *)
LEMMA InitAgreement == Init => Agreement
BY DEF Init, Agreement, SlotsOwned, StatesOwned, BuildersShare, AliasesShare,
       Listed, Owner, Building, Mains

(***************************************************************************)
(* Agreement is what the two properties of the factory rest on.            *)
(***************************************************************************)
LEMMA AgreementRight == IInv => RightState /\ ThreadsAdopted
<1> SUFFICES ASSUME IInv PROVE RightState /\ ThreadsAdopted
    OBVIOUS
<1>1. \A w \in Wrappers : Listed(w) => Resolves(luaState[w]) /\ reg[luaState[w]] = stateId[w]
    BY DEF IInv, TypeOK, Agreement, SlotsOwned, Resolves
<1>2. RightState
    <2> SUFFICES ASSUME NEW p \in Mains, ~Closing(p) PROVE Resolves(p)
        BY DEF RightState
    <2>1. PICK w \in Wrappers : Owner(w) /\ luaState[w] = p
        BY DEF IInv, Agreement, StatesOwned
    <2>2. Listed(w)
        BY <2>1 DEF Owner, Listed, Closing
    <2> QED BY <1>1, <2>1, <2>2
<1>3. ThreadsAdopted
    <2> SUFFICES ASSUME NEW w \in Wrappers, kind[w] = "newThread"
                 PROVE  /\ pc[w] # "failed"
                        /\ pc[w] \in {"reopen", "reinsert"} =>
                              stateId[w] = reg[luaState[w]] /\ Resolves(luaState[w])
                        /\ \A i \in 0 .. size - 1 : states[i] # w
        BY DEF ThreadsAdopted
    <2>1. pc[w] # "failed"
        BY DEF IInv, Agreement, AliasesShare, Building
    <2>2. ASSUME pc[w] \in {"reopen", "reinsert"}
          PROVE  stateId[w] = reg[luaState[w]] /\ Resolves(luaState[w])
        <3>1. Building(w) /\ pc[w] # "insert"
            BY <2>2 DEF Building
        <3>2. PICK v \in Wrappers : Listed(v) /\ luaState[v] = luaState[w] /\ stateId[w] = stateId[v]
            BY <3>1 DEF IInv, Agreement, BuildersShare
        <3> QED BY <1>1, <3>2
    <2>3. \A i \in 0 .. size - 1 : states[i] # w
        BY DEF IInv, Agreement, SlotsOwned, Listed
    <2> QED BY <2>1, <2>2, <2>3
<1> QED BY <1>2, <1>3

(***************************************************************************)
(* TypeOK holds however the application uses the factory.                  *)
(***************************************************************************)
THEOREM Typed == Spec => []TypeOK
<1>1. Init => TypeOK
    BY TypeInit
<1>2. TypeOK /\ [Next]_vars => TypeOK'
    BY TypeStep
<1> QED BY <1>1, <1>2, PTL DEF Spec

(***************************************************************************)
(* A LuaState that toThread makes stays one: kind is set once.             *)
(***************************************************************************)
Plain == \A w \in Wrappers : pc[w] = "unborn" => kind[w] = "newLuaState"

LEMMA PlainStep ==
    ASSUME TypeOK, Plain, [Next]_vars
    PROVE  Plain' /\ (NoToThread' => NoToThread)
<1>1. ASSUME NEW w \in Wrappers, NewLuaState(w) PROVE Plain' /\ (NoToThread' => NoToThread)
    BY <1>1 DEF NewLuaState, Plain, NoToThread, TypeOK
<1>2. ASSUME NEW w \in Wrappers, Insert(w) \/ JluaOpen(w) \/ Reinsert(w)
      PROVE  Plain' /\ (NoToThread' => NoToThread)
    BY <1>2 DEF Insert, JluaOpen, Reinsert, Plain, NoToThread, TypeOK
<1>3. ASSUME NEW w \in Wrappers, CloseRemove(w) \/ CloseFree(w) \/ CloseNull(w)
      PROVE  Plain' /\ (NoToThread' => NoToThread)
    BY <1>3 DEF CloseRemove, CloseFree, CloseNull, Plain, NoToThread, TypeOK
<1>4. ASSUME NEW v \in Wrappers, NEW w \in Wrappers, NewThread(v, w) \/ ToThread(v, w)
      PROVE  Plain' /\ (NoToThread' => NoToThread)
    BY <1>4 DEF NewThread, ToThread, Plain, NoToThread, TypeOK
<1>5. CASE UNCHANGED vars
    BY <1>5 DEF vars, java, Plain, NoToThread
<1> QED BY <1>1, <1>2, <1>3, <1>4, <1>5 DEF Next

(***************************************************************************)
(* As long as no state is created below an open one and no coroutine has   *)
(* got a LuaState of its own, the factory leads Lua back to the right      *)
(* LuaState, and every wrapper of newThread shares its parent's slot.      *)
(***************************************************************************)
THEOREM Routing ==
    ASSUME Shifting = FALSE
    PROVE  Spec => [](RightState /\ ThreadsAdopted)
<1> DEFINE Inv == TypeOK /\ Plain /\ (NoToThread => Agreement)
<1>1. Init => Inv
    BY TypeInit, InitAgreement DEF Init, Plain
<1>2. Inv /\ [Next]_vars => Inv'
    <2> SUFFICES ASSUME Inv, [Next]_vars PROVE Inv'
        OBVIOUS
    <2>1. TypeOK' /\ Plain' /\ (NoToThread' => NoToThread)
        BY TypeStep, PlainStep
    <2>2. ASSUME NoToThread' PROVE Agreement'
        BY <2>1, <2>2, NextAgreement DEF IInv, Disciplined
    <2> QED BY <2>1, <2>2
<1>3. Inv => RightState /\ ThreadsAdopted
    BY AgreementRight DEF IInv, RightState, ThreadsAdopted
<1> QED BY <1>1, <1>2, <1>3, PTL DEF Spec
=============================================================================
