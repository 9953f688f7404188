--------------------------- MODULE RefTableProofs ---------------------------
(***************************************************************************)
(* Proofs about RefTable, for any number of objects, any table size and    *)
(* any set of values.                                                      *)
(*                                                                         *)
(* RefsExclusive alone is not inductive: popping a free key could hand out *)
(* a held one.  FreeListSound supplies the chain, written out as an        *)
(* injective path through the keys nobody holds.                           *)
(***************************************************************************)
EXTENDS RefTable, FiniteSetTheorems, TLAPS

IInv == TypeOK /\ RefsExclusive /\ FreeListSound

USE DEF Slots, Keys, FreelistRef, RefNil

(***************************************************************************)
(* An injective path through the keys is no longer than the table: the     *)
(* pigeonhole principle.                                                   *)
(***************************************************************************)
LEMMA PathBound ==
    ASSUME NEW n \in Nat, NEW path \in Paths(n),
           \A i, j \in 1 .. n : path[i] = path[j] => i = j
    PROVE  n \in Slots
<1>1. /\ IsFiniteSet(1 .. n) /\ Cardinality(1 .. n) = n
      /\ IsFiniteSet(Keys) /\ Cardinality(Keys) = MaxRef
    BY FS_Interval, MaxRefAssumption
<1>2. SUFFICES ASSUME Cardinality(Keys) < Cardinality(1 .. n) PROVE FALSE
    BY <1>1, MaxRefAssumption
<1>3. \E i, j \in 1 .. n : i # j /\ path[i] = path[j]
    BY <1>1, <1>2, FS_PigeonHole DEF Paths
<1> QED BY <1>3

(***************************************************************************)
(* What a step does to the set of held keys.                               *)
(***************************************************************************)
LEMMA HeldGrows ==
    ASSUME TypeOK, NEW o \in Objects, ref[o] = None,
           NEW k \in Keys, ref' = [ref EXCEPT ![o] = k]
    PROVE  Held' = Held \cup {k}
BY NoneAssumption DEF TypeOK, Held

(* A finalized object gives up its key and nobody else's. *)
LEMMA HeldShrinks ==
    ASSUME TypeOK, RefsExclusive, NEW o \in Objects, ref[o] \in Keys,
           ref' = [ref EXCEPT ![o] = None]
    PROVE  Held' = Held \ {ref[o]}
BY NoneAssumption DEF TypeOK, RefsExclusive, Held

(***************************************************************************)
(* What luaL_ref returns.  With a free key it is the last one of the path; *)
(* without one it is the first key nobody ever had, because the keys in    *)
(* use leave no hole and the border is unique.                             *)
(***************************************************************************)
LEMMA PoppedKey ==
    ASSUME TypeOK, NEW n \in Slots, n > 0, NEW path \in Paths(n),
           IsFreeList(path, n)
    PROVE  FirstFree(t) = path[n] /\ FirstFree(t) # 0 /\ RefKeys(t) = {path[n]}
<1>1. path[n] \in Keys
    BY MaxRefAssumption DEF Paths
<1>2. t[0] = path[n] /\ t[0] # Nil
    BY <1>1, NilAssumption DEF IsFreeList
<1> QED BY <1>1, <1>2 DEF FirstFree, RefKeys

(* No free key: luaL_ref takes the one key after those in use. *)
LEMMA FreshKey ==
    ASSUME TypeOK, RefsExclusive, NEW path, IsFreeList(path, 0),
           NEW top \in Slots, Held = 1 .. top,
           \A k \in Keys : k > top => t[k] = Nil
    PROVE  /\ FirstFree(t) = 0
           /\ Borders(t) = {top}
           /\ RefKeys(t) = {top + 1} \cap Keys
<1>1. t[0] = Nil /\ FirstFree(t) = 0
    BY DEF IsFreeList, FirstFree
<1>2. \A k \in 1 .. top : t[k] # Nil
    BY NilAssumption DEF Held, RefsExclusive
<1>3. Borders(t) = {top}
    <2>1. top \in Borders(t)
        BY <1>2, MaxRefAssumption DEF Borders, RawGet
    <2>2. ASSUME NEW b \in Borders(t) PROVE b = top
        <3>1. b \in Slots /\ (b = 0 \/ t[b] # Nil) /\ RawGet(t, b + 1) = Nil
            BY DEF Borders
        <3>2. b <= top
            BY <3>1, MaxRefAssumption
        <3>3. ~(b < top)
            BY <3>1, <1>2, MaxRefAssumption DEF RawGet
        <3> QED BY <3>1, <3>2, <3>3, MaxRefAssumption
    <2> QED BY <2>1, <2>2
<1> QED BY <1>1, <1>3 DEF RefKeys

(***************************************************************************)
(* In either case the key is within the table and nobody holds it.         *)
(***************************************************************************)
LEMMA RefKeyUnheld ==
    ASSUME TypeOK, RefsExclusive, FreeListSound, NEW k \in RefKeys(t)
    PROVE  k \in Keys /\ k \notin Held
<1>1. PICK n \in Slots : \E path \in Paths(n) : IsFreeList(path, n) /\ Filled(path, n)
    BY DEF FreeListSound
<1>2. PICK path \in Paths(n) : IsFreeList(path, n) /\ Filled(path, n)
    BY <1>1
<1>3. CASE n > 0
    <2>1. k = path[n]
        BY <1>2, <1>3, PoppedKey
    <2> QED BY <1>2, <1>3, <2>1, MaxRefAssumption DEF IsFreeList, Paths
<1>4. CASE n = 0
    <2>1. PICK top \in Slots : /\ Held \cup Listed(path, n) = 1 .. top
                               /\ \A j \in Keys : j > top => t[j] = Nil
        BY <1>2 DEF Filled
    <2>2. Held = 1 .. top
        <3>1. Listed(path, n) = {}
            BY <1>4 DEF Listed
        <3> QED BY <2>1, <3>1
    <2>3. RefKeys(t) = {top + 1} \cap Keys
        BY <1>2, <1>4, <2>1, <2>2, FreshKey
    <2> QED BY <2>2, <2>3, MaxRefAssumption
<1> QED BY <1>3, <1>4, MaxRefAssumption

-----------------------------------------------------------------------------
(* Every step keeps the types; a new key stays within the table. *)
LEMMA TypeStep == IInv /\ [Next]_vars => TypeOK'
<1> SUFFICES ASSUME IInv, [Next]_vars PROVE TypeOK'
    OBVIOUS
<1> USE DEF TypeOK
<1>1. ASSUME NEW o \in Objects, NEW v \in Values, Register(o, v) PROVE TypeOK'
    <2>1. PICK k \in RefKeys(t) : t' = AfterRef(t, k, v) /\ ref' = [ref EXCEPT ![o] = k]
        BY <1>1 DEF Register
    <2>2. k \in Keys
        BY RefKeyUnheld DEF IInv
    <2> QED BY <2>1, <2>2, MaxRefAssumption DEF IInv, AfterRef
<1>2. ASSUME NEW o \in Objects, RegisterNil(o) PROVE TypeOK'
    BY <1>2 DEF IInv, RegisterNil
<1>3. ASSUME NEW o \in Objects, Finalize(o) PROVE TypeOK'
    <2>1. t[0] \in Keys \cup {Nil}
        <3>1. PICK n \in Slots : \E path \in Paths(n) : IsFreeList(path, n)
            BY DEF IInv, FreeListSound
        <3>2. PICK path \in Paths(n) : IsFreeList(path, n)
            BY <3>1
        <3> QED BY <3>2, MaxRefAssumption DEF IsFreeList, Paths
    <2> QED BY <1>3, <2>1, MaxRefAssumption DEF IInv, Finalize, AfterUnref
<1>4. ASSUME UNCHANGED vars PROVE TypeOK'
    BY <1>4 DEF IInv, vars
<1> QED BY <1>1, <1>2, <1>3, <1>4 DEF Next

(***************************************************************************)
(* luaL_ref of a value: the last key of the path is popped, or, when no    *)
(* key is free, the first key above all the others is taken.               *)
(***************************************************************************)
LEMMA RegisterStep ==
    ASSUME IInv, NEW o \in Objects, NEW v \in Values, Register(o, v)
    PROVE  RefsExclusive' /\ FreeListSound'
<1>0. PICK n \in Slots : \E path \in Paths(n) : IsFreeList(path, n) /\ Filled(path, n)
    BY DEF IInv, FreeListSound
<1>1. PICK path \in Paths(n) : IsFreeList(path, n) /\ Filled(path, n)
    BY <1>0
<1>2. PICK top \in Slots : /\ Held \cup Listed(path, n) = 1 .. top
                           /\ \A k \in Keys : k > top => t[k] = Nil
    BY <1>1 DEF Filled
<1>3. PICK k \in RefKeys(t) : t' = AfterRef(t, k, v) /\ ref' = [ref EXCEPT ![o] = k]
    BY DEF Register
<1>4. CASE n > 0
    <2> DEFINE rest == [i \in 1 .. n - 1 |-> path[i]]
    <2>1. /\ k = path[n] /\ k \in Keys /\ k \notin Held /\ FirstFree(t) # 0
        <3>1. FirstFree(t) # 0 /\ RefKeys(t) = {path[n]}
            BY <1>1, <1>4, PoppedKey DEF IInv
        <3>2. path[n] \in Keys /\ path[n] \notin Held
            BY <1>1, <1>4, MaxRefAssumption DEF IsFreeList, Paths
        <3> QED BY <1>3, <3>1, <3>2
    <2>2. Held' = Held \cup {k}
        BY <1>3, <2>1, HeldGrows DEF IInv, Register
    <2>3. t' = [t EXCEPT ![0] = t[k], ![k] = v]
        BY <1>3, <2>1, MaxRefAssumption DEF AfterRef, IInv, TypeOK
    <2>4. \A i \in 1 .. n - 1 : path[i] \in Keys /\ path[i] # k /\ t'[path[i]] = t[path[i]]
        BY <1>1, <2>1, <2>3, MaxRefAssumption DEF IsFreeList, IInv, TypeOK, Paths
    <2>5. t'[0] = t[k]
        BY <2>1, <2>3, MaxRefAssumption DEF IInv, TypeOK
    <2>6. IsFreeList(rest, n - 1)'
        <3>1. \A i \in 1 .. n - 1 : i \in 1 .. n /\ rest[i] = path[i]
            BY MaxRefAssumption
        <3>2. t'[0] = IF n - 1 = 0 THEN Nil ELSE rest[n - 1]
            BY <1>1, <1>4, <2>1, <2>5, <3>1, MaxRefAssumption DEF IsFreeList
        <3>3. n - 1 > 0 => t'[rest[1]] = Nil
            BY <1>1, <2>4, <3>1, MaxRefAssumption DEF IsFreeList
        <3>4. \A i \in 2 .. n - 1 : t'[rest[i]] = rest[i - 1]
            <4> TAKE i \in 2 .. n - 1
            <4>1. i \in 2 .. n /\ i \in 1 .. n - 1 /\ i - 1 \in 1 .. n - 1
                BY MaxRefAssumption
            <4> HIDE DEF rest
            <4> QED BY <1>1, <2>4, <3>1, <4>1 DEF IsFreeList
        <3>5. \A i, j \in 1 .. n - 1 : rest[i] = rest[j] => i = j
            BY <1>1, <3>1 DEF IsFreeList
        <3>6. \A i \in 1 .. n - 1 : rest[i] \notin Held'
            BY <1>1, <2>2, <2>4, <3>1 DEF IsFreeList
        <3> HIDE DEF rest
        <3> QED BY <3>2, <3>3, <3>4, <3>5, <3>6 DEF IsFreeList
    <2>7. Held' \cup Listed(rest, n - 1) = 1 .. top
        BY <1>2, <1>4, <2>1, <2>2, MaxRefAssumption DEF Listed
    <2>8. Filled(rest, n - 1)'
        <3>1. k \in 1 .. top
            BY <2>2, <2>7
        <3>2. \A j \in Keys : j > top => t'[j] = Nil
            BY <1>2, <2>1, <2>3, <3>1, MaxRefAssumption DEF IInv, TypeOK
        <3> QED BY <2>7, <3>2 DEF Filled, Listed
    <2>9. FreeListSound'
        <3>1. n - 1 \in Slots /\ rest \in Paths(n - 1)
            BY <1>4, <2>4, MaxRefAssumption DEF Paths
        <3> HIDE DEF rest
        <3> QED BY <2>6, <2>8, <3>1 DEF FreeListSound
    <2>10. RefsExclusive'
        BY <1>3, <2>1, <2>3, NoneAssumption, MaxRefAssumption
           DEF IInv, TypeOK, RefsExclusive, Held
    <2> QED BY <2>9, <2>10
<1>5. CASE n = 0
    <2>1. Held = 1 .. top
        <3>1. Listed(path, n) = {}
            BY <1>5 DEF Listed
        <3> QED BY <1>2, <3>1
    <2>2. FirstFree(t) = 0 /\ k = top + 1 /\ k \in Keys /\ k \notin Held
        <3>1. FirstFree(t) = 0 /\ RefKeys(t) = {top + 1} \cap Keys
            BY <1>1, <1>2, <1>5, <2>1, FreshKey DEF IInv
        <3> QED BY <1>3, <2>1, <3>1, MaxRefAssumption
    <2>3. Held' = Held \cup {k}
        BY <1>3, <2>2, HeldGrows DEF IInv, Register
    <2>4. t' = [t EXCEPT ![k] = v]
        BY <1>3, <2>2, MaxRefAssumption DEF AfterRef, IInv, TypeOK
    <2>5. IsFreeList(path, 0)'
        BY <1>1, <1>5, <2>2, <2>4, MaxRefAssumption DEF IsFreeList, IInv, TypeOK
    <2>6. Held' \cup Listed(path, 0) = 1 .. top + 1
        BY <2>1, <2>2, <2>3, MaxRefAssumption DEF Listed
    <2>7. Filled(path, 0)'
        <3>1. \A j \in Keys : j > top + 1 => t'[j] = Nil
            BY <1>2, <2>2, <2>4, MaxRefAssumption DEF IInv, TypeOK
        <3>2. top + 1 \in Slots
            BY <2>2
        <3>3. Filled(path, 0)' <=>
                \E m \in Slots : /\ Held' \cup Listed(path, 0) = 1 .. m
                                 /\ \A j \in Keys : j > m => t'[j] = Nil
            BY DEF Filled, Listed
        <3> QED BY <2>6, <3>1, <3>2, <3>3
    <2>8. FreeListSound'
        BY <1>5, <2>5, <2>7, MaxRefAssumption DEF FreeListSound
    <2>9. RefsExclusive'
        BY <1>3, <2>2, <2>4, NoneAssumption, MaxRefAssumption
           DEF IInv, TypeOK, RefsExclusive, Held
    <2> QED BY <2>8, <2>9
<1> QED BY <1>4, <1>5, MaxRefAssumption

(* Steps that touch neither table nor keys keep the free list. *)
LEMMA SameFreeList ==
    ASSUME FreeListSound, t' = t, Held' = Held
    PROVE  FreeListSound'
<1>1. PICK n \in Slots : \E path \in Paths(n) : IsFreeList(path, n) /\ Filled(path, n)
    BY DEF FreeListSound
<1>2. PICK path \in Paths(n) : IsFreeList(path, n) /\ Filled(path, n)
    BY <1>1
<1>3. IsFreeList(path, n)' /\ Filled(path, n)'
    BY <1>2 DEF IsFreeList, Filled, Listed
<1>4. FreeListSound' <=>
        \E m \in Slots : \E p \in Paths(m) : IsFreeList(p, m)' /\ Filled(p, m)'
    BY DEF FreeListSound, Paths
<1> QED BY <1>3, <1>4

(* A nil is never stored: LUA_REFNIL leaves the table alone. *)
LEMMA RegisterNilStep ==
    ASSUME IInv, NEW o \in Objects, RegisterNil(o)
    PROVE  RefsExclusive' /\ FreeListSound'
<1>1. Held' = Held
    <2>1. \A p \in Objects : ref'[p] = IF p = o THEN -1 ELSE ref[p]
        BY DEF IInv, TypeOK, RegisterNil
    <2> QED BY <2>1, NoneAssumption DEF RegisterNil, Held
<1>2. FreeListSound'
    BY <1>1, SameFreeList DEF IInv, RegisterNil
<1>3. RefsExclusive'
    BY MaxRefAssumption DEF IInv, RegisterNil, RefsExclusive, TypeOK
<1> QED BY <1>2, <1>3

(***************************************************************************)
(* luaL_unref of a held key: it becomes the last key of the path.          *)
(***************************************************************************)
LEMMA FinalizeStep ==
    ASSUME IInv, NEW o \in Objects, Finalize(o), NEW k, k = ref[o]
    PROVE  RefsExclusive' /\ FreeListSound'
<1>0. PICK n \in Slots : \E path \in Paths(n) : IsFreeList(path, n) /\ Filled(path, n)
    BY DEF IInv, FreeListSound
<1>1. PICK path \in Paths(n) : IsFreeList(path, n) /\ Filled(path, n)
    BY <1>0
<1>2. PICK top \in Slots : /\ Held \cup Listed(path, n) = 1 .. top
                           /\ \A j \in Keys : j > top => t[j] = Nil
    BY <1>1 DEF Filled
<1>3. ref' = [ref EXCEPT ![o] = None]
    BY DEF Finalize
<1>4. CASE k \notin Keys
    <2>1. k = -1
        BY <1>4 DEF IInv, TypeOK, Finalize
    <2>2. t' = t
        BY <2>1 DEF Finalize, AfterUnref
    <2>3. Held' = Held
        <3>1. \A p \in Objects : ref'[p] = IF p = o THEN None ELSE ref[p]
            BY <1>3 DEF IInv, TypeOK
        <3> QED BY <1>4, <3>1, NoneAssumption DEF Held
    <2>4. FreeListSound'
        BY <2>2, <2>3, SameFreeList DEF IInv
    <2>5. RefsExclusive'
        BY <1>3, <2>2, NoneAssumption DEF IInv, RefsExclusive, TypeOK
    <2> QED BY <2>4, <2>5
<1>5. CASE k \in Keys
    <2> DEFINE more == [i \in 1 .. n + 1 |-> IF i = n + 1 THEN k ELSE path[i]]
    <2>1. k \in Held /\ k \in 1 .. top /\ \A i \in 1 .. n : path[i] \in Keys /\ path[i] # k
        BY <1>1, <1>2, <1>5 DEF IsFreeList, Held, Paths
    <2>2. Held' = Held \ {k}
        BY <1>3, <1>5, HeldShrinks DEF IInv
    <2>3. t' = [t EXCEPT ![k] = t[0], ![0] = k]
        BY <1>5, MaxRefAssumption DEF Finalize, AfterUnref
    <2>4. /\ t'[0] = k /\ t'[k] = t[0]
          /\ \A j \in Keys : j # k => t'[j] = t[j]
        BY <1>5, <2>3, MaxRefAssumption DEF IInv, TypeOK
    <2>5. \A i, j \in 1 .. n + 1 : more[i] = more[j] => i = j
        BY <1>1, <2>1, MaxRefAssumption DEF IsFreeList
    <2>6. n + 1 \in Slots /\ more \in Paths(n + 1)
        <3>1. more \in Paths(n + 1) /\ n + 1 \in Nat
            BY <1>5, <2>1, MaxRefAssumption DEF Paths
        <3> HIDE DEF more
        <3> QED BY <2>5, <3>1, PathBound
    <2>7. IsFreeList(more, n + 1)'
        <3>1. n + 1 > 0 /\ more[n + 1] = k /\ \A i \in 1 .. n : more[i] = path[i]
            BY MaxRefAssumption
        <3>2. t'[more[1]] = Nil
            BY <1>1, <2>1, <2>4, <3>1, MaxRefAssumption DEF IsFreeList
        <3>3. \A i \in 2 .. n + 1 : t'[more[i]] = more[i - 1]
            <4> HIDE DEF more
            <4> TAKE i \in 2 .. n + 1
            <4>1. CASE i \in 2 .. n
                <5>1. i \in 1 .. n /\ i - 1 \in 1 .. n
                    BY <4>1, MaxRefAssumption
                <5> QED BY <1>1, <2>1, <2>4, <3>1, <4>1, <5>1 DEF IsFreeList
            <4>2. CASE i = n + 1
                <5>1. i - 1 = n /\ n \in 1 .. n /\ n # 0
                    BY <4>2, MaxRefAssumption
                <5> QED BY <1>1, <2>4, <3>1, <4>2, <5>1 DEF IsFreeList
            <4> QED BY <4>1, <4>2, MaxRefAssumption
        <3>4. \A i \in 1 .. n + 1 : more[i] \notin Held'
            BY <1>1, <2>2, <3>1, MaxRefAssumption DEF IsFreeList
        <3>5. n + 1 # 0
            BY <3>1
        <3> HIDE DEF more
        <3> QED BY <2>4, <2>5, <3>1, <3>2, <3>3, <3>4, <3>5 DEF IsFreeList
    <2>8. Held' \cup Listed(more, n + 1) = 1 .. top
        <3>1. Listed(more, n + 1) = Listed(path, n) \cup {k}
            BY MaxRefAssumption DEF Listed
        <3> QED BY <1>2, <2>1, <2>2, <3>1
    <2>9. Filled(more, n + 1)'
        <3>1. \A j \in Keys : j > top => t'[j] = Nil
            BY <1>2, <2>1, <2>4, MaxRefAssumption
        <3>2. Filled(more, n + 1)' <=>
                \E m \in Slots : /\ Held' \cup Listed(more, n + 1) = 1 .. m
                                 /\ \A j \in Keys : j > m => t'[j] = Nil
            BY DEF Filled, Listed
        <3> HIDE DEF more
        <3> QED BY <2>8, <3>1, <3>2
    <2>10. FreeListSound'
        <3> HIDE DEF more
        <3> QED BY <2>6, <2>7, <2>9 DEF FreeListSound
    <2>11. RefsExclusive'
        BY <1>3, <1>5, <2>4, NoneAssumption DEF IInv, TypeOK, RefsExclusive
    <2> QED BY <2>10, <2>11
<1> QED BY <1>4, <1>5

-----------------------------------------------------------------------------
(* The empty registry: an empty path, nothing held. *)
LEMMA InitInv == Init => IInv
<1> SUFFICES ASSUME Init PROVE IInv
    OBVIOUS
<1>1. TypeOK
    BY MaxRefAssumption DEF Init, TypeOK
<1>2. Held = {}
    BY NoneAssumption DEF Init, Held
<1>3. RefsExclusive
    BY NoneAssumption DEF Init, RefsExclusive
<1>4. FreeListSound
    <2> DEFINE empty == [i \in 1 .. 0 |-> 1]
    <2>1. 0 \in Slots /\ empty \in Paths(0)
        BY MaxRefAssumption DEF Paths
    <2>2. IsFreeList(empty, 0)
        BY MaxRefAssumption DEF Init, IsFreeList
    <2>3. Filled(empty, 0)
        BY <1>2, <2>1, MaxRefAssumption DEF Init, Filled, Listed
    <2> HIDE DEF empty
    <2> QED BY <2>1, <2>2, <2>3 DEF FreeListSound
<1> QED BY <1>1, <1>3, <1>4 DEF IInv

(* The invariant is inductive. *)
LEMMA NextInv == IInv /\ [Next]_vars => IInv'
<1> SUFFICES ASSUME IInv, [Next]_vars PROVE RefsExclusive' /\ FreeListSound'
    BY TypeStep DEF IInv
<1>1. ASSUME NEW o \in Objects, NEW v \in Values, Register(o, v)
      PROVE  RefsExclusive' /\ FreeListSound'
    BY <1>1, RegisterStep
<1>2. ASSUME NEW o \in Objects, RegisterNil(o)
      PROVE  RefsExclusive' /\ FreeListSound'
    BY <1>2, RegisterNilStep
<1>3. ASSUME NEW o \in Objects, Finalize(o)
      PROVE  RefsExclusive' /\ FreeListSound'
    BY <1>3, FinalizeStep
<1>4. ASSUME UNCHANGED vars PROVE RefsExclusive' /\ FreeListSound'
    <2>1. t' = t /\ Held' = Held
        BY <1>4 DEF vars, Held
    <2> QED BY <1>4, <2>1, SameFreeList DEF IInv, RefsExclusive, vars
<1> QED BY <1>1, <1>2, <1>3, <1>4 DEF Next

(***************************************************************************)
(* luaL_ref and luaL_unref keep the free list of the registry sound, and   *)
(* no two LuaObjects ever share a key.                                     *)
(***************************************************************************)
THEOREM RefsSafe == Spec => [](TypeOK /\ RefsExclusive /\ FreeListSound)
<1>1. Init => IInv
    BY InitInv
<1>2. IInv /\ [Next]_vars => IInv'
    BY NextInv
<1> QED BY <1>1, <1>2, PTL DEF Spec, IInv

(* A path and the keys held fill the table up to one border. *)
LEMMA InvKeys == IInv => KeyDetermined /\ NoKeyLost
<1> SUFFICES ASSUME IInv PROVE KeyDetermined /\ NoKeyLost
    OBVIOUS
<1>1. PICK n \in Slots : \E path \in Paths(n) : IsFreeList(path, n) /\ Filled(path, n)
    BY DEF IInv, FreeListSound
<1>2. PICK path \in Paths(n) : IsFreeList(path, n) /\ Filled(path, n)
    BY <1>1
<1>3. CASE n > 0
    BY <1>2, <1>3, PoppedKey DEF IInv, KeyDetermined, NoKeyLost
<1>4. CASE n = 0
    <2>1. PICK top \in Slots : /\ Held \cup Listed(path, n) = 1 .. top
                               /\ \A k \in Keys : k > top => t[k] = Nil
        BY <1>2 DEF Filled
    <2>2. Held = 1 .. top
        <3>1. Listed(path, n) = {}
            BY <1>4 DEF Listed
        <3> QED BY <2>1, <3>1
    <2>3. RefKeys(t) = {top + 1} \cap Keys
        BY <1>2, <1>4, <2>1, <2>2, FreshKey DEF IInv
    <2>4. \A k \in Held : t[k] # Nil
        BY NilAssumption DEF IInv, RefsExclusive, Held
    <2>5. Held = {k \in Keys : t[k] # Nil}
        BY <2>1, <2>2, <2>4, MaxRefAssumption
    <2> QED BY <2>3, <2>5 DEF KeyDetermined, NoKeyLost
<1> QED BY <1>3, <1>4, MaxRefAssumption

(***************************************************************************)
(* luaL_ref asks for the length of the registry only when there is a       *)
(* single border, and the table grows only when no key is free.            *)
(***************************************************************************)
THEOREM KeysExact == Spec => [](KeyDetermined /\ NoKeyLost)
<1>1. Spec => []IInv
    BY RefsSafe, PTL DEF IInv
<1> QED BY <1>1, InvKeys, PTL

-----------------------------------------------------------------------------
(* The refinement: what an object denotes is untouched by the others. *)

(* No object denotes anything at first. *)
LEMMA InitRefines == Init => Cells!CellInit
<1> SUFFICES ASSUME Init PROVE \A o \in Objects : Denotes(o) = None
    BY DEF Cells!CellInit
<1> QED BY DEF Init, Denotes

(***************************************************************************)
(* A slot is written by the step of the object that holds it and no other: *)
(* luaL_ref writes slot 0 and an unheld key, luaL_unref writes slot 0 and  *)
(* the key given back.                                                     *)
(***************************************************************************)
LEMMA OthersKeep ==
    ASSUME IInv, NEW o \in Objects, NEW p \in Objects, p # o,
           \/ \E v \in Values : Register(o, v)
           \/ RegisterNil(o)
           \/ Finalize(o)
    PROVE  Denotes(p)' = Denotes(p)
<1>1. ref'[p] = ref[p]
    BY DEF IInv, TypeOK, Register, RegisterNil, Finalize
<1>2. CASE ref[p] \notin Keys
    BY <1>1, <1>2, MaxRefAssumption DEF IInv, TypeOK, Denotes, RawGet
<1>3. CASE ref[p] \in Keys
    <2>1. SUFFICES t'[ref[p]] = t[ref[p]]
        BY <1>1, <1>3, MaxRefAssumption DEF Denotes, RawGet
    <2>2. ASSUME NEW v \in Values, Register(o, v) PROVE t'[ref[p]] = t[ref[p]]
        <3>1. PICK k \in RefKeys(t) : t' = AfterRef(t, k, v)
            BY <2>2 DEF Register
        <3>2. k \notin Held
            BY RefKeyUnheld DEF IInv
        <3> QED BY <1>3, <3>1, <3>2, MaxRefAssumption DEF IInv, TypeOK, AfterRef, Held
    <2>3. CASE RegisterNil(o)
        BY <2>3 DEF RegisterNil
    <2>4. CASE Finalize(o)
        BY <1>3, <2>4, MaxRefAssumption DEF IInv, TypeOK, RefsExclusive, Finalize, AfterUnref
    <2> QED BY <2>2, <2>3, <2>4
<1> QED BY <1>2, <1>3

(* Every step changes the cell of one object at most. *)
LEMMA NextRefines == IInv /\ [Next]_vars => [Cells!CellNext]_([o \in Objects |-> Denotes(o)])
<1> DEFINE cell == [o \in Objects |-> Denotes(o)]
<1> SUFFICES ASSUME IInv, [Next]_vars PROVE Cells!CellNext \/ cell' = cell
    OBVIOUS
<1>1. ASSUME NEW o \in Objects, NEW v \in Values, Register(o, v) PROVE Cells!CellNext
    <2>1. PICK k \in RefKeys(t) : t' = AfterRef(t, k, v) /\ ref' = [ref EXCEPT ![o] = k]
        BY <1>1 DEF Register
    <2>2. k \in Keys
        BY RefKeyUnheld DEF IInv
    <2>3. Denotes(o) = None /\ Denotes(o)' = v
        BY <1>1, <2>1, <2>2, NoneAssumption, MaxRefAssumption
           DEF IInv, TypeOK, Register, Denotes, RawGet, AfterRef
    <2>4. cell' = [cell EXCEPT ![o] = v]
        BY <1>1, <2>3, OthersKeep
    <2>5. Cells!Take(o, v)
        BY <2>3, <2>4 DEF Cells!Take
    <2> QED BY <2>5 DEF Cells!CellNext
<1>2. ASSUME NEW o \in Objects, RegisterNil(o) PROVE Cells!CellNext
    <2>1. Denotes(o) = None /\ Denotes(o)' = Nil
        BY <1>2, NoneAssumption, MaxRefAssumption DEF IInv, TypeOK, RegisterNil, Denotes, RawGet
    <2>2. cell' = [cell EXCEPT ![o] = Nil]
        BY <1>2, <2>1, OthersKeep
    <2>3. Cells!Take(o, Nil)
        BY <2>1, <2>2 DEF Cells!Take
    <2> QED BY <2>3 DEF Cells!CellNext
<1>3. ASSUME NEW o \in Objects, Finalize(o) PROVE Cells!CellNext
    <2>1. Denotes(o) # None /\ Denotes(o)' = None
        BY <1>3, NoneAssumption, MaxRefAssumption
           DEF IInv, TypeOK, RefsExclusive, Finalize, Denotes, RawGet
    <2>2. cell' = [cell EXCEPT ![o] = None]
        BY <1>3, <2>1, OthersKeep
    <2>3. Cells!Give(o)
        BY <2>1, <2>2 DEF Cells!Give
    <2> QED BY <2>3 DEF Cells!CellNext
<1>4. ASSUME UNCHANGED vars PROVE cell' = cell
    BY <1>4 DEF vars, Denotes, RawGet
<1> QED BY <1>1, <1>2, <1>3, <1>4 DEF Next

(***************************************************************************)
(* One shared table serves every LuaObject as if it had a cell of its own. *)
(***************************************************************************)
THEOREM Refinement == Spec => ImplementsCells
<1>1. Init => Cells!CellInit
    BY InitRefines
<1>2. IInv /\ [Next]_vars => [Cells!CellNext]_([o \in Objects |-> Denotes(o)])
    BY NextRefines
<1>3. Spec => []IInv
    BY RefsSafe, PTL DEF IInv
<1> QED BY <1>1, <1>2, <1>3, PTL DEF Spec, ImplementsCells, Cells!CellSpec
=============================================================================
