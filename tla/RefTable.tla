------------------------------ MODULE RefTable ------------------------------
(***************************************************************************)
(* The reference system of the Lua registry, as JLua uses it: every        *)
(* LuaObject keeps the value it denotes in the registry table, under an    *)
(* integer key that luaL_ref chooses and luaL_unref takes back             *)
(* (lauxlib.c).  Free keys are chained through the table itself: slot 0    *)
(* (FREELIST_REF) holds the first free key and each free slot holds the    *)
(* next one, so a free slot looks exactly like a slot that stores a        *)
(* number.  A new key is the border that the # operator finds, which is    *)
(* unique only while the table has no hole.                                *)
(***************************************************************************)
EXTENDS Integers

CONSTANTS
    Objects,    \* the LuaObject instances
    Values,     \* the Lua values other than nil; numbers may be among them
    Nil,        \* the Lua value nil
    None,       \* the Java null: a LuaObject without a reference
    MaxRef      \* bound: the largest key of the registry table

ASSUME NilAssumption == Nil \notin Values /\ Nil \notin Int
ASSUME NoneAssumption == None \notin Values /\ None \notin Int /\ None # Nil
ASSUME MaxRefAssumption == MaxRef \in Nat

VARIABLES
    t,          \* the integer part of the registry table
    ref         \* ref[o]: the field LuaObject.ref

vars == <<t, ref>>

FreelistRef == 0
RefNil == -1
Slots == 0 .. MaxRef
Keys == 1 .. MaxRef

-----------------------------------------------------------------------------
(* The table and the auxiliary library, as operators on a table. *)

\* lua_rawgeti: an absent key reads as nil.
RawGet(tab, k) == IF k \in Slots THEN tab[k] ELSE Nil

\* luaH_getn: some n with tab[n] non-nil (or n = 0) and tab[n+1] nil.
Borders(tab) == {n \in Slots : /\ n = 0 \/ tab[n] # Nil
                               /\ RawGet(tab, n + 1) = Nil}

\* lua_tointeger of slot 0: nil counts as 0, the end of the list.
FirstFree(tab) == IF tab[FreelistRef] = Nil THEN 0 ELSE tab[FreelistRef]

\* The keys luaL_ref may return for a value that is not nil.
RefKeys(tab) == IF FirstFree(tab) # 0
                THEN {FirstFree(tab)}
                ELSE {n + 1 : n \in Borders(tab)} \cap Keys

\* Mutants: luaL_ref takes the first free key but leaves it in the list;
\* luaL_ref forgets the rest of the list.
AfterRefUnpopped(tab, k, v) == [tab EXCEPT ![k] = v]
AfterRefTruncates(tab, k, v) == [tab EXCEPT ![FreelistRef] = Nil, ![k] = v]

\* The table luaL_ref leaves when it stores v under key k.
AfterRef(tab, k, v) ==
    [tab EXCEPT ![FreelistRef] = IF FirstFree(tab) # 0 THEN tab[k] ELSE @,
                ![k] = v]

\* The table luaL_unref leaves; a negative reference (RefNil) is ignored.
AfterUnref(tab, k) ==
    IF k >= 0 THEN [tab EXCEPT ![k] = tab[FreelistRef], ![FreelistRef] = k]
              ELSE tab

-----------------------------------------------------------------------------
TypeOK == /\ t \in [Slots -> Values \cup Keys \cup {Nil}]
          /\ ref \in [Objects -> Keys \cup {RefNil, None}]

Init == /\ t = [k \in Slots |-> Nil]
        /\ ref = [o \in Objects |-> None]

\* LuaObject.registerValue with a value on the top of the stack.
Register(o, v) ==
    /\ ref[o] = None
    /\ \E k \in RefKeys(t) : /\ t' = AfterRef(t, k, v)
                             /\ ref' = [ref EXCEPT ![o] = k]

\* The same with nil on the top: the fixed reference, and no slot.
RegisterNil(o) ==
    /\ ref[o] = None
    /\ ref' = [ref EXCEPT ![o] = RefNil]
    /\ UNCHANGED t

\* Mutant: LuaObject.finalize run again on an object it has released.
FinalizeAgain(o) ==
    /\ ref[o] # None
    /\ t' = AfterUnref(t, ref[o])
    /\ UNCHANGED ref

\* LuaObject.finalize.
Finalize(o) ==
    /\ ref[o] # None
    /\ t' = AfterUnref(t, ref[o])
    /\ ref' = [ref EXCEPT ![o] = None]

Next == \E o \in Objects : \/ \E v \in Values : Register(o, v)
                           \/ RegisterNil(o)
                           \/ Finalize(o)

Spec == Init /\ [][Next]_vars

-----------------------------------------------------------------------------
Held == {ref[o] : o \in Objects} \cap Keys

\* A path of n keys through the table.
Paths(n) == [1 .. n -> Keys]

(***************************************************************************)
(* The free list, written out: path[n] is the first free key, path[1] the  *)
(* last one.  It runs through slots nobody holds, ends in nil and, with    *)
(* the held keys, fills an initial segment of the table.                   *)
(***************************************************************************)
IsFreeList(path, n) ==
    /\ t[FreelistRef] = IF n = 0 THEN Nil ELSE path[n]
    /\ n > 0 => t[path[1]] = Nil
    /\ \A i \in 2 .. n : t[path[i]] = path[i - 1]
    /\ \A i, j \in 1 .. n : path[i] = path[j] => i = j
    /\ \A i \in 1 .. n : path[i] \notin Held

Listed(path, n) == {path[i] : i \in 1 .. n}

\* Every key in use or free is below every key never handed out, and the
\* latter hold nil: what makes the border unique when no key is free.
Filled(path, n) ==
    \E top \in Slots : /\ Held \cup Listed(path, n) = 1 .. top
                       /\ \A k \in Keys : k > top => t[k] = Nil

(***************************************************************************)
(* The chain through slot 0 visits each key that was handed back once and  *)
(* no key a LuaObject still holds, whatever numbers the objects store.     *)
(***************************************************************************)
FreeListSound ==
    \E n \in Slots : \E path \in Paths(n) :
        IsFreeList(path, n) /\ Filled(path, n)

(***************************************************************************)
(* No two LuaObjects share a key, and a held key stores a value: nothing   *)
(* but the object's own finalizer frees its slot.                          *)
(***************************************************************************)
RefsExclusive ==
    /\ \A o, p \in Objects : ref[o] \in Keys /\ ref[o] = ref[p] => o = p
    /\ \A o \in Objects : ref[o] \in Keys => t[ref[o]] \in Values

(***************************************************************************)
(* luaL_ref never has a choice: when it asks for the length of the table   *)
(* there is one border, so the key does not depend on how the table is     *)
(* laid out (array part or hash part).                                     *)
(***************************************************************************)
KeyDetermined == \A j, k \in RefKeys(t) : j = k

(***************************************************************************)
(* A key is never lost: the table grows only when every key below the      *)
(* border is held, so it never has more keys than objects were alive.      *)
(***************************************************************************)
NoKeyLost ==
    FirstFree(t) = 0 => Held = {k \in Keys : t[k] # Nil}

-----------------------------------------------------------------------------
\* What each object denotes: LuaObject.push reads the slot back.
Denotes(o) == IF ref[o] = None THEN None ELSE RawGet(t, ref[o])

Cells == INSTANCE ObjectCells WITH cell <- [o \in Objects |-> Denotes(o)]

(***************************************************************************)
(* The shared table implements one private cell per LuaObject: an object   *)
(* pushes the value it was built with, whatever the others do.             *)
(***************************************************************************)
ImplementsCells == Cells!CellSpec
=============================================================================
