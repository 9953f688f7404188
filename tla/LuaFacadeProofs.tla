-------------------------- MODULE LuaFacadeProofs --------------------------
(***************************************************************************)
(* For stacks of any size, any values, any chunks and any heap to start    *)
(* from: no native method of LuaState and no method of Lua or LuaObject    *)
(* takes the stack out of its frame, the strings that jluajni.c pins are   *)
(* released again, the methods of Lua and LuaObject leave the stack as     *)
(* they found it but for what is pushed before a refused value, and        *)
(* natives that look at an element leave the stack and the tables alone.   *)
(*                                                                         *)
(* The argument.  Reaches(s, r, h, t) says of the states s and r that the  *)
(* way from s led to r, whose top is t while the slots below h are those   *)
(* of s, or to an error.  Each operation of the API has a lemma that says  *)
(* where it leads, in terms of where r has come: a push to t + 1, a pop of *)
(* n values to t - n if h <= t - n, a call from its function and arguments *)
(* to its results, and so on.  Where an operation writes to slots, a lemma *)
(* of the name ...Effect says which, and EffectReaches does the rest.  The *)
(* auxiliary functions, the natives and the methods are compositions, and  *)
(* so are their lemmas; a method of Lua is one that leads back to the top  *)
(* it started from with h at that top.  The inductive invariant says that  *)
(* the state is a stack within its bounds, or one with an error.           *)
(***************************************************************************)
EXTENDS LuaFacade, WellFoundedInduction, TLAPS

\* From s to r the slots below h are kept and the top comes to t, or there is an error.
Reaches(s, r, h, t) ==
    /\ IsState(r)
    /\ r.err = NoError => /\ s.err = NoError
                          /\ r.base = s.base /\ r.top = t /\ r.pins = s.pins
                          /\ \A a \in 1..h - 1 : r.mem[a] = s.mem[a]

\* One step: the slots are m then and the top is t, or there is an error.
Effect(s, r, m, t) ==
    /\ IsRecord(r) /\ r.pins = s.pins
    /\ r.err = NoError => /\ s.err = NoError /\ r.base = s.base /\ r.mem = m /\ r.top = t
                          /\ r.citop \in {s.citop, t} \cup 0..Cap + 1

\* m has the slots of r below h.
Keeps(r, m, h) == AreSlots(m) /\ \A a \in 1..h - 1 : m[a] = r.mem[a]

\* The slots after an assignment to one, or to those of a region.
Set(m, x, v) == [m EXCEPT ![x] = v]
Filled(m, from, to, v) == [a \in DOMAIN m |-> IF a \in from..to THEN v ELSE m[a]]
Lowered(m, from, to) == [a \in DOMAIN m |-> IF a \in from..to THEN m[a + 1] ELSE m[a]]
Lifted(m, from, to) == [a \in DOMAIN m |-> IF a \in from..to THEN m[a - 1] ELSE m[a]]
\* From func on, n of the values or Nil.
Resulting(m, func, n, values) ==
    [a \in DOMAIN m |->
        IF a \in func..(func + n - 1)
        THEN (IF a - func + 1 \in 1..Len(values) THEN values[a - func + 1] ELSE Nil)
        ELSE m[a]]

\* The slot of an index when the top is t.
Place(s, i, t) == IF i > 0 THEN s.base + i - 1 ELSE t + i

----------------------------------------------------------------------------
(* Slots: what an assignment, a move or a fill leaves of those below h, and where
   the operations that only move values lead. *)

\* The bounds are numbers.
LEMMA CapNat == Cap \in Nat /\ MinStack \in Nat /\ MaxArgs \in Nat /\ MaxArgs >= 2 /\ Cap >= 2 + MinStack
BY StackAssumption DEF StackAssumption

\* An operation leads to u if it writes to no slot below h.
LEMMA EffectReaches ==
    ASSUME NEW s, NEW r, NEW h \in Int, NEW t \in Int, Reaches(s, r, h, t), NEW q, NEW m, NEW w, NEW u,
           Effect(r, q, m, w),
           r.err = NoError /\ IsStack(r) /\ r.base = s.base /\ r.top = t => Keeps(r, m, h) /\ w = u /\ u \in s.base..Cap + 1
    PROVE  Reaches(s, q, h, u)
BY CapNat DEF Reaches, Effect, IsState, IsStack, Keeps

\* The slots after each kind of write.
LEMMA SlotSet == ASSUME NEW m, AreSlots(m), NEW x, NEW v
    PROVE AreSlots(Set(m, x, v)) /\ \A a \in 1..Cap : Set(m, x, v)[a] = IF a = x THEN v ELSE m[a]
<1>1. DOMAIN m = 1..Cap BY DEF AreSlots
<1>2. Set(m, x, v) = [a \in 1..Cap |-> IF a = x THEN v ELSE m[a]] BY <1>1 DEF Set
<1> QED BY <1>2 DEF AreSlots

LEMMA SlotsFilled == ASSUME NEW m, AreSlots(m), NEW from \in Int, NEW to \in Int, NEW v
    PROVE /\ AreSlots(Filled(m, from, to, v))
          /\ \A a \in 1..Cap : Filled(m, from, to, v)[a] = IF a \in from..to THEN v ELSE m[a]
<1>1. DOMAIN m = 1..Cap BY DEF AreSlots
<1>2. Filled(m, from, to, v) = [a \in 1..Cap |-> IF a \in from..to THEN v ELSE m[a]]
  BY <1>1 DEF Filled
<1> QED BY <1>2 DEF AreSlots

LEMMA SlotsLowered == ASSUME NEW m, AreSlots(m), NEW from \in Int, NEW to \in Int
    PROVE /\ AreSlots(Lowered(m, from, to))
          /\ \A a \in 1..Cap : Lowered(m, from, to)[a] = IF a \in from..to THEN m[a + 1] ELSE m[a]
<1>1. DOMAIN m = 1..Cap BY DEF AreSlots
<1>2. Lowered(m, from, to) = [a \in 1..Cap |-> IF a \in from..to THEN m[a + 1] ELSE m[a]]
  BY <1>1 DEF Lowered
<1> QED BY <1>2 DEF AreSlots

LEMMA SlotsLifted == ASSUME NEW m, AreSlots(m), NEW from \in Int, NEW to \in Int
    PROVE /\ AreSlots(Lifted(m, from, to))
          /\ \A a \in 1..Cap : Lifted(m, from, to)[a] = IF a \in from..to THEN m[a - 1] ELSE m[a]
<1>1. DOMAIN m = 1..Cap BY DEF AreSlots
<1>2. Lifted(m, from, to) = [a \in 1..Cap |-> IF a \in from..to THEN m[a - 1] ELSE m[a]]
  BY <1>1 DEF Lifted
<1> QED BY <1>2 DEF AreSlots

LEMMA SlotsResults == ASSUME NEW m, AreSlots(m), NEW func \in Int, NEW n \in Int, NEW values
    PROVE /\ AreSlots(Resulting(m, func, n, values))
          /\ \A a \in 1..Cap : Resulting(m, func, n, values)[a] =
                 IF a \in func..(func + n - 1)
                 THEN (IF a - func + 1 \in 1..Len(values) THEN values[a - func + 1] ELSE Nil)
                 ELSE m[a]
<1>1. DOMAIN m = 1..Cap BY DEF AreSlots
<1>2. Resulting(m, func, n, values) =
          [a \in 1..Cap |->
              IF a \in func..(func + n - 1)
              THEN (IF a - func + 1 \in 1..Len(values) THEN values[a - func + 1] ELSE Nil)
              ELSE m[a]]
  BY <1>1 DEF Resulting
<1> QED BY <1>2 DEF AreSlots

LEMMA SlotBelow == ASSUME NEW h \in Int, h <= Cap + 1 PROVE \A a \in 1..h - 1 : a \in 1..Cap
<1> Cap \in Nat BY CapNat
<1> QED OBVIOUS

\* Writes from h on keep the slots below.
LEMMA SetKeeps == ASSUME NEW r, IsStack(r), NEW h \in Int, h <= Cap + 1, NEW x, NEW v, x \notin 1..h - 1
    PROVE Keeps(r, Set(r.mem, x, v), h)
BY SlotBelow, SlotSet DEF Keeps, IsStack

LEMMA FilledKeeps ==
    ASSUME NEW r, IsStack(r), NEW h \in Int, h <= Cap + 1, NEW from \in Int, NEW to \in Int, NEW v, h <= from
    PROVE Keeps(r, Filled(r.mem, from, to, v), h)
<1>1. \A a \in 1..h - 1 : a \notin from..to OBVIOUS
<1> QED BY <1>1, SlotBelow, SlotsFilled DEF Keeps, IsStack

LEMMA LoweredKeeps ==
    ASSUME NEW r, IsStack(r), NEW h \in Int, h <= Cap + 1, NEW from \in Int, NEW to \in Int, h <= from
    PROVE Keeps(r, Lowered(r.mem, from, to), h)
<1>1. \A a \in 1..h - 1 : a \notin from..to OBVIOUS
<1> QED BY <1>1, SlotBelow, SlotsLowered DEF Keeps, IsStack

LEMMA LiftedKeeps ==
    ASSUME NEW r, IsStack(r), NEW h \in Int, h <= Cap + 1, NEW from \in Int, NEW to \in Int, h <= from
    PROVE Keeps(r, Lifted(r.mem, from, to), h)
<1>1. \A a \in 1..h - 1 : a \notin from..to OBVIOUS
<1> QED BY <1>1, SlotBelow, SlotsLifted DEF Keeps, IsStack

LEMMA ResultsKeeps ==
    ASSUME NEW r, IsStack(r), NEW h \in Int, h <= Cap + 1, NEW func \in Int, NEW n \in Int, NEW values, h <= func
    PROVE Keeps(r, Resulting(r.mem, func, n, values), h)
<1>1. \A a \in 1..h - 1 : a \notin func..(func + n - 1) OBVIOUS
<1> QED BY <1>1, SlotBelow, SlotsResults DEF Keeps, IsStack

LEMMA SetLiftedKeeps ==
    ASSUME NEW r, IsStack(r), NEW h \in Int, h <= Cap + 1, NEW from \in Int, NEW to \in Int, h <= from,
           NEW x, NEW v, x \notin 1..h - 1
    PROVE Keeps(r, Set(Lifted(r.mem, from, to), x, v), h)
<1>1. Keeps(r, Lifted(r.mem, from, to), h) BY LiftedKeeps
<1> QED BY <1>1, SlotBelow, SlotSet DEF Keeps

LEMMA SameKeeps == ASSUME NEW r, IsStack(r), NEW h PROVE Keeps(r, r.mem, h)
BY DEF Keeps, IsStack

\* s with other slots, and with another top.
Now(s, m, t) == [s EXCEPT !.mem = m, !.top = t]
Placed(s, m) == [s EXCEPT !.mem = m]
LEMMA NowEffect == ASSUME NEW s, IsRecord(s), NEW m, NEW t
    PROVE Effect(s, Now(s, m, t), m, t) /\ Effect(s, Placed(s, m), m, s.top)
BY CapNat DEF IsRecord, Fields, Effect, Now, Placed

LEMMA IsRecordOf == ASSUME NEW s, NEW r, NEW h, NEW t, Reaches(s, r, h, t) PROVE IsRecord(r)
BY DEF Reaches, IsState

\* Where a state is when it has come to t.
LEMMA Bounds ==
    ASSUME NEW s, NEW r, IsStack(r), r.base = s.base
    PROVE  r.base \in Nat \ {0} /\ r.top \in Nat /\ r.base <= r.top /\ r.top <= Cap + 1 /\ r.citop \in Nat /\ r.citop <= Cap + 1
BY CapNat DEF IsStack

\* lua_push..., lua_settop, lua_pop, lua_remove and lua_insert.
LEMMA PushEffect == ASSUME NEW s, IsRecord(s), NEW v
    PROVE Effect(s, Push(s, v), Set(s.mem, s.top, v), s.top + 1)
BY CapNat DEF IsRecord, Fields, Effect, Push, Set
LEMMA PushReaches ==
    ASSUME NEW s, NEW r, NEW h \in Int, NEW t \in Int, Reaches(s, r, h, t), NEW v, h <= t, t <= Cap
    PROVE  Reaches(s, Push(r, v), h, t + 1)
<1>1. IsRecord(r) BY IsRecordOf
<1>2. ASSUME r.err = NoError, IsStack(r), r.base = s.base, r.top = t
      PROVE  Keeps(r, Set(r.mem, r.top, v), h) /\ r.top + 1 = t + 1 /\ t + 1 \in s.base..Cap + 1
  <2>1. s.base \in Nat /\ s.base <= t /\ t <= Cap + 1 BY <1>2, Bounds
  <2>2. h <= Cap + 1 /\ r.top \notin 1..h - 1 /\ t + 1 \in s.base..Cap + 1 BY <1>2, <2>1, CapNat
  <2> QED BY <1>2, <2>2, SetKeeps
<1>3. Effect(r, Push(r, v), Set(r.mem, r.top, v), r.top + 1) BY <1>1, PushEffect
<1> QED BY <1>2, <1>3, EffectReaches

LEMMA ShrinkEffect == ASSUME NEW s, IsRecord(s), NEW n \in Int
    PROVE Effect(s, Shrink(s, n), s.mem, s.top - n)
BY CapNat DEF IsRecord, Fields, Effect, Shrink
LEMMA ShrinkReaches ==
    ASSUME NEW s, NEW r, NEW h \in Int, NEW t \in Int, Reaches(s, r, h, t),
           NEW n \in Int, s.base <= t - n, 0 <= n
    PROVE  Reaches(s, Shrink(r, n), h, t - n)
<1>1. IsRecord(r) BY IsRecordOf
<1>2. ASSUME r.err = NoError, IsStack(r), r.base = s.base, r.top = t
      PROVE  Keeps(r, r.mem, h) /\ r.top - n = t - n /\ t - n \in s.base..Cap + 1
  <2>1. s.base \in Nat /\ s.base <= t /\ t <= Cap + 1 BY <1>2, Bounds
  <2>2. TRUE /\ t - n \in s.base..Cap + 1 BY <1>2, <2>1, CapNat
  <2> QED BY <1>2, <2>2, SameKeeps
<1>3. Effect(r, Shrink(r, n), r.mem, r.top - n) BY <1>1, ShrinkEffect
<1> QED BY <1>2, <1>3, EffectReaches

LEMMA PopEffect == ASSUME NEW s, IsRecord(s), NEW n \in Nat
    PROVE Effect(s, lua_pop(s, n), s.mem, s.top + (-n - 1) + 1)
BY CapNat DEF IsRecord, Fields, Effect, lua_pop, lua_settop
LEMMA PopReaches ==
    ASSUME NEW s, NEW r, NEW h \in Int, NEW t \in Int, Reaches(s, r, h, t), NEW n \in Nat, s.base <= t - n
    PROVE  Reaches(s, lua_pop(r, n), h, t - n)
<1>1. IsRecord(r) BY IsRecordOf
<1>2. ASSUME r.err = NoError, IsStack(r), r.base = s.base, r.top = t
      PROVE  Keeps(r, r.mem, h) /\ r.top + (-n - 1) + 1 = t - n /\ t - n \in s.base..Cap + 1
  <2>1. s.base \in Nat /\ s.base <= t /\ t <= Cap + 1 BY <1>2, Bounds
  <2>2. r.top + (-n - 1) + 1 = t - n /\ t - n \in s.base..Cap + 1 BY <1>2, <2>1, CapNat
  <2> QED BY <1>2, <2>2, SameKeeps
<1>3. Effect(r, lua_pop(r, n), r.mem, r.top + (-n - 1) + 1) BY <1>1, PopEffect
<1> QED BY <1>2, <1>3, EffectReaches

LEMMA SettopEffect == ASSUME NEW s, IsRecord(s), NEW n \in Nat
    PROVE Effect(s, lua_settop(s, n), Filled(s.mem, s.top, s.base + n - 1, Nil), s.base + n)
<1>1. n >= 0 OBVIOUS
<1>2. lua_settop(s, n) = Now(s, Filled(s.mem, s.top, s.base + n - 1, Nil), s.base + n)
  BY <1>1, Zenon DEF lua_settop, Now, Filled
<1> QED BY <1>2, NowEffect
LEMMA SettopReaches ==
    ASSUME NEW s, NEW r, NEW h \in Int, NEW t \in Int, Reaches(s, r, h, t),
           NEW n \in Nat, h <= t, s.base + n <= Cap + 1
    PROVE  Reaches(s, lua_settop(r, n), h, s.base + n)
<1>1. IsRecord(r) BY IsRecordOf
<1>2. ASSUME r.err = NoError, IsStack(r), r.base = s.base, r.top = t
      PROVE  Keeps(r, Filled(r.mem, r.top, r.base + n - 1, Nil), h) /\ r.base + n = s.base + n /\ s.base + n \in s.base..Cap + 1
  <2>1. s.base \in Nat /\ s.base <= t /\ t <= Cap + 1 BY <1>2, Bounds
  <2>2. h <= Cap + 1 /\ r.top \in Int /\ r.base + n - 1 \in Int /\ h <= r.top /\ s.base + n \in s.base..Cap + 1
    BY <1>2, <2>1, CapNat
  <2> QED BY <1>2, <2>2, FilledKeeps
<1>3. Effect(r, lua_settop(r, n), Filled(r.mem, r.top, r.base + n - 1, Nil), r.base + n)
  BY <1>1, SettopEffect
<1> QED BY <1>2, <1>3, EffectReaches

LEMMA RemoveEffect == ASSUME NEW s, IsRecord(s), NEW i \in Int
    PROVE Effect(s, lua_remove(s, i), Lowered(s.mem, Slot(s, i), s.top - 2), s.top - 1)
BY CapNat DEF IsRecord, Fields, Effect, lua_remove, Lowered
LEMMA RemoveReaches ==
    ASSUME NEW s, NEW r, NEW h \in Int, NEW t \in Int, Reaches(s, r, h, t),
           NEW i \in Int, s.base <= t - 1, Place(s, i, t) \in Int, h <= Place(s, i, t), Place(s, i, t) < t
    PROVE  Reaches(s, lua_remove(r, i), h, t - 1)
<1>1. IsRecord(r) BY IsRecordOf
<1>2. ASSUME r.err = NoError, IsStack(r), r.base = s.base, r.top = t
      PROVE  Keeps(r, Lowered(r.mem, Slot(r, i), r.top - 2), h) /\ r.top - 1 = t - 1 /\ t - 1 \in s.base..Cap + 1
  <2>1. s.base \in Nat /\ s.base <= t /\ t <= Cap + 1 /\ Slot(r, i) = Place(s, i, t)
    BY <1>2, Bounds DEF Slot, Place
  <2>2. h <= Cap + 1 /\ r.top - 2 \in Int /\ Slot(r, i) \in Int /\ h <= Slot(r, i) /\ t - 1 \in s.base..Cap + 1
    BY <1>2, <2>1, CapNat
  <2> QED BY <1>2, <2>2, LoweredKeeps
<1>3. Effect(r, lua_remove(r, i), Lowered(r.mem, Slot(r, i), r.top - 2), r.top - 1)
  BY <1>1, RemoveEffect
<1> QED BY <1>2, <1>3, EffectReaches

LEMMA InsertEffect == ASSUME NEW s, IsRecord(s), NEW i \in Int
    PROVE Effect(s, lua_insert(s, i), Set(Lifted(s.mem, Slot(s, i) + 1, s.top), Slot(s, i), Lifted(s.mem, Slot(s, i) + 1, s.top)[s.top]), s.top)
<1> DEFINE m == Lifted(s.mem, Slot(s, i) + 1, s.top)
<1>1. lua_insert(s, i) = Placed(s, Set(m, Slot(s, i), m[s.top]))
  BY Zenon DEF lua_insert, Placed, Set, Lifted
<1> HIDE DEF m
<1>2. Effect(s, lua_insert(s, i), Set(m, Slot(s, i), m[s.top]), s.top) BY <1>1, NowEffect
<1> QED BY <1>2 DEF m
LEMMA InsertReaches ==
    ASSUME NEW s, NEW r, NEW h \in Int, NEW t \in Int, Reaches(s, r, h, t),
           NEW i \in Int, s.base <= t, t <= Cap, Place(s, i, t) \in Int, h <= Place(s, i, t), Place(s, i, t) < t
    PROVE  Reaches(s, lua_insert(r, i), h, t)
<1>1. IsRecord(r) BY IsRecordOf
<1>2. ASSUME r.err = NoError, IsStack(r), r.base = s.base, r.top = t
      PROVE  Keeps(r, Set(Lifted(r.mem, Slot(r, i) + 1, r.top), Slot(r, i), Lifted(r.mem, Slot(r, i) + 1, r.top)[r.top]), h) /\ r.top = t /\ t \in s.base..Cap + 1
  <2>1. s.base \in Nat /\ s.base <= t /\ t <= Cap + 1 /\ Slot(r, i) = Place(s, i, t)
    BY <1>2, Bounds DEF Slot, Place
  <2>2. h <= Cap + 1 /\ Slot(r, i) \notin 1..h - 1 /\ h <= Slot(r, i) + 1 /\ Slot(r, i) + 1 \in Int /\ r.top \in Int /\ t \in s.base..Cap + 1
    BY <1>2, <2>1, CapNat
  <2> QED BY <1>2, <2>2, SetLiftedKeeps
<1>3. Effect(r, lua_insert(r, i), Set(Lifted(r.mem, Slot(r, i) + 1, r.top), Slot(r, i), Lifted(r.mem, Slot(r, i) + 1, r.top)[r.top]), r.top)
  BY <1>1, InsertEffect
<1> QED BY <1>2, <1>3, EffectReaches

----------------------------------------------------------------------------
(* What leaves the slots alone: a result, an error, a string pinned or released *)

LEMMA ReturnReaches ==
    ASSUME NEW s, NEW r, NEW h, NEW t, Reaches(s, r, h, t), NEW x
    PROVE  /\ Reaches(s, Return(r, x), h, t) /\ Return(r, x).ret = x
           /\ Return(r, x).err = r.err /\ Return(r, x).obj = r.obj /\ Return(r, x).mem = r.mem
           /\ Return(r, x).tab = r.tab
BY DEF Reaches, Return, IsState, IsRecord, IsStack, Fields

LEMMA AnswerReaches ==
    ASSUME NEW s, NEW r, NEW h, NEW t, Reaches(s, r, h, t), NEW x
    PROVE  /\ Reaches(s, Answer(r, x), h, t) /\ Answer(r, x).obj = x /\ Answer(r, x).err = r.err
           /\ Answer(r, x).mem = r.mem
BY DEF Reaches, Answer, IsState, IsRecord, IsStack, Fields

LEMMA ThrowReaches ==
    ASSUME NEW s, NEW r, NEW h, NEW t, Reaches(s, r, h, t), NEW e
    PROVE  Reaches(s, Throw(r, e), h, t)
BY DEF Reaches, Throw, IsState, IsRecord, IsStack, Fields

\* What a method that throws hands to its caller.
LEMMA EscapedReaches ==
    ASSUME NEW s, NEW r, NEW h, NEW t, Reaches(s, r, h, t)
    PROVE  Reaches(s, Escaped(r), h, t)
BY ThrowReaches, AnswerReaches DEF Escaped

LEMMA NoErrorRaised == \A v : <<"error", v>> # NoError
BY DEF NoError

LEMMA RaiseReaches ==
    ASSUME NEW s, NEW r, IsRecord(r), r.pins \in Int, NEW h, NEW t, NEW v
    PROVE  Reaches(s, Raise(r, v), h, t) /\ Raise(r, v).err # NoError
<1>1. IsRecord(Raise(r, v)) /\ Raise(r, v).err = <<"error", v>> /\ Raise(r, v).pins = r.pins
  BY DEF Raise, IsRecord, Fields
<1> QED BY <1>1, NoErrorRaised DEF Reaches, IsState

LEMMA PinnedReaches ==
    ASSUME NEW s, IsState(s), NEW r, NEW h, NEW t, Reaches(GetStringUTFChars(s), r, h, t)
    PROVE  Reaches(s, Released(r), h, t)
<1>1. /\ GetStringUTFChars(s).pins = s.pins + 1 /\ GetStringUTFChars(s).err = s.err
      /\ GetStringUTFChars(s).base = s.base
      /\ GetStringUTFChars(s).mem = s.mem
  BY DEF GetStringUTFChars, IsState, IsRecord, Fields
<1>2. CASE r.err # NoError
  BY <1>2 DEF Released, ReleaseStringUTFChars, Reaches
<1>3. CASE r.err = NoError
  <2>1. Released(r) = [r EXCEPT !.pins = @ - 1] BY <1>3 DEF Released, ReleaseStringUTFChars
  <2>2. IsRecord(r) BY IsRecordOf
  <2>3. /\ IsRecord(Released(r)) /\ Released(r).pins = r.pins - 1 /\ Released(r).err = r.err
        /\ Released(r).mem = r.mem /\ Released(r).top = r.top /\ Released(r).base = r.base
        /\ Released(r).citop = r.citop
    BY <2>1, <2>2 DEF IsRecord, Fields
  <2> QED BY <1>1, <2>3 DEF Reaches, IsState, IsStack
<1> QED BY <1>2, <1>3

LEMMA Pinned ==
    ASSUME NEW s, IsState(s), NEW h
    PROVE  LET g == GetStringUTFChars(s)
           IN  IsState(g) /\ Reaches(g, g, h, s.top) /\ g.base = s.base /\ g.top = s.top
<1>1. /\ IsRecord(GetStringUTFChars(s)) /\ GetStringUTFChars(s).pins = s.pins + 1
      /\ GetStringUTFChars(s).err = s.err /\ GetStringUTFChars(s).base = s.base
      /\ GetStringUTFChars(s).mem = s.mem /\ GetStringUTFChars(s).top = s.top
      /\ GetStringUTFChars(s).citop = s.citop
  BY DEF GetStringUTFChars, IsState, IsRecord, Fields
<1> QED BY <1>1 DEF Reaches, IsState, IsStack

LEMMA Starting == ASSUME NEW s, IsState(s), NEW h PROVE Reaches(s, s, h, s.top)
BY DEF Reaches

LEMMA Further ==
    ASSUME NEW s, NEW r, NEW q, NEW h, NEW t, NEW k \in Int, NEW u, Reaches(s, r, h, t), Reaches(r, q, k, u),
           h \in Int, h <= k
    PROVE  Reaches(s, q, h, u)
<1>1. \A a \in 1..h - 1 : a \in 1..k - 1 OBVIOUS
<1> QED BY <1>1 DEF Reaches

----------------------------------------------------------------------------
(* Tables and userdata: lua_newtable to lua_objlen, and lua_concat *)

\* A new table at x; a new userdata.
FreshTable(s, x) == [s EXCEPT !.tab[x] = [k \in KeySet |-> Nil], !.meta[x] = 0]
FreshBox(s, x, object) == [s EXCEPT !.java[x] = object, !.meta[x] = 0]
LEMMA FreshTableEffect == ASSUME NEW s, IsRecord(s), NEW x
    PROVE Effect(s, FreshTable(s, x), s.mem, s.top)
BY CapNat DEF IsRecord, Fields, Effect, FreshTable
LEMMA FreshTableReaches ==
    ASSUME NEW s, NEW r, NEW h \in Int, NEW t \in Int, Reaches(s, r, h, t), NEW x
    PROVE  Reaches(s, FreshTable(r, x), h, t)
<1>1. IsRecord(r) BY IsRecordOf
<1>2. ASSUME r.err = NoError, IsStack(r), r.base = s.base, r.top = t
      PROVE  Keeps(r, r.mem, h) /\ r.top = t /\ t \in s.base..Cap + 1
  <2>1. s.base \in Nat /\ s.base <= t /\ t <= Cap + 1 BY <1>2, Bounds
  <2>2. TRUE /\ t \in s.base..Cap + 1 BY <1>2, <2>1, CapNat
  <2> QED BY <1>2, <2>2, SameKeeps
<1>3. Effect(r, FreshTable(r, x), r.mem, r.top) BY <1>1, FreshTableEffect
<1> QED BY <1>2, <1>3, EffectReaches

LEMMA FreshBoxEffect == ASSUME NEW s, IsRecord(s), NEW x, NEW object
    PROVE Effect(s, FreshBox(s, x, object), s.mem, s.top)
BY CapNat DEF IsRecord, Fields, Effect, FreshBox
LEMMA FreshBoxReaches ==
    ASSUME NEW s, NEW r, NEW h \in Int, NEW t \in Int, Reaches(s, r, h, t), NEW x, NEW object
    PROVE  Reaches(s, FreshBox(r, x, object), h, t)
<1>1. IsRecord(r) BY IsRecordOf
<1>2. ASSUME r.err = NoError, IsStack(r), r.base = s.base, r.top = t
      PROVE  Keeps(r, r.mem, h) /\ r.top = t /\ t \in s.base..Cap + 1
  <2>1. s.base \in Nat /\ s.base <= t /\ t <= Cap + 1 BY <1>2, Bounds
  <2>2. TRUE /\ t \in s.base..Cap + 1 BY <1>2, <2>1, CapNat
  <2> QED BY <1>2, <2>2, SameKeeps
<1>3. Effect(r, FreshBox(r, x, object), r.mem, r.top) BY <1>1, FreshBoxEffect
<1> QED BY <1>2, <1>3, EffectReaches

LEMMA NewtableReaches ==
    ASSUME NEW s, NEW r, NEW h \in Int, NEW t \in Int, Reaches(s, r, h, t), h <= t, t <= Cap
    PROVE  Reaches(s, lua_newtable(r), h, t + 1)
<1> DEFINE x == Min(TabIds \ Reachable(r))
<1>1. lua_newtable(r) = Push(FreshTable(r, x), Tab(x))
  BY Zenon DEF lua_newtable, lua_createtable, FreshTable
<1> HIDE DEF x
<1>2. Reaches(s, FreshTable(r, x), h, t) BY FreshTableReaches
<1> QED BY <1>1, <1>2, PushReaches
LEMMA NewuserdataReaches ==
    ASSUME NEW s, NEW r, NEW h \in Int, NEW t \in Int, Reaches(s, r, h, t), h <= t, t <= Cap, NEW object
    PROVE  Reaches(s, lua_newuserdata(r, object), h, t + 1)
<1> DEFINE x == Min(Boxes \ Reachable(r))
<1>1. lua_newuserdata(r, object) = Push(FreshBox(r, x, object), Box(x))
  BY Zenon DEF lua_newuserdata, FreshBox
<1> HIDE DEF x
<1>2. Reaches(s, FreshBox(r, x, object), h, t) BY FreshBoxReaches
<1> QED BY <1>1, <1>2, PushReaches

LEMMA RawSetEffect == ASSUME NEW s, IsRecord(s), NEW x, NEW k, NEW v
    PROVE Effect(s, RawSet(s, x, k, v), s.mem, s.top)
BY CapNat DEF IsRecord, Fields, Effect, RawSet, Raise, NoError
LEMMA RawSetReaches ==
    ASSUME NEW s, NEW r, NEW h \in Int, NEW t \in Int, Reaches(s, r, h, t), NEW x, NEW k, NEW v
    PROVE  Reaches(s, RawSet(r, x, k, v), h, t)
<1>1. IsRecord(r) BY IsRecordOf
<1>2. ASSUME r.err = NoError, IsStack(r), r.base = s.base, r.top = t
      PROVE  Keeps(r, r.mem, h) /\ r.top = t /\ t \in s.base..Cap + 1
  <2>1. s.base \in Nat /\ s.base <= t /\ t <= Cap + 1 BY <1>2, Bounds
  <2>2. TRUE /\ t \in s.base..Cap + 1 BY <1>2, <2>1, CapNat
  <2> QED BY <1>2, <2>2, SameKeeps
<1>3. Effect(r, RawSet(r, x, k, v), r.mem, r.top) BY <1>1, RawSetEffect
<1> QED BY <1>2, <1>3, EffectReaches

LEMMA AssignReaches ==
    ASSUME NEW s, NEW r, NEW h \in Int, NEW t \in Int, Reaches(s, r, h, t), NEW x, NEW k, NEW v
    PROVE  Reaches(s, Assign(r, x, k, v), h, t)
<1>0. IsRecord(r) /\ r.pins \in Int BY DEF Reaches, IsState
<1> DEFINE target == SetTarget(r, x, k)
<1>1. Assign(r, x, k, v) = AssignTo(target, r, x, k, v) BY DEF Assign
<1> HIDE DEF target
<1>2. CASE Type(target) = "table"
  <2>1. AssignTo(target, r, x, k, v) = RawSet(r, target[2], k, v) BY <1>2 DEF AssignTo
  <2> QED BY <2>1, <1>1, RawSetReaches
<1>3. CASE Type(target) = "function"
  <2>1. AssignTo(target, r, x, k, v) = IF Results(target[2], <<x, k, v>>).ok THEN r ELSE Raise(r, Head(Results(target[2], <<x, k, v>>).values))
    BY <1>3 DEF AssignTo
  <2> QED BY <1>0, <1>1, <2>1, RaiseReaches
<1>4. CASE Type(target) \notin {"table", "function"}
  <2>1. AssignTo(target, r, x, k, v) = Raise(r, Message) BY <1>4 DEF AssignTo
  <2> QED BY <1>0, <1>1, <2>1, RaiseReaches
<1> QED BY <1>2, <1>3, <1>4

LEMMA SetfieldReaches ==
    ASSUME NEW s, NEW r, NEW h \in Int, NEW t \in Int, Reaches(s, r, h, t), NEW i, NEW name, s.base <= t - 1
    PROVE  Reaches(s, lua_setfield(r, i, name), h, t - 1)
<1>1. Reaches(s, Assign(r, At(r, i), Name(name), r.mem[r.top - 1]), h, t) BY AssignReaches
<1> QED BY <1>1, ShrinkReaches DEF lua_setfield

LEMMA SetReaches ==
    ASSUME NEW s, NEW r, NEW h \in Int, NEW t \in Int, Reaches(s, r, h, t), NEW i
    PROVE  /\ s.base <= t - 2 => Reaches(s, lua_settable(r, i), h, t - 2) /\ Reaches(s, lua_rawset(r, i), h, t - 2)
           /\ \A name : s.base <= t - 1 => Reaches(s, lua_setfield(r, i, name), h, t - 1)
           /\ \A n : s.base <= t - 1 => Reaches(s, lua_rawseti(r, i, n), h, t - 1)
<1>1. ASSUME s.base <= t - 2 PROVE Reaches(s, lua_settable(r, i), h, t - 2)
  <2>1. Reaches(s, Assign(r, At(r, i), r.mem[r.top - 2], r.mem[r.top - 1]), h, t) BY AssignReaches
  <2> QED BY <1>1, <2>1, ShrinkReaches DEF lua_settable
<1>2. ASSUME s.base <= t - 2 PROVE Reaches(s, lua_rawset(r, i), h, t - 2)
  <2>1. Reaches(s, RawSet(r, At(r, i)[2], r.mem[r.top - 2], r.mem[r.top - 1]), h, t)
    BY RawSetReaches
  <2> QED BY <1>2, <2>1, ShrinkReaches DEF lua_rawset
<1>3. ASSUME NEW name, s.base <= t - 1 PROVE Reaches(s, lua_setfield(r, i, name), h, t - 1)
  BY <1>3, SetfieldReaches
<1>4. ASSUME NEW n, s.base <= t - 1 PROVE Reaches(s, lua_rawseti(r, i, n), h, t - 1)
  <2>1. Reaches(s, RawSet(r, At(r, i)[2], Num(n), r.mem[r.top - 1]), h, t) BY RawSetReaches
  <2> QED BY <1>4, <2>1, ShrinkReaches DEF lua_rawseti
<1> QED BY <1>1, <1>2, <1>3, <1>4

LEMMA FetchedEffect == ASSUME NEW s, IsRecord(s), NEW v, NEW a
    PROVE Effect(s, Fetched(s, v, a), Set(s.mem, a, IF v.values = <<>> THEN Nil ELSE Head(v.values)), s.top)
<1>1. CASE ~v.ok
  BY <1>1, NoErrorRaised DEF Fetched, Raise, Effect, IsRecord, Fields
<1>2. CASE v.ok
  <2>1. Fetched(s, v, a) = Placed(s, Set(s.mem, a, IF v.values = <<>> THEN Nil ELSE Head(v.values)))
    BY <1>2, Zenon DEF Fetched, Placed, Set
  <2> QED BY <2>1, NowEffect
<1> QED BY <1>1, <1>2
LEMMA FetchedReaches ==
    ASSUME NEW s, NEW r, NEW h \in Int, NEW t \in Int, Reaches(s, r, h, t),
           NEW v, NEW a, h <= t, r.err = NoError /\ r.top = t => a \in h..t
    PROVE  Reaches(s, Fetched(r, v, a), h, t)
<1>1. IsRecord(r) BY IsRecordOf
<1>2. ASSUME r.err = NoError, IsStack(r), r.base = s.base, r.top = t
      PROVE  Keeps(r, Set(r.mem, a, IF v.values = <<>> THEN Nil ELSE Head(v.values)), h) /\ r.top = t /\ t \in s.base..Cap + 1
  <2>1. s.base \in Nat /\ s.base <= t /\ t <= Cap + 1 BY <1>2, Bounds
  <2>2. h <= Cap + 1 /\ a \notin 1..h - 1 /\ t \in s.base..Cap + 1 BY <1>2, <2>1, CapNat
  <2> QED BY <1>2, <2>2, SetKeeps
<1>3. Effect(r, Fetched(r, v, a), Set(r.mem, a, IF v.values = <<>> THEN Nil ELSE Head(v.values)), r.top)
  BY <1>1, FetchedEffect
<1> QED BY <1>2, <1>3, EffectReaches

LEMMA GettableReaches ==
    ASSUME NEW s, NEW r, NEW h \in Int, NEW t \in Int, Reaches(s, r, h, t), NEW i, h <= t - 1
    PROVE  Reaches(s, lua_gettable(r, i), h, t)
<1>1. r.top = t => r.top - 1 \in h..t OBVIOUS
<1> QED BY <1>1, FetchedReaches DEF lua_gettable
LEMMA GetfieldReaches ==
    ASSUME NEW s, NEW r, NEW h \in Int, NEW t \in Int, Reaches(s, r, h, t), NEW i, NEW name, h <= t, t <= Cap
    PROVE  Reaches(s, lua_getfield(r, i, name), h, t + 1)
<1> DEFINE q == Push(r, Nil)
<1>1. Reaches(s, q, h, t + 1) BY PushReaches
<1>2. IsRecord(r) BY IsRecordOf
<1>3. q.err = NoError => r.top = t BY <1>2, PushEffect DEF Effect, Reaches
<1>4. lua_getfield(r, i, name) = Fetched(q, Index(r, At(r, i), Name(name)), r.top)
  BY DEF lua_getfield
<1> HIDE DEF q
<1>5. q.err = NoError /\ q.top = t + 1 => r.top \in h..t + 1 BY <1>3
<1> QED BY <1>1, <1>4, <1>5, FetchedReaches

LEMMA RawgetEffect == ASSUME NEW s, IsRecord(s), NEW i
    PROVE Effect(s, lua_rawget(s, i), Set(s.mem, s.top - 1, RawGet(s, At(s, i)[2], s.mem[s.top - 1])), s.top)
<1>1. lua_rawget(s, i) = Placed(s, Set(s.mem, s.top - 1, RawGet(s, At(s, i)[2], s.mem[s.top - 1])))
  BY Zenon DEF lua_rawget, Placed, Set
<1> QED BY <1>1, NowEffect
LEMMA RawgetReaches ==
    ASSUME NEW s, NEW r, NEW h \in Int, NEW t \in Int, Reaches(s, r, h, t), NEW i, h <= t - 1
    PROVE  Reaches(s, lua_rawget(r, i), h, t)
<1>1. IsRecord(r) BY IsRecordOf
<1>2. ASSUME r.err = NoError, IsStack(r), r.base = s.base, r.top = t
      PROVE  Keeps(r, Set(r.mem, r.top - 1, RawGet(r, At(r, i)[2], r.mem[r.top - 1])), h) /\ r.top = t /\ t \in s.base..Cap + 1
  <2>1. s.base \in Nat /\ s.base <= t /\ t <= Cap + 1 BY <1>2, Bounds
  <2>2. h <= Cap + 1 /\ r.top - 1 \notin 1..h - 1 /\ t \in s.base..Cap + 1 BY <1>2, <2>1, CapNat
  <2> QED BY <1>2, <2>2, SetKeeps
<1>3. Effect(r, lua_rawget(r, i), Set(r.mem, r.top - 1, RawGet(r, At(r, i)[2], r.mem[r.top - 1])), r.top)
  BY <1>1, RawgetEffect
<1> QED BY <1>2, <1>3, EffectReaches

LEMMA RawgetiReaches ==
    ASSUME NEW s, NEW r, NEW h \in Int, NEW t \in Int, Reaches(s, r, h, t), NEW i, NEW n, h <= t, t <= Cap
    PROVE  Reaches(s, lua_rawgeti(r, i, n), h, t + 1)
BY PushReaches DEF lua_rawgeti
LEMMA PushvalueReaches ==
    ASSUME NEW s, NEW r, NEW h \in Int, NEW t \in Int, Reaches(s, r, h, t), NEW i, h <= t, t <= Cap
    PROVE  Reaches(s, lua_pushvalue(r, i), h, t + 1)
BY PushReaches DEF lua_pushvalue
LEMMA GetmetatableReaches ==
    ASSUME NEW s, NEW r, NEW h \in Int, NEW t \in Int, Reaches(s, r, h, t), NEW i, h <= t, t <= Cap
    PROVE  LET q == lua_getmetatable(r, i)
           IN  \/ q.ret = 0 /\ Reaches(s, q, h, t)
               \/ q.ret = 1 /\ Reaches(s, q, h, t + 1)
<1>1. Reaches(s, Push(r, Tab(MetaOf(r, At(r, i)))), h, t + 1) BY PushReaches
<1> QED BY <1>1, ReturnReaches DEF lua_getmetatable

\* o gets the metatable v.
MetaSet(s, o, v) == [s EXCEPT !.meta[o] = v]
LEMMA MetaSetEffect == ASSUME NEW s, IsRecord(s), NEW o, NEW v
    PROVE Effect(s, MetaSet(s, o, v), s.mem, s.top)
BY CapNat DEF IsRecord, Fields, Effect, MetaSet
LEMMA MetaSetReaches ==
    ASSUME NEW s, NEW r, NEW h \in Int, NEW t \in Int, Reaches(s, r, h, t), NEW o, NEW v
    PROVE  Reaches(s, MetaSet(r, o, v), h, t)
<1>1. IsRecord(r) BY IsRecordOf
<1>2. ASSUME r.err = NoError, IsStack(r), r.base = s.base, r.top = t
      PROVE  Keeps(r, r.mem, h) /\ r.top = t /\ t \in s.base..Cap + 1
  <2>1. s.base \in Nat /\ s.base <= t /\ t <= Cap + 1 BY <1>2, Bounds
  <2>2. TRUE /\ t \in s.base..Cap + 1 BY <1>2, <2>1, CapNat
  <2> QED BY <1>2, <2>2, SameKeeps
<1>3. Effect(r, MetaSet(r, o, v), r.mem, r.top) BY <1>1, MetaSetEffect
<1> QED BY <1>2, <1>3, EffectReaches

LEMMA SetmetatableReaches ==
    ASSUME NEW s, NEW r, NEW h \in Int, NEW t \in Int, Reaches(s, r, h, t), NEW i, s.base <= t - 1
    PROVE  Reaches(s, lua_setmetatable(r, i), h, t - 1)
<1> DEFINE o == At(r, i)
           v == r.mem[r.top - 1]
           q == MetaSet(r, o[2], IF v = Nil THEN 0 ELSE v[2])
<1>1. lua_setmetatable(r, i) = Return(IF Type(o) \in {"table", "userdata"} THEN Shrink(q, 1) ELSE Shrink(r, 1), 1)
  BY Zenon DEF lua_setmetatable, MetaSet
<1>2. Reaches(s, q, h, t) BY MetaSetReaches
<1> HIDE DEF q, o
<1>3. Reaches(s, Shrink(q, 1), h, t - 1) /\ Reaches(s, Shrink(r, 1), h, t - 1)
  BY <1>2, ShrinkReaches
<1> QED BY <1>1, <1>3, ReturnReaches

LEMMA IsStateOf ==
    ASSUME NEW s, NEW r, NEW h, NEW t, Reaches(s, r, h, t) PROVE IsRecord(r) /\ r.pins \in Int /\ IsState(r)
BY DEF Reaches, IsState

\* An assignment to one slot.
LEMMA SlotReaches ==
    ASSUME NEW s, NEW r, NEW h \in Int, NEW t \in Int, Reaches(s, r, h, t),
           NEW a, NEW v, h <= t, r.err = NoError /\ r.top = t => a \notin 1..h - 1
    PROVE  Reaches(s, Placed(r, Set(r.mem, a, v)), h, t)
<1>1. IsRecord(r) BY IsRecordOf
<1>2. ASSUME r.err = NoError, IsStack(r), r.base = s.base, r.top = t
      PROVE  Keeps(r, Set(r.mem, a, v), h) /\ r.top = t /\ t \in s.base..Cap + 1
  <2>1. s.base \in Nat /\ s.base <= t /\ t <= Cap + 1 BY <1>2, Bounds
  <2>2. h <= Cap + 1 /\ a \notin 1..h - 1 /\ t \in s.base..Cap + 1 BY <1>2, <2>1, CapNat
  <2> QED BY <1>2, <2>2, SetKeeps
<1>3. Effect(r, Placed(r, Set(r.mem, a, v)), Set(r.mem, a, v), r.top) BY <1>1, NowEffect
<1> QED BY <1>2, <1>3, EffectReaches

LEMMA NextReaches ==
    ASSUME NEW s, NEW r, NEW h \in Int, NEW t \in Int, Reaches(s, r, h, t),
           NEW i, h <= t - 1, s.base <= t - 1, t <= Cap
    PROVE  Reaches(s, lua_next(r, i), h, t - 1) \/ Reaches(s, lua_next(r, i), h, t + 1)
<1> DEFINE k == r.mem[r.top - 1]
           f == r.tab[At(r, i)[2]]
           q == Placed(r, Set(r.mem, r.top - 1, NextIn(f, k)))
<1>0. q = [r EXCEPT !.mem[r.top - 1] = NextIn(f, k)] BY Zenon DEF Placed, Set
<1>1. lua_next(r, i) = IF k \notin {Nil} \cup KeySet THEN Raise(r, Message)
                       ELSE IF NextIn(f, k) = Nil THEN Return(Shrink(r, 1), 0)
                       ELSE Return(Push([r EXCEPT !.mem[r.top - 1] = NextIn(f, k)], f[NextIn(f, k)]), 1)
  BY DEF lua_next
<1>2. r.top = t => r.top - 1 \notin 1..h - 1 OBVIOUS
<1>3. Reaches(s, q, h, t) BY <1>2, SlotReaches
<1> HIDE DEF k, f, q
<1>4. Reaches(s, Push(q, f[NextIn(f, k)]), h, t + 1) BY <1>3, PushReaches
<1>5. Reaches(s, Shrink(r, 1), h, t - 1) BY ShrinkReaches
<1>6. Reaches(s, Raise(r, Message), h, t + 1) /\ Reaches(s, Raise(r, Message), h, t - 1)
  BY IsStateOf, RaiseReaches
<1>7. CASE k \notin {Nil} \cup KeySet
  BY <1>1, <1>6, <1>7
<1> QED BY <1>0, <1>1, <1>4, <1>5, <1>7, ReturnReaches

LEMMA ConcatReaches ==
    ASSUME NEW s, NEW r, NEW h \in Int, NEW t \in Int, Reaches(s, r, h, t),
           NEW n \in Nat, h <= t - n, s.base <= t - n, n = 0 => t <= Cap
    PROVE  Reaches(s, lua_concat(r, n), h, t - n + 1)
<1> DEFINE vs == [i \in 1..n |-> r.mem[r.top - n - 1 + i]]
           w == Concatenated(r, vs)
           text == FirstOf(w.values)
<1>2. CASE n = 0
  <2>1. lua_concat(r, n) = Push(r, Str(<<>>)) BY <1>2 DEF lua_concat
  <2> QED BY <1>2, <2>1, PushReaches
<1>3. CASE n = 1
  <2>1. n # 0 BY <1>3
  <2>2. lua_concat(r, n) = r BY <1>3, <2>1 DEF lua_concat
  <2> QED BY <1>3, <2>2
<1>4. CASE n > 1
  <2>0. n # 0 /\ n # 1 /\ n > 1 BY <1>4
  <2>5. ~w.ok => lua_concat(r, n) = Raise(r, Head(w.values))
    BY <2>0, Zenon DEF lua_concat
  <2>6. w.ok => lua_concat(r, n) = Push(Shrink(r, n), text)
    BY <2>0, Zenon DEF lua_concat
  <2> HIDE DEF vs, w, text
  <2>1. Reaches(s, Raise(r, Head(w.values)), h, t - n + 1) BY IsStateOf, RaiseReaches
  <2>2. Reaches(s, Shrink(r, n), h, t - n) BY ShrinkReaches
  <2>3. t - n <= Cap \/ (r.err # NoError /\ Shrink(r, n).err = r.err)
    <3>1. r.err = NoError => t <= Cap + 1 BY Bounds DEF Reaches, IsState
    <3>2. Shrink(r, n).err = r.err BY IsRecordOf DEF Shrink, IsRecord, Fields
    <3> QED BY <1>4, <3>1, <3>2, CapNat
  <2>4. Reaches(s, Push(Shrink(r, n), text), h, t - n + 1)
    <3>1. CASE t - n <= Cap
      BY <3>1, <2>2, PushReaches
    <3>2. CASE Shrink(r, n).err # NoError
      <4>1. IsRecord(Shrink(r, n)) /\ Shrink(r, n).pins \in Int BY <2>2, IsStateOf
      <4>2. Effect(Shrink(r, n), Push(Shrink(r, n), text), Set(Shrink(r, n).mem, Shrink(r, n).top, text), Shrink(r, n).top + 1)
        BY <4>1, PushEffect
      <4> QED BY <3>2, <4>1, <4>2 DEF Reaches, Effect, IsState
    <3> QED BY <2>3, <3>1, <3>2
  <2> QED BY <2>1, <2>4, <2>5, <2>6
<1> QED BY <1>2, <1>3, <1>4

LEMMA CheckstackReaches ==
    ASSUME NEW s, IsState(s), NEW h, NEW n \in Nat
    PROVE  Reaches(s, lua_checkstack(s, n), h, s.top)
<1>1. CASE s.err # NoError
  <2>1. /\ IsRecord([s EXCEPT !.citop = IF @ < s.top + n THEN s.top + n ELSE @])
        /\ [s EXCEPT !.citop = IF @ < s.top + n THEN s.top + n ELSE @].err = s.err
        /\ [s EXCEPT !.citop = IF @ < s.top + n THEN s.top + n ELSE @].pins = s.pins
    BY DEF IsState, IsRecord, Fields
  <2>2. Reaches(s, [s EXCEPT !.citop = IF @ < s.top + n THEN s.top + n ELSE @], h, s.top)
    BY <1>1, <2>1 DEF Reaches, IsState
  <2>3. Reaches(s, s, h, s.top) BY Starting
  <2> QED BY <2>2, <2>3, ReturnReaches DEF lua_checkstack
<1>2. CASE s.err = NoError
  <2>1. s.top \in Nat /\ s.citop \in Nat /\ s.citop <= Cap + 1 BY <1>2, Bounds DEF IsState
  <2>2. CASE s.top + n - 1 > Cap
    <3>1. Reaches(s, s, h, s.top) BY Starting
    <3> QED BY <2>2, <3>1, ReturnReaches DEF lua_checkstack
  <2>3. CASE s.top + n - 1 <= Cap
    <3> DEFINE c == IF s.citop < s.top + n THEN s.top + n ELSE s.citop
               q == [s EXCEPT !.citop = c]
    <3>1. c \in 0..Cap + 1 BY <2>1, <2>3, CapNat
    <3>2. lua_checkstack(s, n) = Return(q, 1) BY <2>1, <2>3, CapNat DEF lua_checkstack
    <3> HIDE DEF c
    <3>3. /\ IsRecord(q) /\ q.citop = c /\ q.err = s.err /\ q.pins = s.pins
          /\ q.mem = s.mem /\ q.top = s.top /\ q.base = s.base
      BY DEF IsState, IsRecord, Fields
    <3> HIDE DEF q
    <3>4. Reaches(s, q, h, s.top) BY <1>2, <3>1, <3>3 DEF Reaches, IsState, IsStack
    <3> QED BY <3>2, <3>4, ReturnReaches
  <2> QED BY <2>1, <2>2, <2>3, CapNat
<1> QED BY <1>1, <1>2

LEMMA TolstringReaches ==
    ASSUME NEW s, NEW r, NEW h \in Int, NEW t \in Int, Reaches(s, r, h, t),
           NEW i \in Int, IsPseudo(i) \/ Place(s, i, t) \notin 1..h - 1, h <= t
    PROVE  Reaches(s, lua_tolstring(r, i), h, t)
<1> DEFINE v == Str(NumText(At(r, i)))
<1>0. IsRecord(r) BY IsRecordOf
<1>1. CASE lua_type(r, i) = "number"
  <2>1. lua_tolstring(r, i) = Return(IF IsPseudo(i) THEN [r EXCEPT !.upvals[Globals - i] = v] ELSE Placed(r, Set(r.mem, Slot(r, i), v)), v)
    <3>1. lua_type(r, i) # "string" BY <1>1
    <3>2. Placed(r, Set(r.mem, Slot(r, i), v)) = [r EXCEPT !.mem[Slot(r, i)] = v] BY Zenon DEF Placed, Set
    <3>3. lua_tolstring(r, i) = Return(IF IsPseudo(i) THEN [r EXCEPT !.upvals[Globals - i] = v] ELSE [r EXCEPT !.mem[Slot(r, i)] = v], v)
      BY <1>1, <3>1, Zenon DEF lua_tolstring
    <3> QED BY <3>2, <3>3, Zenon
  <2> HIDE DEF v
  <2>2. CASE IsPseudo(i)
    <3> DEFINE q == [r EXCEPT !.upvals[Globals - i] = v]
    <3>1. Effect(r, q, r.mem, r.top) BY <1>0 DEF Effect, IsRecord, Fields
    <3> HIDE DEF q
    <3>2. Reaches(s, q, h, t) BY <3>1 DEF Reaches, Effect, IsState, IsStack
    <3> QED BY <2>1, <2>2, <3>2, ReturnReaches DEF q
  <2>3. CASE ~IsPseudo(i)
    <3>1. r.err = NoError /\ r.top = t => Slot(r, i) \notin 1..h - 1
      BY <2>3 DEF Slot, Place, Reaches
    <3>2. Reaches(s, Placed(r, Set(r.mem, Slot(r, i), v)), h, t) BY <3>1, SlotReaches
    <3> QED BY <2>1, <2>3, <3>2, ReturnReaches
  <2> QED BY <2>2, <2>3
<1>2. CASE lua_type(r, i) # "number"
  <2>1. lua_tolstring(r, i) = Return(r, At(r, i)) \/ lua_tolstring(r, i) = Return(r, None)
    BY <1>2, Zenon DEF lua_tolstring
  <2> QED BY <2>1, ReturnReaches
<1> QED BY <1>1, <1>2

LEMMA ObjlenReaches ==
    ASSUME NEW s, NEW r, NEW h \in Int, NEW t \in Int, Reaches(s, r, h, t),
           NEW i \in Int, IsPseudo(i) \/ Place(s, i, t) \notin 1..h - 1, h <= t
    PROVE  Reaches(s, lua_objlen(r, i), h, t)
<1>1. Reaches(s, lua_tolstring(r, i), h, t) BY TolstringReaches
<1>2. \E x : lua_objlen(r, i) = Return(lua_tolstring(r, i), x) \/ lua_objlen(r, i) = Return(r, x)
  BY DEF lua_objlen
<1> QED BY <1>1, <1>2, ReturnReaches

LEMMA ReplaceReaches ==
    ASSUME NEW s, NEW r, NEW h \in Int, NEW t \in Int, Reaches(s, r, h, t),
           NEW i \in Int, i = Globals \/ (~IsPseudo(i) /\ Place(s, i, t) \notin 1..h - 1), h <= t - 1, s.base <= t - 1
    PROVE  Reaches(s, lua_replace(r, i), h, t - 1)
<1> DEFINE v == r.mem[r.top - 1]
           q == Shrink(r, 1)
<1>1. Reaches(s, q, h, t - 1) BY ShrinkReaches
<1>2. CASE i = Globals
  <2>1. lua_replace(r, i) = [q EXCEPT !.globals = v] BY <1>2 DEF lua_replace, Globals, Environ
  <2>2. IsRecord(q) BY <1>1, IsRecordOf
  <2> HIDE DEF q, v
  <2>3. Effect(q, [q EXCEPT !.globals = v], q.mem, q.top) BY <2>2 DEF Effect, IsRecord, Fields
  <2> QED BY <1>1, <2>1, <2>3 DEF Reaches, Effect, IsState, IsStack
<1>3. CASE ~IsPseudo(i) /\ Place(s, i, t) \notin 1..h - 1
  <2>1. i # Environ /\ i # Globals /\ ~(i < Globals)
    BY <1>3 DEF IsPseudo, Environ, Globals, Registry
  <2>2. Placed(q, Set(q.mem, Slot(r, i), v)) = [q EXCEPT !.mem[Slot(r, i)] = v] BY Zenon DEF Placed, Set
  <2>3. lua_replace(r, i) = [q EXCEPT !.mem[Slot(r, i)] = v] BY <2>1, Zenon DEF lua_replace
  <2>4. r.err = NoError => r.top = t /\ r.base = s.base BY DEF Reaches
  <2>5. q.err = NoError => r.err = NoError BY IsRecordOf DEF Shrink, IsRecord, Fields
  <2>6. q.err = NoError => Slot(r, i) \notin 1..h - 1 BY <1>3, <2>4, <2>5 DEF Slot, Place
  <2>7. lua_replace(r, i) = Placed(q, Set(q.mem, Slot(r, i), v)) BY <2>2, <2>3, Zenon
  <2> HIDE DEF q, v
  <2> QED BY <1>1, <2>7, <2>6, SlotReaches
<1> QED BY <1>2, <1>3

----------------------------------------------------------------------------
(* Calls: luaD_poscall, lua_call, lua_pcall, and lua_equal, which may call *)

\* How many results stay.
Count(values, wanted) == IF wanted = MultRet THEN Len(values) ELSE wanted

LEMMA PoscallReaches ==
    ASSUME NEW s, NEW r, NEW h \in Int, NEW t \in Int, Reaches(s, r, h, t),
           NEW f, NEW g \in Int, NEW values, NEW wanted, NEW n \in Nat, n = Count(values, wanted),
           r.err = NoError /\ r.top = t => f = g, h <= g, h <= t, s.base <= g, g + n <= Cap + 1
    PROVE  Reaches(s, luaD_poscall(r, f, values, wanted), h, g + n)
<1> DEFINE m == Resulting(r.mem, f, n, values)
           c == IF wanted = MultRet /\ f + n > r.citop THEN f + n ELSE r.citop
           q == [r EXCEPT !.mem = m, !.top = f + n, !.citop = c]
<1>0. IsRecord(r) BY IsRecordOf
<1>1. luaD_poscall(r, f, values, wanted) = q
  <2> DEFINE k == Count(values, wanted)
  <2>1. luaD_poscall(r, f, values, wanted)
        = [r EXCEPT !.mem = Resulting(r.mem, f, k, values), !.top = f + k,
                    !.citop = IF wanted = MultRet /\ f + k > r.citop THEN f + k ELSE r.citop]
    BY Zenon DEF luaD_poscall, Resulting, Count
  <2> HIDE DEF k
  <2>2. k = n BY DEF k
  <2> QED BY <2>1, <2>2, Zenon
<1>2. c \in {r.citop, f + n} OBVIOUS
<1>3. ASSUME r.err = NoError, IsStack(r), r.base = s.base, r.top = t
      PROVE  Keeps(r, m, h) /\ f + n = g + n /\ g + n \in s.base..Cap + 1
  <2>1. s.base \in Nat /\ s.base <= t /\ t <= Cap + 1 BY <1>3, Bounds
  <2>2. h <= Cap + 1 /\ f \in Int /\ h <= f /\ f = g /\ g + n \in s.base..Cap + 1
    BY <1>3, <2>1, CapNat
  <2> HIDE DEF m, c, q
  <2>3. IsStack(r) /\ n \in Int BY <1>3
  <2>4. Keeps(r, Resulting(r.mem, f, n, values), h) BY <2>2, <2>3, ResultsKeeps, Zenon
  <2>5. Keeps(r, m, h) BY <2>4 DEF m
  <2> QED BY <2>2, <2>5
<1> HIDE DEF m, c
<1>4. Effect(r, q, m, f + n) BY <1>0, <1>2 DEF Effect, IsRecord, Fields
<1> HIDE DEF q
<1> QED BY <1>1, <1>3, <1>4, EffectReaches

LEMMA ArgsLength ==
    ASSUME NEW s, NEW n \in Nat
    PROVE  Len(Args(s, n)) = n /\ \A f : Len(<<f>> \o Args(s, n)) = n + 1
<1> DEFINE S == {s.mem[s.top - n - 1 + i] : i \in 1..n}
<1>1. Args(s, n) = [i \in 1..n |-> s.mem[s.top - n - 1 + i]] BY DEF Args
<1>2. Args(s, n) \in [1..n -> S] BY <1>1
<1>3. Args(s, n) \in Seq(S) BY <1>2
<1>4. Len(Args(s, n)) = n BY <1>2
<1>5. ASSUME NEW f PROVE Len(<<f>> \o Args(s, n)) = n + 1
  <2>1. <<f>> \in Seq(S \cup {f}) /\ Args(s, n) \in Seq(S \cup {f}) BY <1>3
  <2> QED BY <2>1, <1>4
<1> QED BY <1>4, <1>5

\* Results are at most the function and its arguments.
LEMMA OutcomeLength ==
    ASSUME NEW s, NEW f, NEW n \in Nat, Outcome(s, f, Args(s, n)).ok
    PROVE  Len(Outcome(s, f, Args(s, n)).values) \in 0..n + 1
<1>1. ASSUME NEW a, NEW args, Len(args) \in 0..n + 1, Results(a, args).ok
      PROVE  Len(Results(a, args).values) \in 0..n + 1
  BY <1>1 DEF Results
<1>2. Len(Args(s, n)) \in 0..n + 1 /\ Len(<<f>> \o Args(s, n)) \in 0..n + 1 BY ArgsLength
<1> DEFINE out == Outcome(s, f, Args(s, n))
<1>3. ~out.ok \/ (\E a, args : Len(args) \in 0..n + 1 /\ out = Results(a, args))
  <2>1. CASE Type(f) = "function"
    <3>0. Type(TagMethod(s, f, "__call")) # "function" BY <2>1 DEF TagMethod, MetaOf, Type, Nil
    <3>1. out = Results(f[2], Args(s, n)) BY <2>1, <3>0, Zenon DEF Outcome
    <3> QED BY <1>2, <3>1
  <2>2. CASE Type(f) # "function" /\ Type(TagMethod(s, f, "__call")) = "function"
    <3>1. out = Results(TagMethod(s, f, "__call")[2], <<f>> \o Args(s, n))
      BY <2>2, Zenon DEF Outcome
    <3> QED BY <1>2, <3>1
  <2>3. CASE Type(f) # "function" /\ Type(TagMethod(s, f, "__call")) # "function"
    <3>1. out = [ok |-> FALSE, values |-> <<Message>>] BY <2>3, Zenon DEF Outcome
    <3> QED BY <3>1
  <2> QED BY <2>1, <2>2, <2>3
<1> HIDE DEF out
<1> QED BY <1>1, <1>3 DEF out

\* q has n values from u on.
Yields(s, q, h, u, wanted) == \E n \in Nat : (wanted # MultRet => n = wanted) /\ Reaches(s, q, h, u + n)
LEMMA CallReaches ==
    ASSUME NEW s, NEW r, NEW h \in Int, NEW t \in Int, Reaches(s, r, h, t),
           NEW nargs \in Nat, NEW nresults \in Nat \cup {MultRet},
           h <= t - (nargs + 1), s.base <= t - (nargs + 1), t <= Cap + 1, nresults # MultRet => t - (nargs + 1) + nresults <= Cap + 1
    PROVE  Yields(s, lua_call(r, nargs, nresults), h, t - (nargs + 1), nresults)
<1> DEFINE func == r.top - (nargs + 1)
           out == Outcome(r, r.mem[func], Args(r, nargs))
<1>0. MultRet = -1 BY DEF MultRet
<1>1. CASE ~out.ok
  <2>1. lua_call(r, nargs, nresults) = Raise(r, Head(out.values)) BY <1>1 DEF lua_call
  <2>2. PICK n \in Nat : nresults # MultRet => n = nresults BY <1>0
  <2> HIDE DEF out
  <2>3. Reaches(s, lua_call(r, nargs, nresults), h, t - (nargs + 1) + n)
    BY <2>1, IsStateOf, RaiseReaches
  <2> QED BY <2>2, <2>3 DEF Yields
<1>2. CASE out.ok
  <2>1. lua_call(r, nargs, nresults) = luaD_poscall(r, func, out.values, nresults)
    BY <1>2 DEF lua_call
  <2>2. Len(out.values) \in 0..nargs + 1 BY <1>2, OutcomeLength
  <2> DEFINE n == Count(out.values, nresults)
  <2> HIDE DEF out
  <2>3. n \in Nat /\ t - (nargs + 1) + n <= Cap + 1 /\ (nresults # MultRet => n = nresults)
    BY <2>2, <1>0, CapNat DEF Count
  <2>4. r.top = t => func = t - (nargs + 1) OBVIOUS
  <2> HIDE DEF n, func
  <2>5. Reaches(s, luaD_poscall(r, func, out.values, nresults), h, t - (nargs + 1) + n)
    BY <2>3, <2>4, PoscallReaches DEF n
  <2>6. Reaches(s, lua_call(r, nargs, nresults), h, t - (nargs + 1) + n) BY <2>1, <2>5
  <2> QED BY <2>3, <2>6 DEF Yields
<1> QED BY <1>1, <1>2

LEMMA PcallReaches ==
    ASSUME NEW s, NEW r, NEW h \in Int, NEW t \in Int, Reaches(s, r, h, t),
           NEW nargs \in Nat, NEW nresults \in Nat \cup {MultRet}, NEW errfunc,
           h <= t - (nargs + 1), s.base <= t - (nargs + 1), t <= Cap + 1, nresults # MultRet => t - (nargs + 1) + nresults <= Cap + 1
    PROVE  LET q == lua_pcall(r, nargs, nresults, errfunc)
           IN  \/ q.ret = 0 /\ \E n \in Nat : (nresults # MultRet => n = nresults) /\ Reaches(s, q, h, t - (nargs + 1) + n)
               \/ q.ret # 0 /\ Reaches(s, q, h, t - (nargs + 1) + 1)
<1> DEFINE func == r.top - (nargs + 1)
           out == Outcome(r, r.mem[func], Args(r, nargs))
           q == lua_pcall(r, nargs, nresults, errfunc)
<1>0. MultRet = -1 BY DEF MultRet
<1>1. r.top = t => func = t - (nargs + 1) OBVIOUS
<1>2. CASE out.ok
  <2>1. q = Return(luaD_poscall(r, func, out.values, nresults), 0) BY <1>2 DEF lua_pcall
  <2>2. Len(out.values) \in 0..nargs + 1 BY <1>2, OutcomeLength
  <2> DEFINE n == Count(out.values, nresults)
  <2> HIDE DEF out, q
  <2>3. n \in Nat /\ t - (nargs + 1) + n <= Cap + 1 /\ (nresults # MultRet => n = nresults)
    BY <2>2, <1>0, CapNat DEF Count
  <2> HIDE DEF n, func
  <2>5. Reaches(s, luaD_poscall(r, func, out.values, nresults), h, t - (nargs + 1) + n)
    BY <2>3, <1>1, PoscallReaches DEF n
  <2>6. Reaches(s, q, h, t - (nargs + 1) + n) /\ q.ret = 0 BY <2>1, <2>5, ReturnReaches
  <2> QED BY <2>3, <2>6 DEF q
<1>3. CASE ~out.ok
  <2>1. \E values : q = Return(luaD_poscall(r, func, values, 1), 2) \/ q = Return(luaD_poscall(r, func, values, 1), 5)
    BY <1>3, Zenon DEF lua_pcall
  <2> HIDE DEF out, q, func
  <2>2. ASSUME NEW values PROVE Reaches(s, luaD_poscall(r, func, values, 1), h, t - (nargs + 1) + 1)
    
    <3>1. Count(values, 1) = 1 BY <1>0 DEF Count
    <3>2. t - (nargs + 1) \in Int /\ t - (nargs + 1) + 1 <= Cap + 1 /\ h <= t BY CapNat
    <3> QED BY <3>1, <3>2, <1>1, PoscallReaches
  <2>3. Reaches(s, q, h, t - (nargs + 1) + 1) /\ q.ret # 0 BY <2>1, <2>2, ReturnReaches
  <2> QED BY <2>3 DEF q
<1> QED BY <1>2, <1>3

LEMMA EqualReaches ==
    ASSUME NEW s, NEW r, NEW h \in Int, NEW t \in Int, Reaches(s, r, h, t), NEW i, NEW j
    PROVE  /\ Reaches(s, lua_equal(r, i, j), h, t)
           /\ lua_equal(r, i, j).err = NoError => lua_equal(r, i, j).tab = r.tab /\ lua_equal(r, i, j).mem = r.mem
<1> DEFINE a == At(r, i)
           b == At(r, j)
           tm == TagMethod(r, a, "__eq")
           out == Outcome(r, tm, <<a, b>>)
           answer == IF ~out.ok THEN Raise(r, Head(out.values))
                     ELSE Return(r, IF out.values # <<>> /\ Head(out.values) \notin {Nil, Bool(FALSE)} THEN 1 ELSE 0)
<1>1. lua_equal(r, i, j) = CASE None \in {a, b} -> Return(r, 0)
                             [] None \notin {a, b} /\ a = b -> Return(r, 1)
                             [] a # b /\ Type(a) = Type(b) /\ tm # Nil /\ tm = TagMethod(r, b, "__eq") -> answer
                             [] OTHER -> Return(r, 0)
  BY Zenon DEF lua_equal
<1>2. \E x : answer = Return(r, x) \/ answer = Raise(r, x) BY Zenon
<1> HIDE DEF answer
<1>3. \/ lua_equal(r, i, j) = Return(r, 0) \/ lua_equal(r, i, j) = Return(r, 1) \/ lua_equal(r, i, j) = answer
  <2>1. CASE None \in {a, b}
    BY <1>1, <2>1
  <2>2. CASE None \notin {a, b} /\ a = b
    BY <1>1, <2>2
  <2>3. CASE None \notin {a, b} /\ a # b
    BY <1>1, <2>3
  <2> QED BY <2>1, <2>2, <2>3
<1>4. \E x : lua_equal(r, i, j) = Return(r, x) \/ lua_equal(r, i, j) = Raise(r, x) BY <1>2, <1>3
<1> HIDE DEF a, b, tm
<1> QED BY <1>4, IsStateOf, ReturnReaches, RaiseReaches

LEMMA ErrorReaches ==
    ASSUME NEW s, NEW r, IsRecord(r), r.pins \in Int, NEW h, NEW t
    PROVE  /\ Reaches(s, lua_error(r), h, t) /\ lua_error(r).err # NoError
           /\ Reaches(s, luaL_error(r), h, t) /\ luaL_error(r).err # NoError
           /\ Reaches(s, luaL_typerror(r), h, t) /\ luaL_typerror(r).err # NoError
<1>1. ASSUME NEW q, IsRecord(q), q.pins \in Int
      PROVE Reaches(s, lua_error(q), h, t) /\ lua_error(q).err # NoError
  BY <1>1, RaiseReaches DEF lua_error
<1>2. ASSUME NEW q, IsRecord(q), q.pins \in Int
      PROVE IsRecord(Push(q, Message)) /\ Push(q, Message).pins \in Int
  BY <1>2, PushEffect DEF Effect
<1> QED BY <1>1, <1>2 DEF luaL_error, luaL_typerror, luaL_argerror

----------------------------------------------------------------------------
(* The auxiliary library, and the questions of jluajni.c about Java objects *)

LEMMA IsJavaObjectReaches ==
    ASSUME NEW s, NEW r, NEW h \in Int, NEW t \in Int, Reaches(s, r, h, t),
           NEW i, h <= t, t < Cap, s.base <= t
    PROVE  Reaches(s, isJavaObject(r, i), h, t)
<1>0. t <= Cap /\ t + 1 <= Cap /\ h <= t + 1 /\ h <= t + 2 - 1 BY CapNat
<1> DEFINE mt == lua_getmetatable(r, i)
           answer(got) == Return(lua_pop(got, 2), JBool(~lua_isnil(got, -1)))
           got == lua_rawget(Push(mt, Name("__IsJavaObject")), -2)
<1>1. isJavaObject(r, i) = IF ~lua_isuserdata(r, i) THEN Return(r, 0)
                           ELSE IF mt.err # NoError THEN mt ELSE IF mt.ret = 0 THEN mt ELSE answer(got)
  BY Zenon DEF isJavaObject, Then
<1> HIDE DEF mt
<1>2. (mt.ret = 0 /\ Reaches(s, mt, h, t)) \/ (mt.ret = 1 /\ Reaches(s, mt, h, t + 1))
  BY <1>0, GetmetatableReaches DEF mt
<1>3. CASE mt.ret = 0
  BY <1>1, <1>2, <1>3, ReturnReaches
<1>4. CASE mt.ret # 0
  <2>1. Reaches(s, mt, h, t + 1) BY <1>2, <1>4
  <2>2. Reaches(s, Push(mt, Name("__IsJavaObject")), h, t + 1 + 1) BY <1>0, <2>1, PushReaches
  <2>3. Reaches(s, got, h, t + 1 + 1) BY <1>0, <2>2, RawgetReaches
  <2> HIDE DEF got
  <2>4. Reaches(s, lua_pop(got, 2), h, t)
    <3>1. Reaches(s, lua_pop(got, 2), h, t + 1 + 1 - 2) BY <2>3, PopReaches
    <3> QED BY <3>1
  <2>5. Reaches(s, answer(got), h, t) BY <2>4, ReturnReaches
  <2>6. mt.err # NoError => Reaches(s, mt, h, t) BY <2>1 DEF Reaches
  <2> HIDE DEF answer
  <2> QED BY <1>1, <1>4, <2>5, <2>6, ReturnReaches
<1> QED BY <1>3, <1>4

LEMMA IsJavaFunctionReaches ==
    ASSUME NEW s, NEW r, NEW h \in Int, NEW t \in Int, Reaches(s, r, h, t),
           NEW i, h <= t, t < Cap, s.base <= t
    PROVE  Reaches(s, isJavaFunction(r, i), h, t) /\ Reaches(s, getObjectFromUserdata(r, i), h, t)
<1> DEFINE is == isJavaObject(r, i)
<1>1. Reaches(s, is, h, t) BY IsJavaObjectReaches
<1>2. isJavaFunction(r, i) = is \/ \E x : isJavaFunction(r, i) = Return(is, x)
  BY DEF isJavaFunction, Then
<1>3. getObjectFromUserdata(r, i) = is \/ \E x : getObjectFromUserdata(r, i) = Return(is, x)
  BY DEF getObjectFromUserdata, Then
<1> HIDE DEF is
<1> QED BY <1>1, <1>2, <1>3, ReturnReaches

\* The checks of arguments.
LEMMA CheckReaches ==
    ASSUME NEW s, NEW r, NEW h \in Int, NEW t \in Int, Reaches(s, r, h, t),
           NEW i \in Int, IsPseudo(i) \/ Place(s, i, t) \notin 1..h - 1, h <= t, NEW x
    PROVE  /\ Reaches(s, luaL_checktype(r, i, x), h, t) /\ Reaches(s, luaL_checkany(r, i), h, t)
           /\ Reaches(s, luaL_checklstring(r, i), h, t) /\ Reaches(s, luaL_optlstring(r, i, x), h, t)
           /\ Reaches(s, luaL_checknumber(r, i), h, t) /\ Reaches(s, luaL_optnumber(r, i, x), h, t)
<1>1. /\ Reaches(s, luaL_typerror(r), h, t) /\ Reaches(s, luaL_argerror(r), h, t)
  BY IsStateOf, ErrorReaches DEF luaL_argerror
<1>2. Reaches(s, lua_tolstring(r, i), h, t) BY TolstringReaches
<1>3. Reaches(s, luaL_checktype(r, i, x), h, t) BY <1>1 DEF luaL_checktype
<1>4. Reaches(s, luaL_checkany(r, i), h, t) BY <1>1 DEF luaL_checkany
<1>5. Reaches(s, luaL_checklstring(r, i), h, t) BY <1>1, <1>2 DEF luaL_checklstring
<1>6. Reaches(s, luaL_optlstring(r, i, x), h, t) BY <1>5, ReturnReaches DEF luaL_optlstring
<1>7. Reaches(s, luaL_checknumber(r, i), h, t) BY <1>1, ReturnReaches DEF luaL_checknumber
<1>8. Reaches(s, luaL_optnumber(r, i, x), h, t) BY <1>7, ReturnReaches DEF luaL_optnumber
<1> QED BY <1>3, <1>4, <1>5, <1>6, <1>7, <1>8

LEMMA GetmetafieldReaches ==
    ASSUME NEW s, NEW r, NEW h \in Int, NEW t \in Int, Reaches(s, r, h, t),
           NEW i, NEW event, h <= t, t < Cap, s.base \in Int, s.base <= t
    PROVE  LET q == luaL_getmetafield(r, i, event)
           IN  (q.ret = 0 /\ Reaches(s, q, h, t)) \/ (q.ret = 1 /\ Reaches(s, q, h, t + 1))
<1>0. t <= Cap /\ t + 1 <= Cap /\ h <= t + 1 /\ h <= t + 2 - 1 /\ t + 1 + 1 - 2 = t /\ t + 1 + 1 - 1 = t + 1
  BY CapNat
<1> DEFINE mt == lua_getmetatable(r, i)
           got == lua_rawget(Push(mt, Name(event)), -2)
           q == luaL_getmetafield(r, i, event)
<1>1. q = IF mt.err # NoError THEN mt ELSE IF mt.ret = 0 THEN mt
          ELSE IF lua_isnil(got, -1) THEN Return(lua_pop(got, 2), 0) ELSE Return(lua_remove(got, -2), 1)
  BY Zenon DEF luaL_getmetafield, Then
<1> HIDE DEF mt, q
<1>2. (mt.ret = 0 /\ Reaches(s, mt, h, t)) \/ (mt.ret = 1 /\ Reaches(s, mt, h, t + 1))
  BY <1>0, GetmetatableReaches DEF mt
<1>3. CASE mt.ret = 0
  BY <1>1, <1>2, <1>3 DEF q
<1>4. CASE mt.ret # 0
  <2>1. Reaches(s, mt, h, t + 1) /\ mt.ret = 1 BY <1>2, <1>4
  <2>2. Reaches(s, Push(mt, Name(event)), h, t + 1 + 1) BY <1>0, <2>1, PushReaches
  <2>3. Reaches(s, got, h, t + 1 + 1) BY <1>0, <2>2, RawgetReaches
  <2> HIDE DEF got
  <2>4. Reaches(s, lua_pop(got, 2), h, t)
    <3>1. Reaches(s, lua_pop(got, 2), h, t + 1 + 1 - 2) BY <2>3, PopReaches
    <3> QED BY <3>1
  <2>5. Reaches(s, lua_remove(got, -2), h, t + 1)
    <3>1. Place(s, -2, t + 1 + 1) = t /\ t \in Int /\ t < t + 1 + 1 /\ s.base <= t + 1 + 1 - 1 /\ -2 \in Int /\ t + 1 + 1 \in Int
      BY DEF Place
    <3>2. Reaches(s, lua_remove(got, -2), h, t + 1 + 1 - 1) BY <2>3, <3>1, RemoveReaches
    <3> QED BY <3>2
  <2>6. Reaches(s, Return(lua_pop(got, 2), 0), h, t) /\ Return(lua_pop(got, 2), 0).ret = 0
    BY <2>4, ReturnReaches
  <2>7. Reaches(s, Return(lua_remove(got, -2), 1), h, t + 1) /\ Return(lua_remove(got, -2), 1).ret = 1
    BY <2>5, ReturnReaches
  <2> QED BY <1>1, <1>4, <2>1, <2>6, <2>7 DEF q
<1> QED BY <1>3, <1>4

LEMMA CallmetaReaches ==
    ASSUME NEW s, NEW r, NEW h \in Int, NEW t \in Int, Reaches(s, r, h, t),
           NEW i, NEW event, h <= t, t < Cap, s.base \in Int, s.base <= t
    PROVE  LET q == luaL_callmeta(r, i, event)
           IN  Reaches(s, q, h, t) \/ Reaches(s, q, h, t + 1)
<1>0. /\ t + 1 <= Cap /\ h <= t + 1 /\ t + 1 + 1 - (1 + 1) + 1 <= Cap + 1 /\ t + 1 + 1 <= Cap + 1
      /\ h <= t + 1 + 1 - (1 + 1) /\ s.base <= t + 1 + 1 - (1 + 1)
      /\ t + 1 + 1 \in Int /\ t <= Cap
  BY CapNat
<1> DEFINE o == abs_index(r, i)
           got == luaL_getmetafield(r, o, event)
           called == lua_call(lua_pushvalue(got, o), 1, 1)
           q == luaL_callmeta(r, i, event)
<1>1. q = IF got.err # NoError THEN got ELSE IF got.ret = 0 THEN got ELSE Return(called, 1)
  BY Zenon DEF luaL_callmeta, Then
<1> HIDE DEF o, got, q
<1>2. (got.ret = 0 /\ Reaches(s, got, h, t)) \/ (got.ret = 1 /\ Reaches(s, got, h, t + 1))
  BY GetmetafieldReaches DEF got
<1>3. CASE got.ret = 0
  BY <1>1, <1>2, <1>3 DEF q
<1>4. CASE got.ret # 0
  <2>1. Reaches(s, got, h, t + 1) BY <1>2, <1>4
  <2>2. Reaches(s, lua_pushvalue(got, o), h, t + 1 + 1) BY <1>0, <2>1, PushvalueReaches
  <2>7. Yields(s, called, h, t + 1 + 1 - (1 + 1), 1)
    BY <1>0, <2>2, CallReaches
  <2>3. PICK n \in Nat : (1 # MultRet => n = 1) /\ Reaches(s, called, h, t + 1 + 1 - (1 + 1) + n)
    BY <2>7 DEF Yields
  <2>4. n = 1 BY <2>3 DEF MultRet
  <2>5. Reaches(s, called, h, t + 1) BY <2>3, <2>4
  <2>6. Reaches(s, Return(called, 1), h, t + 1) BY <2>5, ReturnReaches
  <2> QED BY <1>1, <2>1, <2>6 DEF q
<1> QED BY <1>3, <1>4

LEMMA NewmetatableReaches ==
    ASSUME NEW s, NEW r, NEW h \in Int, NEW t \in Int, Reaches(s, r, h, t),
           NEW name, h <= t, t < Cap, s.base \in Int, s.base <= t
    PROVE  Reaches(s, luaL_newmetatable(r, name), h, t + 1)
<1>0. t <= Cap /\ t + 1 <= Cap /\ h <= t + 1 /\ s.base <= t + 1 - 1 /\ t + 1 - 1 = t BY CapNat
<1> DEFINE got == lua_getfield(r, Registry, name)
           popped == lua_pop(got, 1)
           made == lua_newtable(popped)
           twice == lua_pushvalue(made, -1)
           set == lua_setfield(twice, Registry, name)
<1>1. luaL_newmetatable(r, name) = IF got.err # NoError THEN got ELSE IF ~lua_isnil(got, -1) THEN Return(got, 0) ELSE Return(set, 1)
  BY Zenon DEF luaL_newmetatable, Then
<1>2. Reaches(s, got, h, t + 1) BY <1>0, GetfieldReaches
<1> HIDE DEF got
<1>3. Reaches(s, popped, h, t + 1 - 1) BY <1>2, <1>0, PopReaches
<1> HIDE DEF popped
<1>4. Reaches(s, made, h, t + 1) BY <1>0, <1>3, NewtableReaches
<1> HIDE DEF made
<1>5. Reaches(s, twice, h, t + 1 + 1) BY <1>0, <1>4, PushvalueReaches
<1> HIDE DEF twice
<1>6. Reaches(s, set, h, t + 1)
  <2>1. s.base <= t + 1 + 1 - 1 /\ t + 1 + 1 - 1 = t + 1 /\ t + 1 + 1 \in Int BY <1>0
  <2>2. Reaches(s, set, h, t + 1 + 1 - 1) BY <1>5, <2>1, SetfieldReaches
  <2> QED BY <2>1, <2>2
<1> HIDE DEF set
<1> QED BY <1>1, <1>2, <1>6, ReturnReaches

\* One part of a name.
LEMMA FindPartReaches ==
    ASSUME NEW s, NEW r, NEW h \in Int, NEW t \in Int, Reaches(s, r, h, t),
           NEW name, h <= t - 1, t + 2 <= Cap, s.base \in Int, s.base <= t - 1
    PROVE  Reaches(s, FindPart(r, name), h, t) \/ Reaches(s, FindPart(r, name), h, t - 1)
<1>0. /\ t <= Cap /\ t + 1 <= Cap /\ t + 1 + 1 <= Cap /\ h <= t /\ h <= t + 1 /\ h <= t + 1 - 1
      /\ h <= t + 1 + 1
      /\ t + 1 - 1 = t /\ t + 1 - 2 = t - 1 /\ s.base <= t /\ t + 1 + 1 + 1 - 2 = t + 1
      /\ t - 1 \in Int /\ t + 1 + 1 + 1 \in Int
      /\ s.base <= t + 1 + 1 + 1 - 2 /\ t + 1 + 1 \in Int /\ t + 1 \in Int /\ s.base <= t + 1 - 2
      /\ s.base <= t + 1 - 1
  BY CapNat
<1> DEFINE got == lua_rawget(Push(r, Name(name)), -2)
           popped == lua_pop(got, 1)
           made == lua_newtable(popped)
           named == Push(made, Name(name))
           twice == lua_pushvalue(named, -2)
           set == lua_settable(twice, -4)
           q == FindPart(r, name)
<1>1. q \in {r, lua_remove(set, -2), lua_remove(got, -2), Return(lua_pop(got, 2), name)}
  BY Zenon DEF FindPart
<1>2. Reaches(s, Push(r, Name(name)), h, t + 1) BY <1>0, PushReaches
<1>3. Reaches(s, got, h, t + 1) BY <1>0, <1>2, RawgetReaches
<1> HIDE DEF got, q
<1>4. Reaches(s, popped, h, t) BY <1>0, <1>3, PopReaches
<1> HIDE DEF popped
<1>5. Reaches(s, made, h, t + 1) BY <1>0, <1>4, NewtableReaches
<1> HIDE DEF made
<1>6. Reaches(s, named, h, t + 1 + 1) BY <1>0, <1>5, PushReaches
<1> HIDE DEF named
<1>7. Reaches(s, twice, h, t + 1 + 1 + 1) BY <1>0, <1>6, PushvalueReaches
<1> HIDE DEF twice
<1>8. Reaches(s, set, h, t + 1)
  <2>1. Reaches(s, set, h, t + 1 + 1 + 1 - 2) BY <1>0, <1>7, SetReaches
  <2> QED BY <1>0, <2>1
<1> HIDE DEF set
<1>9. /\ Place(s, -2, t + 1) = t - 1 /\ Place(s, -2, t + 1) \in Int /\ h <= Place(s, -2, t + 1)
      /\ Place(s, -2, t + 1) < t + 1 /\ -2 \in Int
  BY <1>0 DEF Place
<1>10. Reaches(s, lua_remove(set, -2), h, t) /\ Reaches(s, lua_remove(got, -2), h, t)
  <2>1. Reaches(s, lua_remove(set, -2), h, t + 1 - 1) BY <1>0, <1>8, <1>9, RemoveReaches
  <2>2. Reaches(s, lua_remove(got, -2), h, t + 1 - 1) BY <1>0, <1>3, <1>9, RemoveReaches
  <2> QED BY <1>0, <2>1, <2>2
<1>11. Reaches(s, lua_pop(got, 2), h, t - 1)
  <2>1. Reaches(s, lua_pop(got, 2), h, t + 1 - 2) BY <1>0, <1>3, PopReaches
  <2> QED BY <1>0, <2>1
<1>12. Reaches(s, Return(lua_pop(got, 2), name), h, t - 1) BY <1>11, ReturnReaches
<1> QED BY <1>1, <1>10, <1>12 DEF q

\* A name of one part.
LEMMA FindtableReaches ==
    ASSUME NEW s, NEW r, NEW h \in Int, NEW t \in Int, Reaches(s, r, h, t),
           NEW i, NEW a, h <= t, t + 3 <= Cap, s.base \in Int, s.base <= t
    PROVE  LET q == luaL_findtable(r, i, <<a>>)
           IN  Reaches(s, q, h, t + 1) \/ Reaches(s, q, h, t)
<1> DEFINE p0 == Return(lua_pushvalue(r, i), "found")
           D(f) == f = [n \in 0..Len(<<a>>) |-> IF n = 0 THEN p0 ELSE FindPart(f[n - 1], <<a>>[n])]
           found == CHOOSE f : D(f)
           w == [n \in 0..1 |-> IF n = 0 THEN p0 ELSE FindPart(p0, a)]
<1>1. luaL_findtable(r, i, <<a>>) = found[Len(<<a>>)] BY Zenon DEF luaL_findtable
<1>2. Len(<<a>>) = 1 /\ <<a>>[1] = a OBVIOUS
<1>3. Reaches(s, lua_pushvalue(r, i), h, t + 1) BY PushvalueReaches, CapNat
<1>4. Reaches(s, p0, h, t + 1) BY <1>3, ReturnReaches
<1> HIDE DEF p0
<1>5. D(w)
  <2>1. w[0] = p0 /\ w[1] = FindPart(p0, a) OBVIOUS
  <2>2. ASSUME NEW n \in 0..1 PROVE w[n] = IF n = 0 THEN p0 ELSE FindPart(w[n - 1], <<a>>[n])
    <3>1. n = 0 \/ n = 1 OBVIOUS
    <3> QED BY <1>2, <2>1, <3>1
  <2>3. w = [n \in 0..1 |-> w[n]] OBVIOUS
  <2> HIDE DEF w
  <2>4. w = [n \in 0..1 |-> IF n = 0 THEN p0 ELSE FindPart(w[n - 1], <<a>>[n])] BY <2>2, <2>3
  <2> QED BY <1>2, <2>4
<1> HIDE DEF w, D
<1>6. D(found) BY <1>5
<1> HIDE DEF found
<1>7. found[0] = p0 /\ found[1] = FindPart(p0, a)
  <2>1. found = [n \in 0..1 |-> IF n = 0 THEN p0 ELSE FindPart(found[n - 1], <<a>>[n])]
    BY <1>2, <1>6 DEF D
  <2>2. found[0] = p0 BY <2>1
  <2>3. found[1] = FindPart(found[1 - 1], <<a>>[1]) BY <2>1
  <2> QED BY <1>2, <2>2, <2>3
<1>8. t + 1 \in Int /\ h <= t + 1 - 1 /\ t + 1 + 2 <= Cap /\ s.base <= t + 1 - 1 /\ t + 1 - 1 = t
  BY CapNat
<1>9. Reaches(s, FindPart(p0, a), h, t + 1) \/ Reaches(s, FindPart(p0, a), h, t + 1 - 1)
  BY <1>4, <1>8, FindPartReaches
<1> QED BY <1>1, <1>2, <1>7, <1>8, <1>9

LEMMA LoadReaches ==
    ASSUME NEW s, NEW r, NEW h \in Int, NEW t \in Int, Reaches(s, r, h, t), NEW chunk, h <= t, t <= Cap
    PROVE  Reaches(s, lua_load(r, chunk), h, t + 1)
BY PushReaches, ReturnReaches DEF lua_load

LEMMA LoadfileReaches ==
    ASSUME NEW s, NEW r, NEW h \in Int, NEW t \in Int, Reaches(s, r, h, t),
           NEW chunk, NEW fate, h <= t, t + 1 <= Cap, s.base \in Nat, s.base <= t, r.err = NoError
    PROVE  Reaches(s, luaL_loadfile(r, chunk, fate), h, t + 1)
<1> DEFINE f == lua_gettop(r) + 1
           named == Push(r, Name("@file"))
           loaded == lua_load(named, chunk)
           kept == lua_settop(loaded, f)
           m == Message
           q == luaL_loadfile(r, chunk, fate)
<1>0. /\ t <= Cap /\ h <= t + 1 /\ h <= t + 1 + 1 /\ t + 1 \in Int /\ t + 1 + 1 \in Int
      /\ t + 1 + 1 - 1 = t + 1 /\ s.base <= t + 1 + 1 - 1
      /\ t + 1 <= Cap + 1
  BY CapNat
<1>1. f = t - s.base + 1 BY DEF Reaches, lua_gettop
<1> HIDE DEF f
<1>2. f \in Nat /\ s.base + f = t + 1 BY <1>1
<1>3. q \in {errfile(named, f), errfile(kept, f), lua_remove(loaded, f)}
  BY Zenon DEF luaL_loadfile, f
<1>4. Reaches(s, named, h, t + 1) BY <1>0, PushReaches
<1> HIDE DEF named, q
<1>5. Reaches(s, loaded, h, t + 1 + 1) BY <1>0, <1>4, LoadReaches
<1> HIDE DEF loaded
<1>6. Reaches(s, kept, h, t + 1) BY <1>0, <1>2, <1>5, SettopReaches
<1> HIDE DEF kept
<1>7. /\ Place(s, f, t + 1 + 1) = t /\ t < t + 1 + 1 /\ f \in Int BY <1>1, <1>2 DEF Place
<1>8. ASSUME NEW p, Reaches(s, p, h, t + 1) PROVE Reaches(s, errfile(p, f), h, t + 1)
  <2>1. Reaches(s, Push(p, Message), h, t + 1 + 1) BY <1>0, <1>8, PushReaches
  <2>2. Reaches(s, lua_remove(Push(p, Message), f), h, t + 1 + 1 - 1)
    BY <1>0, <1>7, <2>1, RemoveReaches
  <2> QED BY <1>0, <2>2, ReturnReaches DEF errfile
<1>9. Reaches(s, lua_remove(loaded, f), h, t + 1)
  <2>1. Reaches(s, lua_remove(loaded, f), h, t + 1 + 1 - 1) BY <1>0, <1>5, <1>7, RemoveReaches
  <2> QED BY <1>0, <2>1
<1> QED BY <1>3, <1>4, <1>6, <1>8, <1>9 DEF q

\* The results, or one message.
Ran(s, q, h, t) ==
    \/ q.ret = 0 /\ \E n \in Nat : Reaches(s, q, h, t + n)
    \/ q.ret # 0 /\ Reaches(s, q, h, t + 1)

LEMMA RunReaches ==
    ASSUME NEW s, NEW r, NEW h \in Int, NEW t \in Int, Reaches(s, r, h, t),
           h <= t - 1, s.base \in Int, s.base <= t - 1, t <= Cap
    PROVE  Ran(s, Run(r), h, t - 1)
<1>0. /\ 0 \in Nat /\ MultRet \in Nat \cup {MultRet} /\ h <= t - (0 + 1) /\ s.base <= t - (0 + 1)
      /\ t <= Cap + 1 /\ t - (0 + 1) = t - 1
      /\ (MultRet # MultRet => t - (0 + 1) + MultRet <= Cap + 1) /\ t - 1 + 1 = t
  BY CapNat
<1> DEFINE q == lua_pcall(r, 0, MultRet, 0)
           p == IF r.ret # 0 THEN r ELSE q
<1>1. Run(r) = Return(p, IF p.ret = 0 THEN 0 ELSE 1) BY DEF Run, Status
<1>2. \/ q.ret = 0 /\ (\E n \in Nat : (MultRet # MultRet => n = MultRet) /\ Reaches(s, q, h, t - (0 + 1) + n))
      \/ q.ret # 0 /\ Reaches(s, q, h, t - (0 + 1) + 1)
  BY <1>0, PcallReaches
<1> HIDE DEF q
<1>3. \/ p.ret = 0 /\ (\E n \in Nat : Reaches(s, p, h, t - 1 + n))
      \/ p.ret # 0 /\ Reaches(s, p, h, t - 1 + 1)
  BY <1>0, <1>2
<1> HIDE DEF p
<1>4. \A u : Reaches(s, p, h, u) => Reaches(s, Run(r), h, u)
  BY <1>1, ReturnReaches
<1>5. Run(r).ret = IF p.ret = 0 THEN 0 ELSE 1
  <2>1. \E u : Reaches(s, p, h, u) BY <1>3
  <2> QED BY <1>1, <2>1, ReturnReaches
<1> QED BY <1>3, <1>4, <1>5 DEF Ran

LEMMA DostringReaches ==
    ASSUME NEW s, NEW r, NEW h \in Int, NEW t \in Int, Reaches(s, r, h, t),
           NEW chunk, NEW fate, h <= t, t + 1 <= Cap, s.base \in Nat, s.base <= t, r.err = NoError
    PROVE  Ran(s, luaL_dostring(r, chunk), h, t) /\ Ran(s, luaL_dofile(r, chunk, fate), h, t)
<1>0. /\ t <= Cap /\ t + 1 \in Int /\ h <= t + 1 - 1 /\ s.base <= t + 1 - 1 /\ t + 1 - 1 = t
  BY CapNat
<1>1. Reaches(s, luaL_loadstring(r, chunk), h, t + 1)
  BY <1>0, LoadReaches DEF luaL_loadstring, luaL_loadbuffer
<1>2. Reaches(s, luaL_loadfile(r, chunk, fate), h, t + 1) BY LoadfileReaches
<1>3. Ran(s, Run(luaL_loadstring(r, chunk)), h, t + 1 - 1) BY <1>0, <1>1, RunReaches
<1>4. Ran(s, Run(luaL_loadfile(r, chunk, fate)), h, t + 1 - 1) BY <1>0, <1>2, RunReaches
<1> QED BY <1>0, <1>3, <1>4 DEF luaL_dostring, luaL_dofile

----------------------------------------------------------------------------
(* A Java object is pushed as a userdata with its metatable *)

LEMMA EntryReaches ==
    ASSUME NEW s, NEW r, NEW h \in Int, NEW t \in Int, Reaches(s, r, h, t),
           NEW event, NEW v, h <= t, t + 1 <= Cap, s.base \in Int, s.base <= t
    PROVE  Reaches(s, Entry(r, event, v), h, t) /\ Reaches(s, Meta(r, event), h, t)
<1>0. /\ t <= Cap /\ h <= t + 1 /\ s.base <= t + 1 + 1 - 2 /\ t + 1 + 1 - 2 = t /\ t + 1 \in Int
      /\ t + 1 + 1 \in Int
  BY CapNat
<1>1. ASSUME NEW x PROVE Reaches(s, Entry(r, event, x), h, t)
  <2>1. Reaches(s, Push(r, Name(event)), h, t + 1) BY <1>0, PushReaches
  <2>2. Reaches(s, Push(Push(r, Name(event)), x), h, t + 1 + 1) BY <1>0, <2>1, PushReaches
  <2>3. Reaches(s, lua_rawset(Push(Push(r, Name(event)), x), -3), h, t + 1 + 1 - 2)
    BY <1>0, <2>2, SetReaches
  <2> QED BY <1>0, <2>3 DEF Entry
<1> QED BY <1>1 DEF Meta

LEMMA MarkedReaches ==
    ASSUME NEW s, NEW r, NEW h \in Int, NEW t \in Int, Reaches(s, r, h, t),
           h <= t - 1, t + 1 <= Cap, s.base \in Int, s.base <= t - 1
    PROVE  Reaches(s, Marked(r), h, t - 1)
<1>0. h <= t /\ s.base <= t BY CapNat
<1>1. Reaches(s, Meta(r, "__gc"), h, t) BY <1>0, EntryReaches
<1>2. Reaches(s, Entry(Meta(r, "__gc"), "__IsJavaObject", Bool(TRUE)), h, t)
  BY <1>0, <1>1, EntryReaches
<1> QED BY <1>2, SetmetatableReaches DEF Marked

LEMMA PushJavaObjectReaches ==
    ASSUME NEW s, NEW r, NEW h \in Int, NEW t \in Int, Reaches(s, r, h, t),
           NEW object, h <= t, t + 3 <= Cap, s.base \in Int, s.base <= t
    PROVE  Reaches(s, pushJavaObject(r, object), h, t + 1) /\ Reaches(s, pushJavaFunction(r, object), h, t + 1)
<1>0. /\ t <= Cap /\ t + 1 <= Cap /\ t + 1 + 1 + 1 <= Cap /\ t + 1 + 1 - 1 = t + 1 /\ h <= t + 1
      /\ h <= t + 1 + 1 /\ h <= t + 1 + 1 - 1
      /\ s.base <= t + 1 + 1 /\ s.base <= t + 1 + 1 - 1 /\ t + 1 \in Int /\ t + 1 + 1 \in Int
  BY CapNat
<1>1. Reaches(s, lua_newuserdata(r, object), h, t + 1) BY <1>0, NewuserdataReaches
<1>2. Reaches(s, Boxed(r, object), h, t + 1 + 1) BY <1>0, <1>1, NewtableReaches DEF Boxed
<1>3. ASSUME NEW q, Reaches(s, q, h, t + 1 + 1), NEW event PROVE Reaches(s, Meta(q, event), h, t + 1 + 1)
  BY <1>0, <1>3, EntryReaches
<1>4. ASSUME NEW q, Reaches(s, q, h, t + 1 + 1) PROVE Reaches(s, Marked(q), h, t + 1)
  <2>1. Reaches(s, Marked(q), h, t + 1 + 1 - 1) BY <1>0, <1>4, MarkedReaches
  <2> QED BY <1>0, <2>1
<1> QED BY <1>2, <1>3, <1>4 DEF pushJavaObject, pushJavaFunction

----------------------------------------------------------------------------
(* Natives that pin a string *)

LEMMA PinnedBoth ==
    ASSUME NEW s, NEW r, NEW h \in Int, NEW t \in Int, Reaches(s, r, h, t), IsState(s)
    PROVE  Reaches(GetStringUTFChars(s), GetStringUTFChars(r), h, t)
<1>1. ASSUME NEW q, IsRecord(q)
      PROVE  LET g == GetStringUTFChars(q)
             IN  /\ IsRecord(g) /\ g.pins = q.pins + 1 /\ g.err = q.err /\ g.base = q.base
                 /\ g.mem = q.mem /\ g.top = q.top /\ g.citop = q.citop
  BY <1>1 DEF GetStringUTFChars, IsRecord, Fields
<1>2. IsRecord(s) /\ IsRecord(r) BY IsRecordOf DEF IsState
<1> DEFINE a == GetStringUTFChars(s)
           b == GetStringUTFChars(r)
<1>3. /\ a.pins = s.pins + 1 /\ a.err = s.err /\ a.base = s.base /\ a.mem = s.mem
      /\ IsRecord(b) /\ b.pins = r.pins + 1 /\ b.err = r.err /\ b.base = r.base /\ b.mem = r.mem
      /\ b.top = r.top /\ b.citop = r.citop
  BY <1>1, <1>2
<1> HIDE DEF a, b
<1>4. Reaches(a, b, h, t) BY <1>3 DEF Reaches, IsState, IsStack
<1> QED BY <1>4 DEF a, b

LEMMA PushstringReaches ==
    ASSUME NEW s, NEW r, NEW h \in Int, NEW t \in Int, Reaches(s, r, h, t),
           IsState(s), NEW text, h <= t, t <= Cap
    PROVE  Reaches(s, pushString(r, text), h, t + 1) /\ Reaches(s, pushBytes(r, text), h, t + 1)
<1>1. Reaches(GetStringUTFChars(s), GetStringUTFChars(r), h, t) BY PinnedBoth
<1>2. ASSUME NEW v PROVE Reaches(s, Released(Push(GetStringUTFChars(r), v)), h, t + 1)
  <2>1. Reaches(GetStringUTFChars(s), Push(GetStringUTFChars(r), v), h, t + 1)
    BY <1>1, PushReaches
  <2> QED BY <2>1, PinnedReaches
<1> QED BY <1>2 DEF pushString, pushBytes

LEMMA GetglobalReaches ==
    ASSUME NEW s, NEW r, NEW h \in Int, NEW t \in Int, Reaches(s, r, h, t),
           IsState(s), NEW name, h <= t, t <= Cap
    PROVE  Reaches(s, getGlobal(r, name), h, t + 1)
<1>1. Reaches(GetStringUTFChars(s), GetStringUTFChars(r), h, t) BY PinnedBoth
<1>2. Reaches(GetStringUTFChars(s), lua_getfield(GetStringUTFChars(r), Globals, name), h, t + 1)
  BY <1>1, GetfieldReaches
<1> QED BY <1>2, PinnedReaches DEF getGlobal

LEMMA SetglobalReaches ==
    ASSUME NEW s, NEW r, NEW h \in Int, NEW t \in Int, Reaches(s, r, h, t),
           IsState(s), NEW name, s.base <= t - 1
    PROVE  Reaches(s, setGlobal(r, name), h, t - 1)
<1>1. Reaches(GetStringUTFChars(s), GetStringUTFChars(r), h, t) BY PinnedBoth
<1>2. GetStringUTFChars(s).base = s.base BY DEF IsState, IsRecord, Fields, GetStringUTFChars
<1>3. Reaches(GetStringUTFChars(s), lua_setfield(GetStringUTFChars(r), Globals, name), h, t - 1)
  BY <1>1, <1>2, SetfieldReaches
<1> QED BY <1>3, PinnedReaches DEF setGlobal

----------------------------------------------------------------------------
(* The methods of LuaState, LuaObject and Lua *)

\* A value is pushed, or it is refused, and then nothing is.
LEMMA PushObjectReaches ==
    ASSUME NEW s, NEW r, NEW h \in Int, NEW t \in Int, Reaches(s, r, h, t),
           IsState(s), NEW o, o[1] \in Classes, ~Refuses(o), h <= t, t + 3 <= Cap, s.base \in Int, s.base <= t
    PROVE  Reaches(s, pushObjectValue(r, o), h, t + 1)
<1>0. t <= Cap BY CapNat
<1>1. \A v : Reaches(s, Push(r, v), h, t + 1) BY <1>0, PushReaches
<1>2. \A text : Reaches(s, pushString(r, text), h, t + 1) BY <1>0, PushstringReaches
<1>3. \A x : Reaches(s, pushJavaObject(r, x), h, t + 1) /\ Reaches(s, pushJavaFunction(r, x), h, t + 1)
  BY PushJavaObjectReaches
<1> QED
  BY <1>1, <1>2, <1>3, Zenon DEF pushObjectValue, pushNil, pushBoolean, pushNumber, pushJavaArray, Classes

LEMMA RefusedReaches ==
    ASSUME NEW s, NEW r, NEW h, NEW t, Reaches(s, r, h, t), NEW o, Refuses(o)
    PROVE  Reaches(s, pushObjectValue(r, o), h, t)
<1>1. pushObjectValue(r, o) = Throw(r, "LuaException")
  BY Zenon DEF pushObjectValue, Refuses
<1> QED BY <1>1, ThrowReaches

LEMMA GetLuaObjectReaches ==
    ASSUME NEW s, NEW r, NEW h \in Int, NEW t \in Int, Reaches(s, r, h, t),
           NEW i, h <= t, t <= Cap, s.base \in Int, s.base <= t
    PROVE  Reaches(s, getLuaObject(r, i), h, t)
<1> DEFINE p == pushValue(r, i)
<1>0. s.base <= t + 1 - 1 /\ t + 1 - 1 = t /\ t + 1 \in Int OBVIOUS
<1>1. Reaches(s, p, h, t + 1) BY PushvalueReaches DEF pushValue
<1>2. getLuaObject(r, i) = Return(lua_pop(p, 1), LuaObject(At(p, -1))) BY DEF getLuaObject, pop
<1> HIDE DEF p
<1>3. Reaches(s, lua_pop(p, 1), h, t + 1 - 1) BY <1>0, <1>1, PopReaches
<1> QED BY <1>0, <1>2, <1>3, ReturnReaches

LEMMA TakenReaches ==
    ASSUME NEW s, NEW r, NEW h \in Int, NEW t \in Int, Reaches(s, r, h, t), NEW n \in Nat, s.base <= t - n
    PROVE  Reaches(s, Taken(r, n), h, t - n)
BY PopReaches, AnswerReaches DEF Taken, pop

LEMMA HandleThrowsReaches ==
    ASSUME NEW s, NEW r, NEW h \in Int, NEW t \in Int, Reaches(s, r, h, t),
           h <= t - 1, t <= Cap, s.base \in Int, s.base <= t - 1
    PROVE  Reaches(s, handleThrows(r), h, t - 1) /\ handleThrows(r).obj = Exception
<1>1. h <= t /\ s.base <= t BY CapNat
<1>2. Reaches(s, getLuaObject(r, -1), h, t) BY <1>1, GetLuaObjectReaches
<1>3. Reaches(s, pop(getLuaObject(r, -1), 1), h, t - 1) BY <1>2, PopReaches DEF pop
<1> QED BY <1>3, AnswerReaches DEF handleThrows

LEMMA Failed ==
    ASSUME NEW s, NEW r, NEW h, NEW t, Reaches(s, r, h, t), r.err # NoError, NEW k, NEW u
    PROVE  Reaches(s, r, k, u)
BY DEF Reaches

----------------------------------------------------------------------------
(* A list of arguments: PushAll is a recursive function, which exists by induction *)

\* A set of numbers has a least one.
LEMMA LeastNat ==
    ASSUME NEW T \in SUBSET Nat, T # {}
    PROVE  \E x \in T : \A y \in T : x <= y
<1> DEFINE R == OpToRel(<, Nat)
<1>1. \A x, y \in Nat : <<x, y>> \in R <=> x < y BY DEF OpToRel
<1>2. IsWellFoundedOn(R, Nat) BY NatLessThanWellFounded
<1> HIDE DEF R
<1>3. PICK x \in T : \A y \in T : ~(<<y, x>> \in R) BY <1>2, WFMin
<1>4. \A y \in T : x <= y
  <2> TAKE y \in T
  <2>1. x \in Nat /\ y \in Nat OBVIOUS
  <2>2. ~(y < x) BY <1>1, <1>3, <2>1
  <2> QED BY <2>1, <2>2
<1> QED BY <1>4

LEMMA NatSets ==
    ASSUME NEW T, 0 \in T, \A n \in Nat : n \in T => n + 1 \in T
    PROVE  Nat \subseteq T
<1> SUFFICES ASSUME Nat \ T # {} PROVE FALSE
  OBVIOUS
<1>1. PICK x \in Nat \ T : \A y \in Nat \ T : x <= y BY LeastNat
<1>2. x # 0 /\ x - 1 \in Nat /\ x - 1 \in T BY <1>1
<1> QED BY <1>2

\* The first value that is refused.
LEMMA FirstIs ==
    ASSUME NEW n \in Nat, NEW values, Len(values) = n
    PROVE  /\ FirstRefused(values) \in 0..n
           /\ FirstRefused(values) = 0 => \A i \in 1..n : ~Refuses(values[i])
           /\ FirstRefused(values) # 0 => /\ Refuses(values[FirstRefused(values)])
                                         /\ \A i \in 1..FirstRefused(values) - 1 : ~Refuses(values[i])
<1> DEFINE I == {i \in 1..n : Refuses(values[i])}
           least == CHOOSE x \in I : \A y \in I : x <= y
<1>1. FirstRefused(values) = IF I # {} THEN least ELSE 0
  <2> DEFINE J == {i \in 1..Len(values) : Refuses(values[i])}
  <2>1. FirstRefused(values) = IF J # {} THEN Min(J) ELSE 0 BY DEF FirstRefused, SelectInSeq
  <2>2. J = I OBVIOUS
  <2> HIDE DEF J
  <2>3. Min(J) = least BY <2>2, Zenon DEF Min
  <2> HIDE DEF least, I
  <2> QED BY <2>1, <2>2, <2>3
<1>2. CASE I = {} BY <1>1, <1>2
<1>3. CASE I # {}
  <2>1. I \in SUBSET Nat OBVIOUS
  <2>2. \E x \in I : \A y \in I : x <= y BY <1>3, <2>1, LeastNat
  <2>3. least \in I /\ \A y \in I : least <= y BY <2>2
  <2>4. FirstRefused(values) = least BY <1>1, <1>3
  <2> HIDE DEF least
  <2>5. ASSUME NEW i \in 1..least - 1 PROVE ~Refuses(values[i])
    <3>1. i \in 1..n /\ ~(least <= i) BY <2>3
    <3> QED BY <2>3, <3>1
  <2> QED BY <2>3, <2>4, <2>5
<1> QED BY <1>2, <1>3

\* ... of one, and of two.
LEMMA FirstOfOne ==
    ASSUME NEW o
    PROVE  FirstRefused(<<o>>) = IF Refuses(o) THEN 1 ELSE 0
<1>1. Len(<<o>>) = 1 /\ 1 \in Nat /\ (<<o>>)[1] = o OBVIOUS
<1>2. /\ FirstRefused(<<o>>) \in 0..1
      /\ FirstRefused(<<o>>) = 0 => \A i \in 1..1 : ~Refuses((<<o>>)[i])
      /\ FirstRefused(<<o>>) # 0 => Refuses((<<o>>)[FirstRefused(<<o>>)])
  BY <1>1, FirstIs
<1>3. 1 \in 1..1 OBVIOUS
<1> QED BY <1>1, <1>2, <1>3

LEMMA FirstOfTwo ==
    ASSUME NEW a, NEW b
    PROVE  FirstRefused(<<a, b>>) = IF Refuses(a) THEN 1 ELSE IF Refuses(b) THEN 2 ELSE 0
<1> DEFINE k == FirstRefused(<<a, b>>)
<1>1. Len(<<a, b>>) = 2 /\ 2 \in Nat /\ (<<a, b>>)[1] = a /\ (<<a, b>>)[2] = b OBVIOUS
<1>2. /\ k \in 0..2
      /\ k = 0 => \A i \in 1..2 : ~Refuses((<<a, b>>)[i])
      /\ k # 0 => Refuses((<<a, b>>)[k]) /\ \A i \in 1..k - 1 : ~Refuses((<<a, b>>)[i])
  BY <1>1, FirstIs
<1>3. 1 \in 1..2 /\ 2 \in 1..2 /\ 1 \in 1..2 - 1 OBVIOUS
<1> HIDE DEF k
<1>4. k = 0 \/ k = 1 \/ k = 2 BY <1>2
<1>5. CASE k = 0 BY <1>1, <1>2, <1>3, <1>5 DEF k
<1>6. CASE k = 1 BY <1>1, <1>2, <1>6 DEF k
<1>7. CASE k = 2 BY <1>1, <1>2, <1>3, <1>7 DEF k
<1> QED BY <1>4, <1>5, <1>6, <1>7

\* What PushAll makes of the first n arguments, for every n.
Pushes(f, n, s, args) == f = [i \in 0..n |-> IF i = 0 THEN s ELSE pushObjectValue(f[i - 1], args[i])]

LEMMA PushesExist ==
    ASSUME NEW s, NEW args
    PROVE  \A n \in Nat : \E f : Pushes(f, n, s, args)
<1> DEFINE T == {n \in Nat : \E f : Pushes(f, n, s, args)}
<1>1. 0 \in T
  <2> DEFINE f == [i \in 0..0 |-> s]
  <2>1. Pushes(f, 0, s, args) BY DEF Pushes
  <2> QED BY <2>1
<1>2. ASSUME NEW n \in Nat, n \in T PROVE n + 1 \in T
  <2>1. PICK f : Pushes(f, n, s, args) BY <1>2
  <2> DEFINE v == pushObjectValue(f[n], args[n + 1])
             g == [i \in 0..n + 1 |-> IF i = n + 1 THEN v ELSE f[i]]
  <2>2. DOMAIN f = 0..n /\ f[0] = s /\ \A i \in 1..n : f[i] = pushObjectValue(f[i - 1], args[i])
    BY <2>1 DEF Pushes
  <2>3. g[0] = s
    <3>1. 0 \in 0..n + 1 /\ 0 # n + 1 OBVIOUS
    <3> QED BY <2>2, <3>1
  <2>4. ASSUME NEW i \in 1..n + 1 PROVE g[i] = pushObjectValue(g[i - 1], args[i])
    <3>1. CASE i = n + 1
      <4>1. i - 1 = n /\ n \in 0..n + 1 /\ n # n + 1 /\ n + 1 \in 0..n + 1 BY <3>1
      <4>2. g[i - 1] = f[n] BY <4>1
      <4>3. g[i] = v BY <3>1, <4>1
      <4> QED BY <3>1, <4>2, <4>3
    <3>2. CASE i # n + 1
      <4>1. i \in 1..n /\ i \in 0..n + 1 /\ i - 1 \in 0..n + 1 /\ i - 1 # n + 1 BY <3>2
      <4>2. g[i] = f[i] /\ g[i - 1] = f[i - 1] BY <3>2, <4>1
      <4> QED BY <2>2, <4>1, <4>2
    <3> QED BY <3>1, <3>2
  <2>5. DOMAIN g = 0..n + 1 /\ g = [i \in 0..n + 1 |-> g[i]] OBVIOUS
  <2> HIDE DEF g
  <2>6. ASSUME NEW i \in 0..n + 1 PROVE g[i] = IF i = 0 THEN s ELSE pushObjectValue(g[i - 1], args[i])
    <3>1. i = 0 \/ i \in 1..n + 1 OBVIOUS
    <3>2. i \in 1..n + 1 => i # 0 OBVIOUS
    <3> QED BY <2>3, <2>4, <3>1, <3>2
  <2>7. Pushes(g, n + 1, s, args) BY <2>5, <2>6 DEF Pushes
  <2> QED BY <2>7
<1> HIDE DEF T
<1>3. Nat \subseteq T BY <1>1, <1>2, NatSets
<1> QED BY <1>3 DEF T

LEMMA NextPlace ==
    ASSUME NEW h \in Int, NEW t \in Int, NEW b \in Int, NEW n \in Nat, NEW i \in Nat, i + 1 <= n,
           h <= t, t + n + 2 <= Cap, b <= t
    PROVE  /\ i <= n /\ i + 1 \in 0..n /\ i + 1 \in 1..n /\ i + 1 - 1 = i /\ i + 1 # 0 /\ h <= t + i
           /\ t + i + 3 <= Cap /\ b <= t + i /\ t + i + 1 = t + (i + 1) /\ t + i \in Int
<1>1. Cap \in Nat BY CapNat
<1>2. t + i + 3 <= Cap BY <1>1
<1> QED BY <1>1, <1>2

LEMMA PushAllReaches ==
    ASSUME NEW s, NEW r, NEW h \in Int, NEW t \in Int, Reaches(s, r, h, t),
           IsState(s), NEW n \in Nat, NEW args, Len(args) = n, \A i \in 1..n : args[i][1] \in Classes /\ ~Refuses(args[i]),
           h <= t, t + n + 2 <= Cap, s.base \in Int, s.base <= t
    PROVE  Reaches(s, PushAll(r, args), h, t + n)
<1> DEFINE D(f) == f = [i \in 0..Len(args) |-> IF i = 0 THEN r ELSE pushObjectValue(f[i - 1], args[i])]
           pushed == CHOOSE f : D(f)
<1>1. PushAll(r, args) = pushed[Len(args)] BY Zenon DEF PushAll
<1>2. \E f : D(f)
  <2>1. \E f : Pushes(f, n, r, args) BY PushesExist
  <2> QED BY <2>1 DEF Pushes
<1> HIDE DEF D
<1>3. D(pushed) BY <1>2
<1> HIDE DEF pushed
<1>4. pushed = [i \in 0..n |-> IF i = 0 THEN r ELSE pushObjectValue(pushed[i - 1], args[i])]
  BY <1>3 DEF D
<1>11. ASSUME NEW j \in 0..n, j # 0 PROVE pushed[j] = pushObjectValue(pushed[j - 1], args[j])
  <2> DEFINE Elem(i) == IF i = 0 THEN r ELSE pushObjectValue(pushed[i - 1], args[i])
  <2>1. pushed = [i \in 0..n |-> Elem(i)] BY <1>4, Zenon
  <2>2. Elem(j) = pushObjectValue(pushed[j - 1], args[j]) BY <1>11
  <2> HIDE DEF Elem
  <2>3. pushed[j] = Elem(j) BY <2>1, Zenon
  <2> QED BY <2>2, <2>3, Zenon
<1> DEFINE T == {i \in Nat : i <= n => Reaches(s, pushed[i], h, t + i)}
<1>5. 0 \in T
  <2>1. pushed[0] = r /\ t + 0 = t BY <1>4
  <2> QED BY <2>1
<1>6. ASSUME NEW i \in Nat, i \in T PROVE i + 1 \in T
  <2>1. CASE i + 1 <= n
    <3>1. /\ i <= n /\ i + 1 \in 0..n /\ i + 1 \in 1..n /\ i + 1 - 1 = i /\ i + 1 # 0 /\ h <= t + i /\ t + i + 3 <= Cap /\ s.base <= t + i
          /\ t + i + 1 = t + (i + 1) /\ t + i \in Int
      BY <2>1, NextPlace
    <3>2. Reaches(s, pushed[i], h, t + i) BY <1>6, <3>1
    <3>6. pushed[i + 1] = pushObjectValue(pushed[i + 1 - 1], args[i + 1]) BY <1>11, <3>1
    <3>3. pushed[i + 1] = pushObjectValue(pushed[i], args[i + 1]) BY <3>1, <3>6
    <3>4. args[i + 1][1] \in Classes /\ ~Refuses(args[i + 1]) BY <3>1
    <3>5. Reaches(s, pushObjectValue(pushed[i], args[i + 1]), h, t + i + 1)
      BY <3>1, <3>2, <3>4, PushObjectReaches
    <3> QED BY <3>1, <3>3, <3>5
  <2> QED BY <2>1
<1> HIDE DEF T
<1>7. Nat \subseteq T BY <1>5, <1>6, NatSets
<1>8. n \in T BY <1>7
<1> QED BY <1>1, <1>8 DEF T

----------------------------------------------------------------------------
(* The methods end where they began *)

\* Room for them.
LEMMA Room ==
    ASSUME NEW s, IsState(s), s.err = NoError, s.top + 4 + MaxArgs <= Cap
    PROVE  /\ s.base \in Int /\ s.top \in Int /\ s.base <= s.top /\ s.top + 4 <= Cap
           /\ s.top + 3 <= Cap /\ s.top + 2 <= Cap /\ s.top + 1 <= Cap /\ s.top <= Cap
           /\ s.top + 1 \in Int /\ s.top + 1 + 1 \in Int /\ s.top + 1 + 1 + 1 \in Int
           /\ s.top + 1 + 3 <= Cap /\ s.top + 1 + 1 + 3 <= Cap
           /\ s.top + 1 + 1 <= Cap /\ s.top + 1 + 1 + 1 <= Cap /\ s.top + 1 - 1 = s.top
           /\ s.top + 1 + 1 - 1 = s.top + 1 /\ s.top + 1 + 1 - 2 = s.top
           /\ s.top <= s.top + 1 /\ s.top <= s.top + 1 + 1 /\ s.top <= s.top + 1 + 1 + 1
           /\ s.base <= s.top + 1 /\ s.base <= s.top + 1 + 1
           /\ s.base <= s.top + 1 + 1 + 1 /\ s.top + 1 + 1 + 1 - 2 = s.top + 1 /\ s.top <= s.top
<1>1. s.base \in Nat /\ s.top \in Nat /\ s.base <= s.top BY Bounds DEF IsState
<1> QED BY <1>1, CapNat

\* Each method of Lua and LuaObject leads back to the top it started from.
LEMMA GetGlobalKeeps ==
    ASSUME NEW s, IsState(s), s.err = NoError, s.top + 4 + MaxArgs <= Cap, NEW name
    PROVE  Reaches(s, getGlobal_(s, name), s.top, s.top)
<1>0. Reaches(s, s, s.top, s.top) BY Starting
<1> DEFINE g == getGlobal(s, name)
<1>1. getGlobal_(s, name) = IF g.err # NoError THEN g ELSE Taken(getLuaObject(g, -1), 1)
  BY Zenon DEF getGlobal_, Then
<1>2. Reaches(s, g, s.top, s.top + 1) BY <1>0, Room, GetglobalReaches
<1> HIDE DEF g
<1>3. Reaches(s, getLuaObject(g, -1), s.top, s.top + 1) BY <1>2, Room, GetLuaObjectReaches
<1>4. Reaches(s, Taken(getLuaObject(g, -1), 1), s.top, s.top + 1 - 1) BY <1>3, Room, TakenReaches
<1> QED BY <1>1, <1>2, <1>4, Room, Failed

\* A value that is refused leaves what was pushed before it.
LEMMA RegisterGlobalKeeps ==
    ASSUME NEW s, IsState(s), s.err = NoError, s.top + 4 + MaxArgs <= Cap, NEW name, NEW o, o[1] \in Classes
    PROVE  Reaches(s, registerGlobal(s, name, o), s.top, s.top)
<1>0. Reaches(s, s, s.top, s.top) BY Starting
<1>1. CASE Refuses(o)
  <2>1. Reaches(s, pushObjectValue(s, o), s.top, s.top) BY <1>0, <1>1, RefusedReaches
  <2> QED BY <1>1, <2>1 DEF registerGlobal, AfterPush
<1>2. CASE ~Refuses(o)
  <2>1. Reaches(s, pushObjectValue(s, o), s.top, s.top + 1) BY <1>0, <1>2, Room, PushObjectReaches
  <2>2. Reaches(s, setGlobal(pushObjectValue(s, o), name), s.top, s.top + 1 - 1)
    BY <2>1, Room, SetglobalReaches
  <2> QED BY <1>2, <2>2, Room DEF registerGlobal, AfterPush
<1> QED BY <1>1, <1>2

LEMMA CreateTableKeeps ==
    ASSUME NEW s, IsState(s), s.err = NoError, s.top + 4 + MaxArgs <= Cap
    PROVE  Reaches(s, createTable(s), s.top, s.top)
<1>0. Reaches(s, s, s.top, s.top) BY Starting
<1>1. Reaches(s, newTable(s), s.top, s.top + 1) BY <1>0, Room, NewtableReaches DEF newTable
<1>2. Reaches(s, getLuaObject(newTable(s), -1), s.top, s.top + 1) BY <1>1, Room, GetLuaObjectReaches
<1>3. Reaches(s, Taken(getLuaObject(newTable(s), -1), 1), s.top, s.top + 1 - 1)
  BY <1>2, Room, TakenReaches
<1> QED BY <1>3, Room DEF createTable

LEMMA GetFieldKeeps ==
    ASSUME NEW s, IsState(s), s.err = NoError, s.top + 4 + MaxArgs <= Cap, NEW parent, NEW key
    PROVE  Reaches(s, getField_(s, parent, key), s.top, s.top)
<1>0. Reaches(s, s, s.top, s.top) BY Starting
<1> DEFINE p == getTable(Push(Push(s, parent), key), -2)
           done == Taken(getLuaObject(remove(p, -2), -1), 1)
<1>1. \/ getField_(s, parent, key) = Answer(s, Exception)
      \/ p.err # NoError /\ getField_(s, parent, key) = p
      \/ getField_(s, parent, key) = done
  BY Zenon DEF getField_, Then
<1>2. Reaches(s, Push(s, parent), s.top, s.top + 1) BY <1>0, Room, PushReaches
<1>3. Reaches(s, Push(Push(s, parent), key), s.top, s.top + 1 + 1) BY <1>2, Room, PushReaches
<1>4. Reaches(s, p, s.top, s.top + 1 + 1) BY <1>3, Room, GettableReaches DEF getTable
<1> HIDE DEF p
<1>5. Reaches(s, remove(p, -2), s.top, s.top + 1)
  <2>1. /\ Place(s, -2, s.top + 1 + 1) = s.top /\ s.top \in Int /\ s.top < s.top + 1 + 1 /\ -2 \in Int /\ s.base <= s.top + 1 + 1 - 1
    BY Room DEF Place
  <2>2. Reaches(s, lua_remove(p, -2), s.top, s.top + 1 + 1 - 1) BY <1>4, <2>1, Room, RemoveReaches
  <2> QED BY <2>2, Room DEF remove
<1>6. Reaches(s, getLuaObject(remove(p, -2), -1), s.top, s.top + 1)
  BY <1>5, Room, GetLuaObjectReaches
<1>7. Reaches(s, done, s.top, s.top + 1 - 1) BY <1>6, Room, TakenReaches
<1>8. Reaches(s, done, s.top, s.top) BY <1>7, Room
<1>9. Reaches(s, Answer(s, Exception), s.top, s.top) BY <1>0, AnswerReaches
<1> HIDE DEF done
<1>10. p.err # NoError => Reaches(s, p, s.top, s.top) BY <1>4, Failed
<1> QED BY <1>1, <1>8, <1>9, <1>10

\* What is a table stays one when it is pushed.
LEMMA Asked ==
    ASSUME NEW s, IsState(s), s.err = NoError, s.top <= Cap, NEW v
    PROVE  Ask(s, v, isTable).ret = IF Type(v) = "table" THEN 1 ELSE 0
<1> DEFINE p == Push(s, v)
<1>1. s.top \in 1..Cap /\ DOMAIN s.mem = 1..Cap /\ s.top \in Int
  <2>1. IsStack(s) /\ s.base \in Nat \ {0} /\ s.top \in Nat /\ s.base <= s.top BY Bounds DEF IsState
  <2>2. DOMAIN s.mem = 1..Cap BY <2>1 DEF IsStack, AreSlots
  <2> QED BY <2>1, <2>2, CapNat
<1>2. p.top = s.top + 1 /\ p.mem = Set(s.mem, s.top, v)
  BY <1>1, PushEffect DEF IsState, IsRecord, Fields, Push, Set
<1>3. p.mem[s.top] = v BY <1>1, <1>2 DEF Set
<1>4. Slot(p, -1) = s.top BY <1>1, <1>2 DEF Slot
<1> HIDE DEF p
<1>5. At(p, -1) = v BY <1>3, <1>4 DEF At, Registry, Environ, Globals
<1>6. isTable(p, -1).ret = IF Type(v) = "table" THEN 1 ELSE 0
  <2>1. IsRecord(p) BY PushEffect DEF IsState, Effect, p
  <2>2. isTable(p, -1) = Return(p, IF Type(v) = "table" THEN 1 ELSE 0)
    BY <1>5 DEF isTable, JBool, lua_istable, lua_type
  <2> QED BY <2>1, <2>2 DEF Return, IsRecord, Fields
<1>7. Ask(s, v, isTable) = Return(pop(isTable(p, -1), 1), isTable(p, -1).ret) BY DEF Ask, p
<1> DEFINE r == isTable(p, -1)
<1>8. IsRecord(r) BY PushEffect DEF IsState, Effect, p, isTable, Return, IsRecord, Fields
<1> HIDE DEF r
<1>9. Return(pop(r, 1), r.ret).ret = r.ret
  BY <1>8 DEF Return, pop, lua_pop, lua_settop, IsRecord, Fields
<1> QED BY <1>6, <1>7, <1>9 DEF r

LEMMA SetTableFieldKeeps ==
    ASSUME NEW s, IsState(s), s.err = NoError, s.top + 4 + MaxArgs <= Cap,
           NEW table, NEW key, key[1] \in Classes, NEW o, o[1] \in Classes
    PROVE  Reaches(s, setTableField(s, table, key, o), s.top,
                   s.top + (IF Type(table) = "table" THEN FirstRefused(<<key, o>>) ELSE 0))
<1>0. Reaches(s, s, s.top, s.top) BY Starting
<1> DEFINE keyed == pushObjectValue(Push(s, table), key)
           full == pushObjectValue(keyed, o)
           set == setTable(full, -3)
           done == Answer(pop(set, 1), Null)
           q == setTableField(s, table, key, o)
<1>1. /\ Type(table) # "table" => q = Answer(s, Exception)
      /\ Type(table) = "table" /\ Refuses(key) => q = keyed
      /\ Type(table) = "table" /\ ~Refuses(key) /\ Refuses(o) => q = full
      /\ Type(table) = "table" /\ ~Refuses(key) /\ ~Refuses(o) => q = done \/ (q = set /\ set.err # NoError)
  <2>1. Ask(s, table, isTable).ret = IF Type(table) = "table" THEN 1 ELSE 0 BY Room, Asked
  <2>2. Ask(s, table, isTable).ret = 0 <=> Type(table) # "table" BY <2>1
  <2> QED BY <2>2, Zenon DEF setTableField, AfterPush, Then
<1>2. Reaches(s, Push(s, table), s.top, s.top + 1) BY <1>0, Room, PushReaches
<1>3. ASSUME Refuses(key) PROVE Reaches(s, keyed, s.top, s.top + 1)
  BY <1>2, <1>3, RefusedReaches
<1>4. ASSUME ~Refuses(key) PROVE Reaches(s, keyed, s.top, s.top + 1 + 1)
  BY <1>2, <1>4, Room, PushObjectReaches
<1> HIDE DEF keyed, q
<1>5. ASSUME ~Refuses(key), Refuses(o) PROVE Reaches(s, full, s.top, s.top + 1 + 1)
  BY <1>4, <1>5, RefusedReaches
<1>6. ASSUME ~Refuses(key), ~Refuses(o) PROVE Reaches(s, full, s.top, s.top + 1 + 1 + 1)
  BY <1>4, <1>6, Room, PushObjectReaches
<1> HIDE DEF full
<1>7. ASSUME ~Refuses(key), ~Refuses(o) PROVE Reaches(s, done, s.top, s.top) /\ (set.err # NoError => Reaches(s, set, s.top, s.top))
  <2>1. s.base <= s.top + 1 + 1 + 1 - 2 BY Room
  <2>2. Reaches(s, lua_settable(full, -3), s.top, s.top + 1 + 1 + 1 - 2)
    BY <1>6, <1>7, <2>1, Room, SetReaches
  <2>3. Reaches(s, set, s.top, s.top + 1) BY <2>2, Room DEF setTable
  <2> HIDE DEF set
  <2>4. Reaches(s, pop(set, 1), s.top, s.top + 1 - 1) BY <2>3, Room, PopReaches DEF pop
  <2> QED BY <2>3, <2>4, Room, AnswerReaches, Failed
<1> HIDE DEF set, done
<1>8. Reaches(s, Answer(s, Exception), s.top, s.top) BY <1>0, AnswerReaches
<1>9. s.top + 0 = s.top /\ s.top + 2 = s.top + 1 + 1 BY Room
<1>10. CASE Type(table) # "table" BY <1>1, <1>8, <1>9, <1>10 DEF q
<1>11. CASE Type(table) = "table" /\ Refuses(key) BY <1>1, <1>3, <1>11, FirstOfTwo DEF q
<1>12. CASE Type(table) = "table" /\ ~Refuses(key) /\ Refuses(o)
  BY <1>1, <1>5, <1>9, <1>12, FirstOfTwo DEF q
<1>13. CASE Type(table) = "table" /\ ~Refuses(key) /\ ~Refuses(o)
  BY <1>1, <1>7, <1>9, <1>13, FirstOfTwo DEF q
<1> QED BY <1>10, <1>11, <1>12, <1>13

LEMMA GetGlobalTableFieldKeeps ==
    ASSUME NEW s, IsState(s), s.err = NoError, s.top + 4 + MaxArgs <= Cap, NEW name, NEW key, key[1] \in Classes
    PROVE  Reaches(s, getGlobalTableField(s, name, key), s.top,
                   s.top + (IF isTable(getGlobal(s, name), -1).ret = 1 THEN FirstRefused(<<key>>) ELSE 0))
<1>0. Reaches(s, s, s.top, s.top) BY Starting
<1> DEFINE g == getGlobal(s, name)
           p == pushObjectValue(g, key)
           got == getTable(p, -2)
           done == Taken(getLuaObject(got, -1), 2)
           none == Answer(pop(g, 1), Exception)
           q == getGlobalTableField(s, name, key)
           is == isTable(g, -1).ret
<1>1. /\ g.err # NoError => q = g
      /\ g.err = NoError /\ is = 0 => q = none
      /\ g.err = NoError /\ is # 0 /\ Refuses(key) => q = p
      /\ g.err = NoError /\ is # 0 /\ ~Refuses(key) => (q = got /\ got.err # NoError) \/ q = done
  BY Zenon DEF getGlobalTableField, AfterPush, Then
<1>2. Reaches(s, g, s.top, s.top + 1) BY <1>0, Room, GetglobalReaches
<1>3. is = 0 \/ is = 1
  <2> DEFINE b == JBool(lua_istable(g, -1))
  <2>1. Return(g, b).ret = b BY <1>2, ReturnReaches
  <2>2. b = 0 \/ b = 1 BY DEF JBool
  <2> QED BY <2>1, <2>2 DEF isTable
<1> HIDE DEF g, q
<1>4. ASSUME Refuses(key) PROVE Reaches(s, p, s.top, s.top + 1)
  BY <1>2, <1>4, RefusedReaches
<1>5. ASSUME ~Refuses(key) PROVE Reaches(s, p, s.top, s.top + 1 + 1)
  BY <1>2, <1>5, Room, PushObjectReaches
<1> HIDE DEF p
<1>6. ASSUME ~Refuses(key) PROVE Reaches(s, done, s.top, s.top) /\ (got.err # NoError => Reaches(s, got, s.top, s.top))
  <2>1. s.top <= s.top + 1 + 1 - 1 BY Room
  <2>2. Reaches(s, got, s.top, s.top + 1 + 1)
    BY <1>5, <1>6, <2>1, Room, GettableReaches DEF getTable
  <2> HIDE DEF got
  <2>3. Reaches(s, getLuaObject(got, -1), s.top, s.top + 1 + 1) BY <2>2, Room, GetLuaObjectReaches
  <2>4. s.base <= s.top + 1 + 1 - 2 BY Room
  <2>5. Reaches(s, done, s.top, s.top + 1 + 1 - 2) BY <2>3, <2>4, Room, TakenReaches
  <2> HIDE DEF done
  <2> QED BY <2>2, <2>5, Room, Failed
<1> HIDE DEF done, got
<1>7. Reaches(s, pop(g, 1), s.top, s.top + 1 - 1) BY <1>2, Room, PopReaches DEF pop
<1>8. Reaches(s, none, s.top, s.top) BY <1>7, Room, AnswerReaches
<1> HIDE DEF none, is
<1>9. s.top + 0 = s.top BY Room
<1>10. CASE g.err # NoError BY <1>1, <1>2, <1>10, Failed DEF q
<1>11. CASE g.err = NoError /\ is = 0 BY <1>1, <1>8, <1>9, <1>11 DEF q, is, g
<1>12. CASE g.err = NoError /\ is # 0 /\ Refuses(key)
  BY <1>1, <1>3, <1>4, <1>12, FirstOfOne DEF q, is, g
<1>13. CASE g.err = NoError /\ is # 0 /\ ~Refuses(key)
  BY <1>1, <1>3, <1>6, <1>9, <1>13, FirstOfOne DEF q, is, g
<1> QED BY <1>10, <1>11, <1>12, <1>13

\* A function and its n arguments pushed, and taken again.
LEMMA ThereAndBack == ASSUME NEW a \in Int, NEW n \in Int PROVE a + 1 + n - (n + 1) = a /\ (a + 1 + n) - (n + 1) = a
OBVIOUS

\* The arguments before the first refused one.
LEMMA ArgumentsAre ==
    ASSUME NEW n \in Nat, NEW args \in Seq(JavaValues), Len(args) = n
    PROVE  /\ FirstRefused(args) = 0 => \A i \in 1..n : args[i][1] \in Classes /\ ~Refuses(args[i])
           /\ FirstRefused(args) # 0 =>
                  LET k == FirstRefused(args)
                      before == SubSeq(args, 1, k - 1)
                  IN  /\ k \in 1..n /\ k - 1 \in Nat /\ Len(before) = k - 1
                      /\ \A i \in 1..k - 1 : before[i][1] \in Classes /\ ~Refuses(before[i])
<1>1. \A i \in 1..n : args[i][1] \in Classes BY ValuesAssumption DEF ValuesAssumption
<1>2. ASSUME FirstRefused(args) # 0
      PROVE  LET k == FirstRefused(args)
                 before == SubSeq(args, 1, k - 1)
             IN  /\ k \in 1..n /\ k - 1 \in Nat /\ Len(before) = k - 1
                 /\ \A i \in 1..k - 1 : before[i][1] \in Classes /\ ~Refuses(before[i])
  <2> DEFINE k == FirstRefused(args)
  <2>1. k \in 1..n /\ \A i \in 1..k - 1 : ~Refuses(args[i]) BY <1>2, FirstIs
  <2> HIDE DEF k
  <2>2. k - 1 \in Nat /\ k - 1 <= n BY <2>1
  <2>3. Len(SubSeq(args, 1, k - 1)) = k - 1 /\ \A i \in 1..k - 1 : SubSeq(args, 1, k - 1)[i] = args[i]
    BY <2>2
  <2>4. \A i \in 1..k - 1 : i \in 1..n BY <2>2
  <2>5. \A i \in 1..k - 1 : SubSeq(args, 1, k - 1)[i][1] \in Classes /\ ~Refuses(SubSeq(args, 1, k - 1)[i])
    BY <1>1, <2>1, <2>3, <2>4
  <2> QED BY <2>1, <2>2, <2>3, <2>5 DEF k
<1> QED BY <1>1, <1>2, FirstIs

LEMMA CallAccepted ==
    ASSUME NEW s, IsState(s), s.err = NoError, s.top + 4 + MaxArgs <= Cap, NEW name, NEW results \in 0..2,
           NEW n \in 0..MaxArgs, NEW args \in Seq(JavaValues), Len(args) = n, FirstRefused(args) = 0
    PROVE  Reaches(s, callFunctionEx(s, name, results, args), s.top, s.top)
<1>0. Reaches(s, s, s.top, s.top) BY Starting
<1> DEFINE g == getGlobal(s, name)
           pushed == PushAll(g, args)
           r == pcall(pushed, n, results, 0)
           thrown == handleThrows(r)
           x == ListOf(r, results)
           done == Answer(pop(r, results), x)
           q == callFunctionEx(s, name, results, args)
<1>1. (q = g /\ g.err # NoError) \/ (r.ret # 0 /\ q = thrown) \/ (r.ret = 0 /\ q = done)
  BY Zenon DEF callFunctionEx, Then
<1>01. \A i \in 1..n : args[i][1] \in Classes /\ ~Refuses(args[i]) BY ArgumentsAre
<1>2. Reaches(s, g, s.top, s.top + 1) BY <1>0, Room, GetglobalReaches
<1>00. s.top \in Int /\ s.base \in Int /\ s.base <= s.top BY Room
<1>3. n \in Nat /\ results \in Nat /\ s.top + 1 + n + 2 <= Cap /\ s.top + 1 + n <= Cap + 1 /\ s.top + 1 + n \in Int
      /\ results \in Nat \cup {MultRet} /\ 0 \in Nat
  <2> HIDE DEF g, q, pushed, r
  <2> QED BY <1>00, CapNat
<1> HIDE DEF q
<1> HIDE DEF g
<1>4. Reaches(s, pushed, s.top, s.top + 1 + n) BY <1>01, <1>2, <1>3, Room, PushAllReaches
<1> HIDE DEF pushed
<1>5. /\ s.top <= s.top + 1 + n - (n + 1) /\ s.base <= s.top + 1 + n - (n + 1)
      /\ s.top + 1 + n - (n + 1) + results <= Cap + 1
      /\ s.top + 1 + n - (n + 1) = s.top
  <2> HIDE DEF r
  <2>1. s.top + 1 + n - (n + 1) = s.top BY <1>00, <1>3, ThereAndBack
  <2>2. s.top + results <= Cap + 1
    <3>1. s.top + 4 <= Cap BY Room
    <3>2. results <= 2 /\ results \in Int OBVIOUS
    <3> QED BY <1>00, <3>1, <3>2, CapNat
  <2>3. s.top <= s.top BY <1>00
  <2> QED BY <1>00, <2>1, <2>2, <2>3
<1> HIDE DEF x, done, thrown
<1>6. \/ r.ret = 0 /\ \E k \in Nat : (results # MultRet => k = results) /\ Reaches(s, r, s.top, s.top + k)
      \/ r.ret # 0 /\ Reaches(s, r, s.top, s.top + 1)
  <2> DEFINE u == s.top + 1 + n
  <2>1. /\ u \in Int /\ u <= Cap + 1 /\ s.top <= u - (n + 1) /\ s.base <= u - (n + 1) /\ u - (n + 1) + results <= Cap + 1
        /\ Reaches(s, pushed, s.top, u)
    <3> HIDE DEF r
    <3>1. u \in Int /\ u <= Cap + 1 BY <1>3
    <3>2. u - (n + 1) = s.top /\ s.top + results <= Cap + 1 BY <1>00, <1>3, <1>5
    <3>3. Reaches(s, pushed, s.top, u) BY <1>4
    <3> HIDE DEF u
    <3> QED BY <1>00, <3>1, <3>2, <3>3
  <2> HIDE DEF u
  <2>2. r = lua_pcall(pushed, n, results, 0) BY DEF pcall
  <2> HIDE DEF r
  <2>3. \/ r.ret = 0 /\ \E k \in Nat : (results # MultRet => k = results) /\ Reaches(s, r, s.top, u - (n + 1) + k)
        \/ r.ret # 0 /\ Reaches(s, r, s.top, u - (n + 1) + 1)
    <3>1. s.top \in Int /\ n \in Nat /\ results \in Nat \cup {MultRet} BY <1>00, <1>3
    <3>2. LET z == lua_pcall(pushed, n, results, 0)
          IN  \/ z.ret = 0 /\ \E k \in Nat : (results # MultRet => k = results) /\ Reaches(s, z, s.top, u - (n + 1) + k)
              \/ z.ret # 0 /\ Reaches(s, z, s.top, u - (n + 1) + 1)
      BY <2>1, <3>1, PcallReaches
    <3> QED BY <2>2, <3>2
  <2>4. u - (n + 1) = s.top BY <1>00, <1>3, ThereAndBack DEF u
  <2> QED BY <2>3, <2>4
<1> HIDE DEF r
<1>7. (r.ret = 0 /\ Reaches(s, r, s.top, s.top + results)) \/ (r.ret # 0 /\ Reaches(s, r, s.top, s.top + 1))
  <2>1. results # MultRet BY <1>3 DEF MultRet
  <2> QED BY <1>5, <1>6, <2>1
<1>8. ASSUME r.ret = 0 PROVE Reaches(s, done, s.top, s.top)
  <2>0. s.top + results - results = s.top /\ s.base <= s.top + results - results /\ s.top + results \in Int
    BY <1>3, <1>00
  <2>1. Reaches(s, r, s.top, s.top + results) BY <1>7, <1>8
  <2>2. Reaches(s, pop(r, results), s.top, s.top + results - results)
    <3> DEFINE u == s.top + results
    <3>1. u \in Int /\ Reaches(s, r, s.top, u) /\ s.base <= u - results BY <1>00, <1>3, <2>0, <2>1
    <3> HIDE DEF u
    <3>2. Reaches(s, pop(r, results), s.top, u - results) BY <1>00, <1>3, <3>1, PopReaches DEF pop
    <3> QED BY <1>00, <1>3, <3>2 DEF u
  <2> QED BY <2>0, <2>2, AnswerReaches DEF done
<1>9. ASSUME r.ret # 0 PROVE Reaches(s, thrown, s.top, s.top)
  <2>1. Reaches(s, r, s.top, s.top + 1) BY <1>7, <1>9
  <2>2. s.top <= s.top + 1 - 1 /\ s.base <= s.top + 1 - 1 BY Room
  <2>3. Reaches(s, thrown, s.top, s.top + 1 - 1) BY <2>1, <2>2, Room, HandleThrowsReaches DEF thrown
  <2> QED BY <2>3, Room
<1> QED BY <1>1, <1>2, <1>8, <1>9, Failed DEF q

LEMMA PlaceAfter ==
    ASSUME NEW a \in Int, NEW m \in Nat, NEW n \in Nat, n <= m, NEW k \in 1..n, a + 4 + m <= Cap
    PROVE  a + 1 + (k - 1) + 2 <= Cap /\ a + 1 + (k - 1) = a + k
<1>1. Cap \in Nat /\ k \in Int /\ k <= m BY CapNat
<1> QED BY <1>1

LEMMA CallFunctionKeeps ==
    ASSUME NEW s, IsState(s), s.err = NoError, s.top + 4 + MaxArgs <= Cap, NEW name, NEW results \in 0..2,
           NEW n \in 0..MaxArgs, NEW args \in Seq(JavaValues), Len(args) = n
    PROVE  Reaches(s, callFunctionEx(s, name, results, args), s.top, s.top + FirstRefused(args))
<1>00. s.top \in Int /\ s.base \in Int /\ s.base <= s.top /\ n \in Nat /\ n <= MaxArgs BY Room, CapNat
<1>1. CASE FirstRefused(args) = 0
  <2>1. s.top + 0 = s.top BY <1>00
  <2> QED BY <1>1, <2>1, CallAccepted
<1>2. CASE FirstRefused(args) # 0
  <2> DEFINE k == FirstRefused(args)
             before == SubSeq(args, 1, k - 1)
             g == getGlobal(s, name)
             q == callFunctionEx(s, name, results, args)
  <2>1. /\ k \in 1..n /\ k - 1 \in Nat /\ Len(before) = k - 1
        /\ \A i \in 1..k - 1 : before[i][1] \in Classes /\ ~Refuses(before[i])
    BY <1>00, <1>2, ArgumentsAre
  <2>2. (q = g /\ g.err # NoError) \/ q = Throw(PushAll(g, before), "LuaException")
    BY <1>2, Zenon DEF callFunctionEx, Then
  <2>3. Reaches(s, s, s.top, s.top) BY Starting
  <2>4. Reaches(s, g, s.top, s.top + 1) BY <2>3, Room, GetglobalReaches
  <2> HIDE DEF g, q, before, k
  <2>5. /\ s.top + 1 + (k - 1) + 2 <= Cap /\ s.top + 1 + (k - 1) = s.top + k /\ s.top + 1 \in Int
        /\ s.top <= s.top + 1 /\ s.base <= s.top + 1
    <3>1. MaxArgs \in Nat /\ k \in 1..n BY <2>1, CapNat
    <3>2. s.top + 1 + (k - 1) + 2 <= Cap /\ s.top + 1 + (k - 1) = s.top + k BY <1>00, <3>1, PlaceAfter
    <3> QED BY <1>00, <3>2
  <2>6. Reaches(s, PushAll(g, before), s.top, s.top + 1 + (k - 1))
    BY <1>00, <2>1, <2>4, <2>5, PushAllReaches
  <2>7. Reaches(s, Throw(PushAll(g, before), "LuaException"), s.top, s.top + k)
    BY <2>5, <2>6, ThrowReaches
  <2> QED BY <2>2, <2>4, <2>7, Failed DEF q, k
<1> QED BY <1>1, <1>2

\* What doString and doFile do with the outcome of the chunk.
Ended(r) == IF r.ret # 0 THEN handleThrows(r) ELSE Answer(r, Null)

\* What a chunk leaves, when s is what it started from.
Added(s, r) == /\ \E n \in Nat : Reaches(s, r, s.top, s.top + n)
               /\ r.obj = Exception => Reaches(s, r, s.top, s.top)

\* A chunk adds its results, or nothing if it fails.
LEMMA ScriptAdds ==
    ASSUME NEW s, NEW r, s.top \in Int, s.top + 1 <= Cap, s.base \in Int, s.base <= s.top, Ran(s, r, s.top, s.top)
    PROVE  Added(s, Ended(r))
<1> DEFINE t == s.top
<1> HIDE DEF t
<1>0. t \in Int /\ t + 1 <= Cap /\ s.base \in Int /\ s.base <= t /\ Ran(s, r, t, t) BY DEF t
<1>1. CASE r.ret = 0
  <2>1. PICK n \in Nat : Reaches(s, r, t, t + n) BY <1>0, <1>1 DEF Ran
  <2>2. Reaches(s, Answer(r, Null), t, t + n) /\ Answer(r, Null).obj = Null BY <2>1, AnswerReaches
  <2>3. Null # Exception BY DEF Null, Exception
  <2> QED BY <1>1, <2>2, <2>3 DEF Ended, Added, t
<1>2. CASE r.ret # 0
  <2>1. Reaches(s, r, t, t + 1) BY <1>0, <1>2 DEF Ran
  <2>2. t <= t + 1 - 1 /\ s.base <= t + 1 - 1 /\ t + 1 \in Int /\ t + 1 - 1 = t /\ t + 0 = t BY <1>0
  <2>3. Reaches(s, handleThrows(r), t, t + 1 - 1) BY <1>0, <2>1, <2>2, HandleThrowsReaches
  <2>4. Ended(r) = handleThrows(r) BY <1>2 DEF Ended
  <2> QED BY <2>2, <2>3, <2>4 DEF Added, t
<1> QED BY <1>1, <1>2

----------------------------------------------------------------------------
(* One native: what comes after it is a state, with the strings released *)

\* r is a state, and without an error it holds no more strings than s.
Kept(s, r) == IsState(r) /\ (r.err = NoError => r.pins = s.pins)

LEMMA ReachedKept == ASSUME NEW s, NEW r, NEW h \in Int, NEW t \in Int, Reaches(s, r, h, t) PROVE Kept(s, r)
BY DEF Reaches, Kept

\* What a native finds.
LEMMA Found ==
    ASSUME NEW s, IsState(s), s.err = NoError
    PROVE  /\ Reaches(s, s, 1, s.top) /\ 1 \in Int
           /\ s.base \in Nat /\ s.base >= 1 /\ s.base \in Int /\ s.top \in Nat /\ s.top \in Int
           /\ s.base <= s.top /\ 1 <= s.top /\ s.top <= Cap + 1
           /\ s.citop <= Cap + 1 /\ s.citop \in Int /\ Cap \in Nat
<1>1. /\ s.base \in Nat \ {0} /\ s.top \in Nat /\ s.base <= s.top /\ s.top <= Cap + 1
      /\ s.citop \in Nat /\ s.citop <= Cap + 1
  BY Bounds DEF IsState
<1> QED BY <1>1, Starting, CapNat

\* ... when it has pinned a string, and is rid of it.
LEMMA FoundPinned ==
    ASSUME NEW s, IsState(s), s.err = NoError
    PROVE  LET g == GetStringUTFChars(s)
           IN  IsState(g) /\ g.err = NoError /\ g.base = s.base /\ g.top = s.top
<1>1. GetStringUTFChars(s).err = s.err BY DEF GetStringUTFChars, IsState, IsRecord, Fields
<1> QED BY <1>1, Pinned
LEMMA PinnedKept ==
    ASSUME NEW s, IsState(s), NEW r, NEW h \in Int, NEW t \in Int, Reaches(GetStringUTFChars(s), r, h, t)
    PROVE  Kept(s, Released(r))
BY PinnedReaches, ReachedKept

LEMMA SetTopKept ==
    ASSUME NEW s, IsState(s), s.err = NoError, NEW n \in Int, -lua_gettop(s) - 1 <= n, s.base + n <= Cap + 1
    PROVE  Kept(s, setTop(s, n))
<1>1. CASE n >= 0
  <2>1. Reaches(s, lua_settop(s, n), 1, s.base + n) BY <1>1, Found, SettopReaches
  <2> QED BY <2>1, Found, ReachedKept DEF setTop
<1>2. CASE n < 0
  <2> DEFINE k == -n - 1
  <2>1. k \in Nat /\ s.base <= s.top - k /\ -k - 1 = n /\ s.top - k \in Int
    BY <1>2, Found DEF lua_gettop
  <2>2. setTop(s, n) = lua_pop(s, k) BY <2>1 DEF setTop, lua_pop
  <2> HIDE DEF k
  <2>3. Reaches(s, lua_pop(s, k), 1, s.top - k) BY <2>1, Found, PopReaches
  <2> QED BY <2>1, <2>2, <2>3, ReachedKept
<1> QED BY <1>1, <1>2

\* i is the index of an element.
IsPosition(s, i) == i \in Int /\ i # 0 /\ -lua_gettop(s) <= i /\ i <= lua_gettop(s)
LEMMA PositionPlace ==
    ASSUME NEW s, IsState(s), s.err = NoError, NEW i, IsPosition(s, i)
    PROVE  /\ i \in Int /\ Place(s, i, s.top) \in Int /\ 1 <= Place(s, i, s.top)
           /\ Place(s, i, s.top) < s.top /\ Place(s, i, s.top) \notin 1..1 - 1
           /\ s.base <= s.top - 1 /\ ~IsPseudo(i)
<1>1. i \in Int /\ s.base \in Nat /\ s.base >= 1 /\ s.top \in Nat /\ s.base <= s.top /\ s.top <= Cap + 1
  BY Found DEF IsPosition
<1>2. i # 0 /\ -(s.top - s.base) <= i /\ i <= s.top - s.base BY DEF IsPosition, lua_gettop
<1>3. ~IsPseudo(i) BY <1>1, <1>2, StackAssumption DEF StackAssumption, IsPseudo, Registry
<1> QED BY <1>1, <1>2, <1>3 DEF Place

LEMMA RearrangeKept ==
    ASSUME NEW s, IsState(s), s.err = NoError, NEW i, IsPosition(s, i)
    PROVE  Kept(s, remove(s, i)) /\ (s.top <= Cap => Kept(s, insert(s, i))) /\ Kept(s, replace(s, i))
<1>0. 1 <= s.top - 1 /\ s.top - 1 \in Int /\ s.base <= s.top - 1 BY Found, PositionPlace
<1>1. Reaches(s, lua_remove(s, i), 1, s.top - 1) BY <1>0, Found, PositionPlace, RemoveReaches
<1>2. s.top <= Cap => Reaches(s, lua_insert(s, i), 1, s.top)
  BY <1>0, Found, PositionPlace, InsertReaches
<1>3. Reaches(s, lua_replace(s, i), 1, s.top - 1) BY <1>0, Found, PositionPlace, ReplaceReaches
<1> QED BY <1>0, <1>1, <1>2, <1>3, Found, ReachedKept DEF remove, insert, replace

LEMMA ReplaceGlobalsKept ==
    ASSUME NEW s, IsState(s), s.err = NoError, lua_gettop(s) >= 1
    PROVE  Kept(s, replace(s, Globals))
<1>0. 1 <= s.top - 1 /\ s.top - 1 \in Int /\ s.base <= s.top - 1 /\ Globals \in Int
  BY Found DEF lua_gettop, Globals
<1>3. Reaches(s, lua_replace(s, Globals), 1, s.top - 1) BY <1>0, Found, ReplaceReaches
<1> QED BY <1>0, <1>3, Found, ReachedKept DEF replace

\* One value more.
LEMMA PushKept ==
    ASSUME NEW s, IsState(s), s.err = NoError, s.top <= Cap
    PROVE  /\ \A v : Kept(s, Push(s, v))
           /\ \A i : Kept(s, pushValue(s, i)) /\ Kept(s, getMetaTable(s, i)) /\ Kept(s, rawGetI(s, i, 1))
           /\ \A text : Kept(s, pushBytes(s, text))
           /\ \A name : Kept(s, LgetMetatable(s, name))
<1>0. s.top + 1 \in Int BY Found
<1>1. ASSUME NEW v PROVE Kept(s, Push(s, v))
  <2>1. Reaches(s, Push(s, v), 1, s.top + 1) BY Found, PushReaches
  <2> QED BY <1>0, <2>1, Found, ReachedKept
<1>2. ASSUME NEW i PROVE Kept(s, pushValue(s, i)) /\ Kept(s, getMetaTable(s, i)) /\ Kept(s, rawGetI(s, i, 1))
  <2>1. Reaches(s, lua_pushvalue(s, i), 1, s.top + 1) BY Found, PushvalueReaches
  <2>2. Reaches(s, lua_getmetatable(s, i), 1, s.top) \/ Reaches(s, lua_getmetatable(s, i), 1, s.top + 1)
    BY Found, GetmetatableReaches
  <2>3. Reaches(s, lua_rawgeti(s, i, 1), 1, s.top + 1) BY Found, RawgetiReaches
  <2> QED BY <1>0, <2>1, <2>2, <2>3, Found, ReachedKept DEF pushValue, getMetaTable, rawGetI
<1>3. ASSUME NEW text PROVE Kept(s, pushBytes(s, text))
  <2>1. Reaches(s, pushBytes(s, text), 1, s.top + 1) BY Found, PushstringReaches
  <2> QED BY <1>0, <2>1, Found, ReachedKept
<1>4. ASSUME NEW name PROVE Kept(s, LgetMetatable(s, name))
  <2> DEFINE g == GetStringUTFChars(s)
  <2>1. IsState(g) /\ g.err = NoError /\ g.base = s.base /\ g.top = s.top BY FoundPinned
  <2> HIDE DEF g
  <2>2. Reaches(g, lua_getfield(g, Registry, name), 1, g.top + 1) BY <2>1, Found, GetfieldReaches
  <2> QED BY <1>0, <2>1, <2>2, Found, PinnedKept DEF LgetMetatable, g
<1> QED BY <1>1, <1>2, <1>3, <1>4

LEMMA PushObjectKept ==
    ASSUME NEW s, IsState(s), s.err = NoError, s.top + 4 <= Cap, NEW o \in JavaValues
    PROVE  Kept(s, Escaped(Answer(pushObjectValue(s, o), Null)))
<1>0. s.top + 1 \in Int /\ s.top <= Cap /\ s.top + 3 <= Cap /\ o[1] \in Classes
  BY Found, ValuesAssumption DEF ValuesAssumption
<1>1. Reaches(s, pushObjectValue(s, o), 1, s.top) \/ Reaches(s, pushObjectValue(s, o), 1, s.top + 1)
  BY <1>0, Found, PushObjectReaches, RefusedReaches
<1>2. \A t : Reaches(s, pushObjectValue(s, o), 1, t) => Reaches(s, Escaped(Answer(pushObjectValue(s, o), Null)), 1, t)
  BY AnswerReaches, EscapedReaches
<1> QED BY <1>0, <1>1, <1>2, Found, ReachedKept

LEMMA ErrorKept ==
    ASSUME NEW s, IsState(s), s.err = NoError
    PROVE  Kept(s, error(s)) /\ Kept(s, Ltyperror(s)) /\ Kept(s, LargError(s))
<1> DEFINE g == GetStringUTFChars(s)
<1>1. IsState(g) BY FoundPinned
<1> HIDE DEF g
<1>2. IsRecord(g) /\ g.pins \in Int /\ IsRecord(s) /\ s.pins \in Int BY <1>1 DEF IsState
<1>3. Reaches(s, lua_error(s), 1, 1) BY <1>2, ErrorReaches
<1>4. Reaches(g, luaL_typerror(g), 1, 1) /\ Reaches(g, luaL_error(g), 1, 1) BY <1>2, ErrorReaches
<1> QED
  BY <1>3, <1>4, Found, ReachedKept, PinnedKept DEF error, Ltyperror, LargError, luaL_argerror, g

LEMMA GsubKept ==
    ASSUME NEW s, IsState(s), s.err = NoError, s.top <= Cap, NEW text, NEW p, NEW x
    PROVE  Kept(s, Lgsub(s, text, p, x))
<1> DEFINE a == GetStringUTFChars(s)
           b == GetStringUTFChars(a)
           c == GetStringUTFChars(b)
<1>1. IsState(a) /\ a.err = NoError /\ a.top = s.top BY FoundPinned
<1> HIDE DEF a
<1>2. IsState(b) /\ b.err = NoError /\ b.top = s.top BY <1>1, FoundPinned
<1> HIDE DEF b
<1>3. IsState(c) /\ c.err = NoError /\ c.top = s.top BY <1>2, FoundPinned
<1> HIDE DEF c
<1>4. Reaches(c, luaL_gsub(c, text, p, x), 1, c.top + 1) BY <1>3, Found, PushReaches DEF luaL_gsub
<1>5. c.top + 1 \in Int BY <1>3, Found
<1>6. Reaches(b, Released(luaL_gsub(c, text, p, x)), 1, c.top + 1)
  BY <1>2, <1>4, PinnedReaches DEF c
<1>7. Reaches(a, Released(Released(luaL_gsub(c, text, p, x))), 1, c.top + 1)
  BY <1>1, <1>6, PinnedReaches DEF b
<1>8. Lgsub(s, text, p, x) = Released(Released(Released(luaL_gsub(c, text, p, x))))
  BY DEF Lgsub, a, b, c
<1> QED BY <1>5, <1>7, <1>8, Found, PinnedKept DEF a

LEMMA ConvertKept ==
    ASSUME NEW s, IsState(s), s.err = NoError, NEW i, IsPosition(s, i), NEW x
    PROVE  /\ Kept(s, toString(s, i)) /\ Kept(s, toByteArray(s, i)) /\ Kept(s, objlen(s, i))
           /\ Kept(s, LcheckString(s, i)) /\ Kept(s, LoptString(s, i, x))
<1>1. Reaches(s, lua_tolstring(s, i), 1, s.top) /\ Reaches(s, lua_objlen(s, i), 1, s.top)
  BY Found, PositionPlace, TolstringReaches, ObjlenReaches
<1>2. Reaches(s, luaL_checklstring(s, i), 1, s.top) BY Found, PositionPlace, CheckReaches
<1>3. Kept(s, LoptString(s, i, x))
  <2> DEFINE g == GetStringUTFChars(s)
  <2>1. IsState(g) /\ g.err = NoError /\ g.base = s.base /\ g.top = s.top BY FoundPinned
  <2> HIDE DEF g
  <2>2. IsPosition(g, i) BY <2>1 DEF IsPosition, lua_gettop
  <2>3. Reaches(g, luaL_optlstring(g, i, x), 1, g.top)
    BY <2>1, <2>2, Found, PositionPlace, CheckReaches
  <2> QED BY <2>1, <2>3, Found, PinnedKept DEF LoptString, g
<1>4. Kept(s, toByteArray(s, i))
  <2>1. toByteArray(s, i) = Raise(s, <<"crash">>) \/ toByteArray(s, i) = Return(lua_tolstring(s, i), lua_tolstring(s, i).ret)
    BY Zenon DEF toByteArray
  <2>2. Reaches(s, Raise(s, <<"crash">>), 1, s.top) BY RaiseReaches DEF IsState
  <2>3. Reaches(s, toByteArray(s, i), 1, s.top) BY <1>1, <2>1, <2>2, ReturnReaches
  <2> QED BY <2>3, Found, ReachedKept
<1>5. Kept(s, toString(s, i))
  <2>1. \E v : toString(s, i) = lua_tolstring(s, i) \/ toString(s, i) = Return(lua_tolstring(s, i), v)
    BY Zenon DEF toString, Then
  <2>2. Reaches(s, toString(s, i), 1, s.top) BY <1>1, <2>1, ReturnReaches
  <2> QED BY <2>2, Found, ReachedKept
<1> QED BY <1>1, <1>2, <1>3, <1>4, <1>5, Found, ReachedKept DEF objlen, LcheckString

LEMMA GetKept ==
    ASSUME NEW s, IsState(s), s.err = NoError, NEW i, lua_gettop(s) >= 1
    PROVE  /\ Kept(s, getTable(s, i)) /\ Kept(s, rawGet(s, i))
           /\ s.top <= Cap => Kept(s, next(s, i))
<1>0. 1 <= s.top - 1 /\ s.base <= s.top - 1 /\ s.top - 1 \in Int /\ s.top + 1 \in Int
  BY Found DEF lua_gettop
<1>1. Reaches(s, lua_gettable(s, i), 1, s.top) BY <1>0, Found, GettableReaches
<1>2. Reaches(s, lua_rawget(s, i), 1, s.top) BY <1>0, Found, RawgetReaches
<1>3. s.top <= Cap => Reaches(s, lua_next(s, i), 1, s.top - 1) \/ Reaches(s, lua_next(s, i), 1, s.top + 1)
  BY <1>0, Found, NextReaches
<1> QED BY <1>0, <1>1, <1>2, <1>3, Found, ReachedKept DEF getTable, rawGet, next

LEMMA GetFieldKept ==
    ASSUME NEW s, IsState(s), s.err = NoError, NEW i, NEW name, s.top + 3 <= Cap
    PROVE  Kept(s, getField(s, i, name)) /\ Kept(s, LgetMetaField(s, i, name)) /\ Kept(s, LcallMeta(s, i, name))
<1>0. s.top <= Cap /\ s.top + 1 \in Int /\ s.top < Cap BY Found
<1> DEFINE g == GetStringUTFChars(s)
<1>1. IsState(g) /\ g.err = NoError /\ g.base = s.base /\ g.top = s.top BY FoundPinned
<1> HIDE DEF g
<1>2. Reaches(g, lua_getfield(g, i, name), 1, g.top + 1) BY <1>0, <1>1, Found, GetfieldReaches
<1>3. Reaches(g, luaL_getmetafield(g, i, name), 1, g.top) \/ Reaches(g, luaL_getmetafield(g, i, name), 1, g.top + 1)
  BY <1>0, <1>1, Found, GetmetafieldReaches
<1>4. Reaches(g, luaL_callmeta(g, i, name), 1, g.top) \/ Reaches(g, luaL_callmeta(g, i, name), 1, g.top + 1)
  BY <1>0, <1>1, Found, CallmetaReaches
<1> QED BY <1>0, <1>1, <1>2, <1>3, <1>4, Found, PinnedKept DEF getField, LgetMetaField, LcallMeta, g

LEMMA SetKept ==
    ASSUME NEW s, IsState(s), s.err = NoError, NEW i
    PROVE  /\ lua_gettop(s) >= 2 => Kept(s, setTable(s, i)) /\ Kept(s, rawSet(s, i))
           /\ lua_gettop(s) >= 1 => Kept(s, rawSetI(s, i, 1)) /\ Kept(s, setMetaTable(s, i)) /\ \A name : Kept(s, setField(s, i, name))
<1>1. ASSUME lua_gettop(s) >= 2 PROVE Kept(s, setTable(s, i)) /\ Kept(s, rawSet(s, i))
  <2>1. s.base <= s.top - 2 /\ s.top - 2 \in Int BY <1>1, Found DEF lua_gettop
  <2>2. Reaches(s, lua_settable(s, i), 1, s.top - 2) /\ Reaches(s, lua_rawset(s, i), 1, s.top - 2)
    BY <2>1, Found, SetReaches
  <2> QED BY <2>1, <2>2, Found, ReachedKept DEF setTable, rawSet
<1>2. ASSUME lua_gettop(s) >= 1
      PROVE  Kept(s, rawSetI(s, i, 1)) /\ Kept(s, setMetaTable(s, i)) /\ \A name : Kept(s, setField(s, i, name))
  <2>1. s.base <= s.top - 1 /\ s.top - 1 \in Int BY <1>2, Found DEF lua_gettop
  <2>2. Reaches(s, lua_rawseti(s, i, 1), 1, s.top - 1) BY <2>1, Found, SetReaches
  <2>3. Reaches(s, lua_setmetatable(s, i), 1, s.top - 1) BY <2>1, Found, SetmetatableReaches
  <2>4. ASSUME NEW name PROVE Kept(s, setField(s, i, name))
    <3> DEFINE g == GetStringUTFChars(s)
    <3>1. IsState(g) /\ g.err = NoError /\ g.base = s.base /\ g.top = s.top BY FoundPinned
    <3> HIDE DEF g
    <3>2. Reaches(g, lua_setfield(g, i, name), 1, g.top - 1) BY <2>1, <3>1, Found, SetfieldReaches
    <3> QED BY <2>1, <3>1, <3>2, Found, PinnedKept DEF setField, g
  <2> QED BY <2>1, <2>2, <2>3, <2>4, Found, ReachedKept DEF rawSetI, setMetaTable
<1> QED BY <1>1, <1>2

LEMMA ConcatKept ==
    ASSUME NEW s, IsState(s), s.err = NoError, NEW n \in Nat, n <= lua_gettop(s), n = 0 => s.top <= Cap
    PROVE  Kept(s, concat(s, n))
<1>0. 1 <= s.top - n /\ s.base <= s.top - n /\ s.top - n + 1 \in Int BY Found DEF lua_gettop
<1>1. Reaches(s, lua_concat(s, n), 1, s.top - n + 1) BY <1>0, Found, ConcatReaches
<1> QED BY <1>0, <1>1, Found, ReachedKept DEF concat

LEMMA MetaTablesKept ==
    ASSUME NEW s, IsState(s), s.err = NoError, NEW name, NEW i, s.top + 4 <= Cap
    PROVE  Kept(s, LnewMetatable(s, name)) /\ Kept(s, LfindTable(s, i, <<name>>))
<1>0. s.top < Cap /\ s.top + 3 <= Cap /\ s.top + 1 \in Int BY Found
<1> DEFINE g == GetStringUTFChars(s)
<1>1. IsState(g) /\ g.err = NoError /\ g.base = s.base /\ g.top = s.top BY FoundPinned
<1> HIDE DEF g
<1>2. Reaches(g, luaL_newmetatable(g, name), 1, g.top + 1) BY <1>0, <1>1, Found, NewmetatableReaches
<1>3. Reaches(g, luaL_findtable(g, i, <<name>>), 1, g.top + 1) \/ Reaches(g, luaL_findtable(g, i, <<name>>), 1, g.top)
  BY <1>0, <1>1, Found, FindtableReaches
<1> QED BY <1>0, <1>1, <1>2, <1>3, Found, PinnedKept DEF LnewMetatable, LfindTable, g

LEMMA CallKept ==
    ASSUME NEW s, IsState(s), s.err = NoError, NEW nargs \in Nat, nargs <= lua_gettop(s) - 1, NEW nresults \in -1..2, NEW e,
           nresults = MultRet \/ s.top - (nargs + 1) + nresults <= Cap + 1
    PROVE  Kept(s, call(s, nargs, nresults)) /\ Kept(s, pcall(s, nargs, nresults, e))
<1> DEFINE u == s.top - (nargs + 1)
<1>0. /\ 1 <= u /\ s.base <= u /\ u \in Int /\ nresults \in Nat \cup {MultRet} /\ (nresults # MultRet => u + nresults <= Cap + 1)
  BY Found DEF lua_gettop, MultRet
<1>1. \E n \in Nat : (nresults # MultRet => n = nresults) /\ Reaches(s, lua_call(s, nargs, nresults), 1, s.top - (nargs + 1) + n)
  <2>1. /\ Reaches(s, s, 1, s.top) /\ 1 \in Int /\ s.top \in Int /\ s.top <= Cap + 1
        /\ 1 <= s.top - (nargs + 1) /\ s.base <= s.top - (nargs + 1)
        /\ (nresults # MultRet => s.top - (nargs + 1) + nresults <= Cap + 1) /\ nresults \in Nat \cup {MultRet}
    BY <1>0, Found
  <2>2. Yields(s, lua_call(s, nargs, nresults), 1, s.top - (nargs + 1), nresults)
    BY <2>1, CallReaches
  <2> QED BY <2>2 DEF Yields
<1>2. LET q == lua_pcall(s, nargs, nresults, e)
      IN  \/ q.ret = 0 /\ \E n \in Nat : (nresults # MultRet => n = nresults) /\ Reaches(s, q, 1, s.top - (nargs + 1) + n)
          \/ q.ret # 0 /\ Reaches(s, q, 1, s.top - (nargs + 1) + 1)
  BY <1>0, Found, PcallReaches
<1>3. \A n \in Nat : s.top - (nargs + 1) + n \in Int BY <1>0
<1>4. Kept(s, lua_call(s, nargs, nresults)) BY <1>1, <1>3, Found, ReachedKept
<1>5. Kept(s, lua_pcall(s, nargs, nresults, e)) BY <1>2, <1>3, Found, ReachedKept
<1> QED BY <1>4, <1>5 DEF call, pcall

LEMMA LoadKept ==
    ASSUME NEW s, IsState(s), s.err = NoError, NEW chunk, NEW fate, s.top + 2 <= Cap
    PROVE  Kept(s, LloadString(s, chunk)) /\ Kept(s, LloadBuffer(s, chunk)) /\ Kept(s, LloadFile(s, chunk, fate))
<1>0. s.top <= Cap /\ s.top + 1 <= Cap /\ s.top + 1 \in Int BY Found
<1> DEFINE g == GetStringUTFChars(s)
           b == GetStringUTFChars(g)
<1>1. IsState(g) /\ g.err = NoError /\ g.base = s.base /\ g.top = s.top BY FoundPinned
<1> HIDE DEF g
<1>2. IsState(b) /\ b.err = NoError /\ b.base = s.base /\ b.top = s.top BY <1>1, FoundPinned
<1> HIDE DEF b
<1>3. Reaches(g, lua_load(g, chunk), 1, g.top + 1) /\ Reaches(b, lua_load(b, chunk), 1, b.top + 1)
  BY <1>0, <1>1, <1>2, Found, LoadReaches
<1>4. Reaches(g, luaL_loadfile(g, chunk, fate), 1, g.top + 1) BY <1>0, <1>1, Found, LoadfileReaches
<1>5. Reaches(g, Released(lua_load(b, chunk)), 1, b.top + 1) BY <1>1, <1>3, PinnedReaches DEF b
<1>6. LloadBuffer(s, chunk) = Released(Released(lua_load(b, chunk)))
  BY DEF LloadBuffer, luaL_loadbuffer, b, g
<1> QED
  BY <1>0, <1>1, <1>2, <1>3, <1>4, <1>5, <1>6, Found, PinnedKept DEF LloadString, LloadFile, luaL_loadstring, luaL_loadbuffer, g

----------------------------------------------------------------------------
(* The steps: each action of Next is one native, or one method *)

\* The inductive invariant: a stack within its bounds, or an error.
Inv == IsState(st)
\* What the facade does, as against one native.
Quiet == {"getGlobal", "registerGlobal", "getGlobalTableField", "createTable", "getFieldOf", "setTableField", "callFunctionEx"}
Methods == Quiet \cup {"doString", "doFile"}
IsNative(native) == native[1] \notin Methods
Stepped == Kept(st, st') /\ IsNative(did')

LEMMA KeptAnswer ==
    ASSUME NEW s, NEW r, Kept(s, r), NEW x, NEW y
    PROVE  Kept(s, Answer(Return(r, x), y)) /\ Kept(s, Return(r, x)) /\ Kept(s, Answer(r, y))
<1>1. Reaches(r, r, 1, r.top) BY Starting DEF Kept
<1>2. /\ Reaches(r, Answer(Return(r, x), y), 1, r.top) /\ Reaches(r, Return(r, x), 1, r.top)
      /\ Reaches(r, Answer(r, y), 1, r.top)
      /\ Answer(Return(r, x), y).err = r.err /\ Return(r, x).err = r.err /\ Answer(r, y).err = r.err
  BY <1>1, ReturnReaches, AnswerReaches
<1> QED BY <1>2 DEF Reaches, Kept

LEMMA CallsStepped ==
    ASSUME NEW r, Kept(st, r), NEW native, IsNative(native), Calls(native, r)
    PROVE  Stepped
BY KeptAnswer DEF Calls, Stepped

LEMMA PositionsAre == \A i \in Positions : IsPosition(st, i)
BY DEF Positions, IsPosition, lua_gettop

LEMMA RoomFor ==
    ASSUME Inv, st.err = NoError, NEW n \in Nat, Fits(st, n)
    PROVE  st.top + n <= Cap /\ st.top <= Cap
<1>1. st.top \in Nat BY Found DEF Inv
<1> QED BY <1>1, CapNat DEF Fits

LEMMA RearrangeStep ==
    ASSUME Inv, st.err = NoError, Rearrange
    PROVE  Stepped
<1>0. IsState(st) /\ st.base \in Int /\ st.top \in Int BY Found DEF Inv
<1>1. ASSUME NEW n \in (-lua_gettop(st) - 1)..(Cap - st.base), Calls(<<"setTop", n>>, setTop(st, n))
      PROVE Stepped
  <2>1. n \in Int /\ -lua_gettop(st) - 1 <= n /\ st.base + n <= Cap + 1
    BY <1>0, CapNat DEF lua_gettop
  <2>2. Kept(st, setTop(st, n)) BY <1>0, <2>1, SetTopKept
  <2> QED BY <1>1, <2>2, CallsStepped DEF IsNative, Methods, Quiet
<1>2. ASSUME NEW i \in Positions,
             \/ Calls(<<"remove", i>>, remove(st, i))
             \/ st.top <= Cap /\ Calls(<<"insert", i>>, insert(st, i))
             \/ Calls(<<"replace", i>>, replace(st, i))
      PROVE  Stepped
  <2>1. Kept(st, remove(st, i)) /\ (st.top <= Cap => Kept(st, insert(st, i))) /\ Kept(st, replace(st, i))
    BY <1>0, PositionsAre, RearrangeKept
  <2> QED BY <1>2, <2>1, CallsStepped DEF IsNative, Methods, Quiet
<1>3. ASSUME Has(1), Calls(<<"replace", Globals>>, replace(st, Globals)) PROVE Stepped
  <2>1. Kept(st, replace(st, Globals)) BY <1>0, <1>3, ReplaceGlobalsKept DEF Has
  <2> QED BY <1>3, <2>1, CallsStepped DEF IsNative, Methods, Quiet
<1>4. ASSUME Fits(st, 1), NEW i, Calls(<<"pushValue", i>>, pushValue(st, i)) PROVE Stepped
  <2>1. Kept(st, pushValue(st, i)) BY <1>0, <1>4, RoomFor, PushKept
  <2> QED BY <1>4, <2>1, CallsStepped DEF IsNative, Methods, Quiet
<1> QED BY <1>1, <1>2, <1>3, <1>4, Zenon DEF Rearrange

LEMMA XmoveStep ==
    ASSUME Inv, st.err = NoError, Xmove
    PROVE  Stepped
<1>0. IsState(st) BY DEF Inv
<1>1. PICK n \in 1..Cap : n <= lua_gettop(st) /\ st' = Answer(Shrink(st, n), Null) /\ did' = <<"xmove", n>>
  BY DEF Xmove, lua_xmove
<1>2. n \in Int /\ 0 <= n /\ st.base <= st.top - n /\ st.top - n \in Int
  BY <1>0, <1>1, Found, CapNat DEF lua_gettop
<1>3. Reaches(st, Shrink(st, n), 1, st.top - n) BY <1>0, <1>2, Found, ShrinkReaches
<1>4. Kept(st, Shrink(st, n)) BY <1>0, <1>2, <1>3, Found, ReachedKept
<1> QED BY <1>1, <1>4, KeptAnswer DEF Stepped, IsNative, Methods, Quiet

LEMMA PushValuesStep ==
    ASSUME Inv, st.err = NoError, PushValues
    PROVE  Stepped
<1>0. IsState(st) BY DEF Inv
<1>1. ASSUME Fits(st, 1) PROVE Kept(st, pushInteger(st, 1)) /\ Kept(st, pushBytes(st, <<"a">>))
  BY <1>0, <1>1, RoomFor, PushKept DEF pushInteger
<1>2. ASSUME Fits(st, 4), NEW o \in JavaValues, Tries(<<"pushObjectValue", o>>, Answer(pushObjectValue(st, o), Null))
      PROVE Stepped
  <2>1. Kept(st, Escaped(Answer(pushObjectValue(st, o), Null)))
    BY <1>0, <1>2, RoomFor, PushObjectKept
  <2>2. IsNative(<<"pushObjectValue", o>>) BY DEF IsNative, Methods, Quiet
  <2> QED BY <1>2, <2>1, <2>2, KeptAnswer DEF Tries, Does, Stepped
<1>4. IsNative(<<"pushInteger">>) /\ IsNative(<<"pushBytes">>) BY DEF IsNative, Methods, Quiet
<1> QED BY <1>1, <1>2, <1>4, CallsStepped, Zenon DEF PushValues

LEMMA AuxiliaryStep ==
    ASSUME Inv, st.err = NoError, Auxiliary
    PROVE  Stepped
<1>0. IsState(st) BY DEF Inv
<1>1. ASSUME Fits(st, 2)
      PROVE  Kept(st, Lwhere(st)) /\ \A a : Kept(st, LgetMetatable(st, a)) /\ \A text, x : Kept(st, Lgsub(st, text, a, x))
  <2>1. st.top <= Cap BY <1>1, RoomFor
  <2>2. Kept(st, Lwhere(st)) BY <1>0, <2>1, PushKept DEF Lwhere, luaL_where
  <2>3. ASSUME NEW a PROVE Kept(st, LgetMetatable(st, a)) /\ \A text, x : Kept(st, Lgsub(st, text, a, x))
    BY <1>0, <2>1, PushKept, GsubKept
  <2> QED BY <2>2, <2>3
<1>2. Kept(st, Ltyperror(st)) /\ Kept(st, LargError(st)) /\ Kept(st, error(st)) BY <1>0, ErrorKept
<1>3. ASSUME NEW i \in Positions PROVE Kept(st, LcheckString(st, i)) /\ Kept(st, LoptString(st, i, Name("a")))
  BY <1>0, PositionsAre, ConvertKept
<1>4. \A x : IsNative(<<"LgetMetatable", x>>) /\ IsNative(<<"Lgsub", x>>) /\ IsNative(<<"LcheckString", x>>) /\ IsNative(<<"LoptString", x>>)
  BY DEF IsNative, Methods, Quiet
<1>5. IsNative(<<"Lwhere">>) /\ IsNative(<<"Ltyperror">>) /\ IsNative(<<"LargError">>) /\ IsNative(<<"error">>)
  BY DEF IsNative, Methods, Quiet
<1> QED BY <1>1, <1>2, <1>3, <1>4, <1>5, CallsStepped, Zenon DEF Auxiliary

LEMMA ConvertStep ==
    ASSUME Inv, st.err = NoError, Convert
    PROVE  Stepped
<1>1. ASSUME NEW i \in Positions
      PROVE Kept(st, toString(st, i)) /\ Kept(st, toByteArray(st, i)) /\ Kept(st, objlen(st, i))
  BY PositionsAre, ConvertKept DEF Inv
<1>2. \A x : IsNative(<<"toString", x>>) /\ IsNative(<<"toByteArray", x>>) /\ IsNative(<<"objlen", x>>)
  BY DEF IsNative, Methods, Quiet
<1> QED BY <1>1, <1>2, CallsStepped, Zenon DEF Convert

LEMMA GetAccessStep ==
    ASSUME Inv, st.err = NoError, GetAccess
    PROVE  Stepped
<1>0. IsState(st) BY DEF Inv
<1>1. ASSUME Has(1), NEW i
      PROVE Kept(st, getTable(st, i)) /\ Kept(st, rawGet(st, i)) /\ (Fits(st, 1) => Kept(st, next(st, i)))
  BY <1>0, <1>1, RoomFor, GetKept DEF Has
<1>2. ASSUME Fits(st, 1), NEW i PROVE Kept(st, getMetaTable(st, i)) /\ Kept(st, rawGetI(st, i, 1))
  BY <1>0, <1>2, RoomFor, PushKept
<1>3. ASSUME Fits(st, 3), NEW i, NEW a
      PROVE Kept(st, getField(st, i, a)) /\ Kept(st, LgetMetaField(st, i, a)) /\ Kept(st, LcallMeta(st, i, a))
  BY <1>0, <1>3, RoomFor, GetFieldKept
<1>4. \A x : IsNative(<<"getTable", x>>) /\ IsNative(<<"rawGet", x>>) /\ IsNative(<<"next", x>>) /\ IsNative(<<"getMetaTable", x>>) /\ IsNative(<<"rawGetI", x>>)
  BY DEF IsNative, Methods, Quiet
<1>5. \A x, y : IsNative(<<"getField", x, y>>) /\ IsNative(<<"LgetMetaField", x, y>>) /\ IsNative(<<"LcallMeta", x, y>>)
  BY DEF IsNative, Methods, Quiet
<1> QED BY <1>1, <1>2, <1>3, <1>4, <1>5, CallsStepped, Zenon DEF GetAccess

LEMMA SetAccessStep ==
    ASSUME Inv, st.err = NoError, SetAccess
    PROVE  Stepped
<1>0. IsState(st) BY DEF Inv
<1>1. ASSUME Has(2), NEW i PROVE Kept(st, setTable(st, i)) /\ Kept(st, rawSet(st, i))
  BY <1>0, <1>1, SetKept DEF Has
<1>2. ASSUME Has(1), NEW i
      PROVE Kept(st, rawSetI(st, i, 1)) /\ Kept(st, setMetaTable(st, i)) /\ \A a : Kept(st, setField(st, i, a))
  BY <1>0, <1>2, SetKept DEF Has
<1>3. \A x : IsNative(<<"setTable", x>>) /\ IsNative(<<"rawSet", x>>) /\ IsNative(<<"rawSetI", x>>) /\ IsNative(<<"setMetaTable", x>>)
  BY DEF IsNative, Methods, Quiet
<1>4. \A x, y : IsNative(<<"setField", x, y>>) BY DEF IsNative, Methods, Quiet
<1> QED BY <1>1, <1>2, <1>3, <1>4, CallsStepped, Zenon DEF SetAccess

LEMMA ConcatStep ==
    ASSUME Inv, st.err = NoError, Concat
    PROVE  Stepped
<1>0. IsState(st) /\ lua_gettop(st) \in Int BY Found DEF Inv, lua_gettop
<1>1. PICK n \in 0..lua_gettop(st) : (n = 0 => Fits(st, 1)) /\ Calls(<<"concat", n>>, concat(st, n))
  BY DEF Concat
<1>2. n \in Nat /\ n <= lua_gettop(st) /\ (n = 0 => st.top <= Cap) BY <1>0, <1>1, RoomFor
<1>3. Kept(st, concat(st, n)) BY <1>0, <1>2, ConcatKept
<1> QED BY <1>1, <1>3, CallsStepped DEF IsNative, Methods, Quiet

LEMMA MetaTablesStep ==
    ASSUME Inv, st.err = NoError, MetaTables
    PROVE  Stepped
<1>1. Fits(st, 4) BY DEF MetaTables
<1>2. ASSUME NEW a PROVE Kept(st, LnewMetatable(st, a)) /\ Kept(st, LfindTable(st, Globals, <<a>>))
  BY <1>1, RoomFor, MetaTablesKept DEF Inv
<1>3. \A x : IsNative(<<"LnewMetatable", x>>) /\ IsNative(<<"LfindTable", x>>)
  BY DEF IsNative, Methods, Quiet
<1> QED BY <1>2, <1>3, CallsStepped, Zenon DEF MetaTables

LEMMA CallStep ==
    ASSUME Inv, st.err = NoError, Call
    PROVE  Stepped
<1>0. IsState(st) /\ lua_gettop(st) \in Int BY Found DEF Inv, lua_gettop
<1>1. PICK nargs \in 0..(lua_gettop(st) - 1), nresults \in -1..2 :
        /\ nresults = MultRet \/ st.top - (nargs + 1) + nresults <= st.citop
        /\ \/ Calls(<<"call", nargs, nresults>>, call(st, nargs, nresults))
           \/ \E e \in {0, 1} : Calls(<<"pcall", nargs, nresults, e>>, pcall(st, nargs, nresults, e))
  BY DEF Call
<1>2. nargs \in Nat /\ nargs <= lua_gettop(st) - 1 /\ (nresults = MultRet \/ st.top - (nargs + 1) + nresults <= Cap + 1)
  BY <1>0, <1>1, Found
<1>3. ASSUME NEW e PROVE Kept(st, call(st, nargs, nresults)) /\ Kept(st, pcall(st, nargs, nresults, e))
  BY <1>0, <1>2, CallKept
<1>4. \A e : IsNative(<<"call", nargs, nresults>>) /\ IsNative(<<"pcall", nargs, nresults, e>>)
  BY DEF IsNative, Methods, Quiet
<1> QED BY <1>1, <1>3, <1>4, CallsStepped, Zenon

LEMMA LoadStep ==
    ASSUME Inv, st.err = NoError, Load
    PROVE  Stepped
<1>1. Fits(st, 2) BY DEF Load
<1>2. ASSUME NEW c, NEW f
      PROVE Kept(st, LloadString(st, c)) /\ Kept(st, LloadBuffer(st, c)) /\ Kept(st, LloadFile(st, c, f))
  BY <1>1, RoomFor, LoadKept DEF Inv
<1>3. \A c, f : IsNative(<<"LloadString", c>>) /\ IsNative(<<"LloadBuffer", c>>) /\ IsNative(<<"LloadFile", c, f>>)
  BY DEF IsNative, Methods, Quiet
<1> QED BY <1>2, <1>3, CallsStepped, Zenon DEF Load

\* A method of the facade ends where it began, or has left what was pushed
\* before a refused value.
Quietly == did'[1] \in Quiet /\ Left(did') \in Nat /\ Reaches(st, st', st.top, st.top + Left(did'))

LEMMA DoesQuietly ==
    ASSUME NEW r, NEW method, method[1] \in Quiet, Left(method) \in Nat,
           Reaches(st, r, st.top, st.top + Left(method)), Does(method, r) \/ Tries(method, r)
    PROVE  Quietly
<1>1. did' = method /\ (st' = Return(r, 0) \/ st' = Return(Escaped(r), 0)) BY DEF Does, Tries
<1>2. Reaches(st, Escaped(r), st.top, st.top + Left(method)) BY EscapedReaches
<1>3. Reaches(st, st', st.top, st.top + Left(method)) BY <1>1, <1>2, ReturnReaches
<1>4. Left(did') = Left(method) BY <1>1, Zenon DEF Left
<1> QED BY <1>1, <1>3, <1>4 DEF Quietly

\* Names that are none of those with a refused push.
LEMMA NoneLeft ==
    ASSUME NEW method, method[1] \in {"getGlobal", "registerGlobal", "createTable", "getFieldOf"}
    PROVE  Left(method) = 0
BY DEF Left

LEMMA FacadeStep ==
    ASSUME Inv, st.err = NoError, Facade
    PROVE  Quietly
<1>0. IsState(st) /\ st.top \in Nat /\ st.top \in Int /\ st.top + 0 = st.top BY Found DEF Inv
<1>1. st.top + 4 + MaxArgs <= Cap BY <1>0, CapNat DEF Facade, Fits
<1>2. ASSUME NEW o \in JavaValues PROVE o[1] \in Classes BY ValuesAssumption DEF ValuesAssumption
<1>3. ASSUME NEW a, Does(<<"getGlobal", a>>, getGlobal_(st, a)) PROVE Quietly
  <2> DEFINE d == <<"getGlobal", a>>
  <2>1. d[1] \in Quiet /\ Left(d) = 0 BY NoneLeft DEF Quiet
  <2>2. Reaches(st, getGlobal_(st, a), st.top, st.top) BY <1>0, <1>1, GetGlobalKeeps
  <2> HIDE DEF d
  <2> QED BY <1>0, <1>3, <2>1, <2>2, DoesQuietly DEF d
<1>4. ASSUME NEW a, NEW o \in JavaValues, Tries(<<"registerGlobal", a, o>>, registerGlobal(st, a, o)) PROVE Quietly
  <2> DEFINE d == <<"registerGlobal", a, o>>
  <2>1. d[1] \in Quiet /\ Left(d) = 0 BY NoneLeft DEF Quiet
  <2>2. Reaches(st, registerGlobal(st, a, o), st.top, st.top) BY <1>0, <1>1, <1>2, RegisterGlobalKeeps
  <2> HIDE DEF d
  <2> QED BY <1>0, <1>4, <2>1, <2>2, DoesQuietly DEF d
<1>5. ASSUME Does(<<"createTable">>, createTable(st)) PROVE Quietly
  <2> DEFINE d == <<"createTable">>
  <2>1. d[1] \in Quiet /\ Left(d) = 0 BY NoneLeft DEF Quiet
  <2>2. Reaches(st, createTable(st), st.top, st.top) BY <1>0, <1>1, CreateTableKeeps
  <2> HIDE DEF d
  <2> QED BY <1>0, <1>5, <2>1, <2>2, DoesQuietly DEF d
<1>6. ASSUME NEW v, NEW a, Does(<<"getFieldOf", v, a>>, getField_(st, v, Name(a))) PROVE Quietly
  <2> DEFINE d == <<"getFieldOf", v, a>>
  <2>1. d[1] \in Quiet /\ Left(d) = 0 BY NoneLeft DEF Quiet
  <2>2. Reaches(st, getField_(st, v, Name(a)), st.top, st.top) BY <1>0, <1>1, GetFieldKeeps
  <2> HIDE DEF d
  <2> QED BY <1>0, <1>6, <2>1, <2>2, DoesQuietly DEF d
<1>7. ASSUME NEW v, NEW k \in JavaValues, NEW o \in JavaValues,
             Tries(<<"setTableField", v, k, o>>, setTableField(st, v, k, o))
      PROVE  Quietly
  <2> DEFINE d == <<"setTableField", v, k, o>>
             left == IF Type(v) = "table" THEN FirstRefused(<<k, o>>) ELSE 0
  <2>1. d[1] \in Quiet BY DEF Quiet
  <2>2. Left(d) = left BY DEF Left
  <2>3. left \in Nat BY FirstOfTwo
  <2>4. Reaches(st, setTableField(st, v, k, o), st.top, st.top + left)
    BY <1>0, <1>1, <1>2, SetTableFieldKeeps
  <2> HIDE DEF d, left
  <2> QED BY <1>7, <2>1, <2>2, <2>3, <2>4, DoesQuietly DEF d
<1>8. ASSUME NEW a, NEW o \in JavaValues, Tries(<<"getGlobalTableField", a, o>>, getGlobalTableField(st, a, o))
      PROVE  Quietly
  <2> DEFINE d == <<"getGlobalTableField", a, o>>
             left == IF isTable(getGlobal(st, a), -1).ret = 1 THEN FirstRefused(<<o>>) ELSE 0
  <2>1. d[1] \in Quiet BY DEF Quiet
  <2>2. Left(d) = left BY Zenon DEF Left
  <2>3. left \in Nat BY FirstOfOne
  <2>4. Reaches(st, getGlobalTableField(st, a, o), st.top, st.top + left)
    BY <1>0, <1>1, <1>2, GetGlobalTableFieldKeeps
  <2> HIDE DEF d, left
  <2> QED BY <1>8, <2>1, <2>2, <2>3, <2>4, DoesQuietly DEF d
<1>9. ASSUME NEW a, NEW n \in 0..2, NEW args \in ArgLists, Tries(<<"callFunctionEx", a, n, args>>, callFunctionEx(st, a, n, args))
      PROVE  Quietly
  <2> DEFINE d == <<"callFunctionEx", a, n, args>>
             left == FirstRefused(args)
  <2>1. d[1] \in Quiet BY DEF Quiet
  <2>2. Left(d) = left BY DEF Left
  <2>3. PICK k \in 0..MaxArgs : args \in [1..k -> JavaValues] BY DEF ArgLists
  <2>4. k \in Nat BY <2>3, CapNat
  <2>5. args \in Seq(JavaValues) /\ Len(args) = k BY <2>3, <2>4
  <2>6. left \in Nat BY <2>4, <2>5, FirstIs
  <2>7. Reaches(st, callFunctionEx(st, a, n, args), st.top, st.top + left)
    BY <1>0, <1>1, <2>3, <2>5, CallFunctionKeeps
  <2> HIDE DEF d, left
  <2> QED BY <1>9, <2>1, <2>2, <2>6, <2>7, DoesQuietly DEF d
<1> QED BY <1>3, <1>4, <1>5, <1>6, <1>7, <1>8, <1>9, Zenon DEF Facade

\* Where no error can come from, none does.
Calm(s, r) == IsRecord(r) /\ r.err = s.err
LEMMA CalmOps ==
    ASSUME NEW s, NEW q, Calm(s, q)
    PROVE  /\ \A v : Calm(s, Push(q, v)) /\ Calm(s, Return(q, v)) /\ Calm(s, Answer(q, v))
           /\ \A i : Calm(s, lua_remove(q, i)) /\ Calm(s, lua_settop(q, i))
           /\ \A f, values, n : Calm(s, luaD_poscall(q, f, values, n))
<1>0. IsRecord(q) /\ q.err = s.err BY DEF Calm
<1>1. ASSUME NEW v PROVE Calm(s, Push(q, v)) BY <1>0 DEF Calm, IsRecord, Fields, Push
<1>2. ASSUME NEW v PROVE Calm(s, Return(q, v)) /\ Calm(s, Answer(q, v))
  BY <1>0 DEF Calm, IsRecord, Fields, Return, Answer
<1>3. ASSUME NEW i PROVE Calm(s, lua_remove(q, i)) BY <1>0 DEF Calm, IsRecord, Fields, lua_remove
<1>4. ASSUME NEW i PROVE Calm(s, lua_settop(q, i)) BY <1>0 DEF Calm, IsRecord, Fields, lua_settop
<1>5. ASSUME NEW f, NEW values, NEW n PROVE Calm(s, luaD_poscall(q, f, values, n))
  BY <1>0 DEF Calm, IsRecord, Fields, luaD_poscall
<1> QED BY <1>1, <1>2, <1>3, <1>4, <1>5

LEMMA CalmScripts ==
    ASSUME NEW s, NEW q, Calm(s, q), NEW chunk, NEW fate
    PROVE  Calm(s, luaL_dostring(q, chunk)) /\ Calm(s, luaL_dofile(q, chunk, fate)) /\ Calm(s, handleThrows(q))
<1>1. ASSUME NEW p, Calm(s, p) PROVE Calm(s, lua_load(p, chunk)) BY <1>1, CalmOps DEF lua_load
<1>2. ASSUME NEW p, Calm(s, p), NEW i PROVE Calm(s, errfile(p, i))
  <2>1. Calm(s, Push(p, Message)) BY <1>2, CalmOps
  <2>2. Calm(s, lua_remove(Push(p, Message), i)) BY <2>1, CalmOps
  <2> QED BY <2>2, CalmOps DEF errfile
<1>3. ASSUME NEW p, Calm(s, p) PROVE Calm(s, lua_pcall(p, 0, MultRet, 0))
  <2>1. \E f, values, n, x : lua_pcall(p, 0, MultRet, 0) = Return(luaD_poscall(p, f, values, n), x)
    BY Zenon DEF lua_pcall
  <2>2. PICK f, values, n, x : lua_pcall(p, 0, MultRet, 0) = Return(luaD_poscall(p, f, values, n), x)
    BY <2>1
  <2>3. Calm(s, luaD_poscall(p, f, values, n)) BY <1>3, CalmOps
  <2> QED BY <2>2, <2>3, CalmOps
<1>4. ASSUME NEW p, Calm(s, p) PROVE Calm(s, Run(p))
  <2>1. \E x : Run(p) = Return(p, x) \/ Run(p) = Return(lua_pcall(p, 0, MultRet, 0), x)
    BY DEF Run, Status
  <2> QED BY <1>3, <1>4, <2>1, CalmOps
<1>5. Calm(s, luaL_loadfile(q, chunk, fate))
  <2> DEFINE f == lua_gettop(q) + 1
             named == Push(q, Name("@file"))
             loaded == lua_load(named, chunk)
  <2>1. luaL_loadfile(q, chunk, fate) \in {errfile(named, f), errfile(lua_settop(loaded, f), f), lua_remove(loaded, f)}
    BY Zenon DEF luaL_loadfile
  <2>2. Calm(s, named) BY CalmOps
  <2> HIDE DEF named, f
  <2>3. Calm(s, loaded) BY <1>1, <2>2
  <2> HIDE DEF loaded
  <2>4. Calm(s, lua_settop(loaded, f)) /\ Calm(s, lua_remove(loaded, f)) BY <2>3, CalmOps
  <2>5. Calm(s, errfile(named, f)) /\ Calm(s, errfile(lua_settop(loaded, f), f)) BY <1>2, <2>2, <2>4
  <2> QED BY <2>1, <2>4, <2>5
<1>6. ASSUME NEW p, Calm(s, p), NEW i PROVE Calm(s, lua_pop(p, i)) BY <1>6, CalmOps DEF lua_pop
<1>7. Calm(s, handleThrows(q))
  <2>1. Calm(s, pushValue(q, -1)) BY CalmOps DEF pushValue, lua_pushvalue
  <2>2. Calm(s, pop(pushValue(q, -1), 1)) BY <1>6, <2>1 DEF pop
  <2>3. Calm(s, getLuaObject(q, -1)) BY <2>2, CalmOps DEF getLuaObject
  <2>4. Calm(s, pop(getLuaObject(q, -1), 1)) BY <1>6, <2>3 DEF pop
  <2> QED BY <2>4, CalmOps DEF handleThrows
<1>8. Calm(s, luaL_dostring(q, chunk))
  BY <1>1, <1>4 DEF luaL_dostring, luaL_loadstring, luaL_loadbuffer
<1>9. Calm(s, luaL_dofile(q, chunk, fate)) BY <1>4, <1>5 DEF luaL_dofile
<1> QED BY <1>7, <1>8, <1>9

\* A script's end, with the strings it has not released.
Script == \/ did'[1] = "doString" /\ Added(GetStringUTFChars(st), st')
          \/ did'[1] = "doFile" /\ Added(st, st')

LEMMA DoScriptStep ==
    ASSUME Inv, st.err = NoError, DoScript
    PROVE  Script /\ st'.err = NoError
<1> DEFINE g == GetStringUTFChars(st)
<1>0. /\ IsState(st) /\ IsState(g) /\ g.err = NoError /\ g.top = st.top /\ g.base = st.base
      /\ st.base \in Nat /\ st.base <= st.top /\ st.top \in Int
  BY Found, FoundPinned DEF Inv
<1>1. st.top + 1 <= Cap BY <1>0, CapNat DEF DoScript, Fits
<1> HIDE DEF g
<1>2. Reaches(g, g, g.top, g.top) /\ Calm(g, g) BY <1>0, Starting DEF Calm, IsState
<1>3. ASSUME NEW c, NEW f
      PROVE Ran(g, luaL_dostring(g, c), g.top, g.top) /\ Ran(g, luaL_dofile(g, c, f), g.top, g.top)
  BY <1>0, <1>1, <1>2, DostringReaches
<1>4. ASSUME NEW c, Does(<<"doString", c>>, doString(st, c)) PROVE Script /\ st'.err = NoError
  <2> DEFINE r == luaL_dostring(g, c)
             q == Ended(r)
  <2>1. Calm(g, r) BY <1>2, CalmScripts
  <2>2. r.err = NoError BY <2>1, <1>0 DEF Calm
  <2>3. doString(st, c) = q BY <2>2, Zenon DEF doString, LdoString, Then, g, Ended
  <2>4. Ran(g, r, g.top, g.top) BY <1>3
  <2> HIDE DEF r
  <2>5. Added(g, q)
    BY <1>0, <1>1, <2>4, ScriptAdds
  <2>6. Calm(g, q) BY <2>1, CalmScripts, CalmOps DEF Ended
  <2> HIDE DEF q
  <2>7. st' = Return(q, 0) /\ did'[1] = "doString" BY <1>4, <2>3 DEF Does
  <2>8. Added(g, st') /\ Calm(g, st')
    <3>1. Calm(g, st') BY <2>6, <2>7, CalmOps
    <3>2. \A u : Reaches(g, q, g.top, u) => Reaches(g, st', g.top, u) /\ st'.obj = q.obj
      BY <2>7, ReturnReaches
    <3> QED BY <2>5, <3>1, <3>2 DEF Added
  <2> QED BY <1>0, <2>7, <2>8 DEF Script, g, Calm
<1>5. ASSUME NEW c, NEW f, Does(<<"doFile", c, f>>, doFile(st, c, f)) PROVE Script /\ st'.err = NoError
  <2> DEFINE p == luaL_dofile(g, c, f)
             r == Released(p)
             q == Ended(r)
  <2>1. Calm(g, p) BY <1>2, CalmScripts
  <2>2. Ran(g, p, g.top, g.top) BY <1>3
  <2>3. doFile(st, c, f) = IF r.err # NoError THEN r ELSE q
    BY Zenon DEF doFile, LdoFile, Then, g, Ended
  <2> HIDE DEF p
  <2>4. r.err = NoError /\ r.ret = p.ret /\ Calm(st, r)
    <3>1. p.err = NoError /\ IsRecord(p) BY <1>0, <2>1 DEF Calm
    <3>2. r = [p EXCEPT !.pins = @ - 1] BY <3>1 DEF Released, ReleaseStringUTFChars
    <3> HIDE DEF r
    <3> QED BY <1>0, <3>1, <3>2 DEF Calm, IsRecord, Fields
  <2>5. \A u : Reaches(g, p, g.top, u) => Reaches(st, r, st.top, u) BY <1>0, PinnedReaches DEF g
  <2>6. Ran(st, r, st.top, st.top) BY <1>0, <2>2, <2>4, <2>5 DEF Ran
  <2> HIDE DEF r
  <2>7. Added(st, q)
    BY <1>0, <1>1, <2>6, ScriptAdds
  <2>8. Calm(st, q) BY <2>4, CalmScripts, CalmOps DEF Ended
  <2>9. doFile(st, c, f) = q BY <2>3, <2>4
  <2> HIDE DEF q
  <2>10. st' = Return(q, 0) /\ did'[1] = "doFile" BY <1>5, <2>9 DEF Does
  <2>11. Added(st, st') /\ Calm(st, st')
    <3>1. Calm(st, st') BY <2>8, <2>10, CalmOps
    <3>2. \A u : Reaches(st, q, st.top, u) => Reaches(st, st', st.top, u) /\ st'.obj = q.obj
      BY <2>10, ReturnReaches
    <3> QED BY <2>7, <3>1, <3>2 DEF Added
  <2> QED BY <2>10, <2>11 DEF Script, Calm
<1> QED BY <1>4, <1>5, Zenon DEF DoScript

\* What a step is.
LEMMA StepCases ==
    ASSUME Inv, Next
    PROVE  /\ st.err = NoError
           /\ Stepped \/ Quietly \/ (Script /\ st'.err = NoError)
<1>1. st.err = NoError BY DEF Next
<1>2. CASE Rearrange BY <1>1, <1>2, RearrangeStep
<1>3. CASE Xmove BY <1>1, <1>3, XmoveStep
<1>4. CASE PushValues BY <1>1, <1>4, PushValuesStep
<1>5. CASE Convert BY <1>1, <1>5, ConvertStep
<1>6. CASE Auxiliary BY <1>1, <1>6, AuxiliaryStep
<1>7. CASE GetAccess BY <1>1, <1>7, GetAccessStep
<1>8. CASE SetAccess BY <1>1, <1>8, SetAccessStep
<1>9. CASE Concat BY <1>1, <1>9, ConcatStep
<1>10. CASE MetaTables BY <1>1, <1>10, MetaTablesStep
<1>11. CASE Call BY <1>1, <1>11, CallStep
<1>12. CASE Load BY <1>1, <1>12, LoadStep
<1>13. CASE Facade BY <1>1, <1>13, FacadeStep
<1>14. CASE DoScript BY <1>1, <1>14, DoScriptStep
<1> QED
  BY <1>1, <1>2, <1>3, <1>4, <1>5, <1>6, <1>7, <1>8, <1>9, <1>10, <1>11, <1>12, <1>13, <1>14 DEF Next

\* The invariant holds at first and after every step.
LEMMA InitInv == Init => Inv
BY StartsAssumption DEF Init, StartsAssumption, Inv

LEMMA NextInv == Inv /\ [Next]_vars => Inv'
<1> SUFFICES ASSUME Inv, [Next]_vars PROVE Inv'
  OBVIOUS
<1>1. CASE Next
  <2>1. Stepped \/ Quietly \/ Script BY <1>1, StepCases
  <2>2. ASSUME NEW s, NEW h, NEW t, Reaches(s, st', h, t) PROVE IsState(st') BY <2>2 DEF Reaches
  <2>3. CASE Stepped BY <2>3 DEF Stepped, Kept, Inv
  <2>4. CASE Quietly BY <2>2, <2>4 DEF Quietly, Inv
  <2>5. CASE Script BY <2>2, <2>5 DEF Script, Added, Inv
  <2> QED BY <2>1, <2>3, <2>4, <2>5
<1>2. CASE UNCHANGED vars
  BY <1>2 DEF vars, Inv
<1> QED BY <1>1, <1>2

(***************************************************************************)
(* Whatever sequence of natives (LuaState.java, jluajni.c) and methods of  *)
(* Lua and LuaObject runs: its end is an error, or a stack whose top is    *)
(* not below the base of its frame and not above the slots there are.      *)
(***************************************************************************)
THEOREM StackStands == Spec => []Inv
<1>1. Init => Inv BY InitInv
<1>2. Inv /\ [Next]_vars => Inv' BY NextInv
<1> QED BY <1>1, <1>2, PTL DEF Spec

----------------------------------------------------------------------------
(* The strings *)

\* A step holds the strings it found, and doString one more.
LEMMA StepReleases ==
    ASSUME Inv, Next
    PROVE  ReleasesStrings
<1> SUFFICES ASSUME st'.err = NoError PROVE st'.pins = st.pins + (IF did'[1] = "doString" THEN 1 ELSE 0)
  BY DEF ReleasesStrings
<1>0. st.pins \in Int /\ IsState(st) /\ st.err = NoError BY StepCases DEF Inv, IsState
<1>1. CASE Stepped
  <2>1. did'[1] # "doString" BY <1>1 DEF Stepped, IsNative, Methods
  <2> QED BY <1>0, <1>1, <2>1 DEF Stepped, Kept
<1>2. CASE Quietly
  <2>1. did'[1] # "doString" BY <1>2 DEF Quietly, Quiet
  <2> QED BY <1>0, <1>2, <2>1 DEF Quietly, Reaches
<1>3. CASE did'[1] = "doString" /\ Added(GetStringUTFChars(st), st')
  <2>1. GetStringUTFChars(st).pins = st.pins + 1
    BY <1>0 DEF GetStringUTFChars, IsState, IsRecord, Fields
  <2> QED BY <1>3, <2>1 DEF Added, Reaches
<1>4. CASE did'[1] = "doFile" /\ Added(st, st')
  <2>1. did'[1] # "doString" BY <1>4
  <2> QED BY <1>0, <1>4, <2>1 DEF Added, Reaches
<1> QED BY <1>1, <1>2, <1>3, <1>4, StepCases DEF Script

(***************************************************************************)
(* Every string that a native of jluajni.c pins with GetStringUTFChars is  *)
(* released when it returns; only doString keeps its script.               *)
(***************************************************************************)
THEOREM StringsAreReleased == Spec => StringsReleased
<1>1. Inv /\ [Next]_vars => [ReleasesStrings]_vars BY StepReleases
<1> QED BY <1>1, StackStands, PTL DEF Spec, StringsReleased

----------------------------------------------------------------------------
(* The elements *)

\* The slots up to the top are the elements.
LEMMA SameElems ==
    ASSUME NEW s, IsState(s), s.err = NoError, NEW r, Reaches(s, r, s.top, s.top), r.err = NoError
    PROVE  Elems(r) = Elems(s)
<1>1. r.base = s.base /\ r.top = s.top /\ \A a \in 1..s.top - 1 : r.mem[a] = s.mem[a] BY DEF Reaches
<1>2. s.base \in Nat /\ s.base >= 1 /\ s.top \in Nat BY Found
<1>3. \A i \in 1..(s.top - s.base) : s.base + i - 1 \in 1..s.top - 1 BY <1>2
<1>4. \A i \in 1..(s.top - s.base) : r.mem[s.base + i - 1] = s.mem[s.base + i - 1] BY <1>1, <1>3
<1> QED BY <1>1, <1>4 DEF Elems

\* ... and with results above them, a prefix of the elements.
LEMMA MoreElems ==
    ASSUME NEW s, IsState(s), s.err = NoError, NEW r, NEW n \in Nat, Reaches(s, r, s.top, s.top + n), r.err = NoError
    PROVE  IsPrefix(Elems(s), Elems(r)) /\ Len(Elems(r)) = Len(Elems(s)) + n
<1>1. r.base = s.base /\ r.top = s.top + n /\ \A a \in 1..s.top - 1 : r.mem[a] = s.mem[a]
  BY DEF Reaches
<1>2. s.base \in Nat /\ s.base >= 1 /\ s.top \in Nat /\ s.base <= s.top BY Found
<1> DEFINE l == s.top - s.base
           k == s.top + n - s.base
           V == {s.mem[s.base + i - 1] : i \in 1..l}
           W == {r.mem[s.base + i - 1] : i \in 1..k}
<1>3. l \in Nat /\ k \in Nat /\ l <= k BY <1>2
<1>4. Elems(s) = [i \in 1..l |-> s.mem[s.base + i - 1]] BY DEF Elems
<1>5. Elems(r) = [i \in 1..k |-> r.mem[s.base + i - 1]]
  <2>1. r.top - r.base = k BY <1>1, <1>2
  <2>2. Elems(r) = [i \in 1..(r.top - r.base) |-> r.mem[r.base + i - 1]] BY DEF Elems
  <2> HIDE DEF k
  <2> QED BY <1>1, <2>1, <2>2, Zenon
<1>6. \A i \in 1..l : s.base + i - 1 \in 1..s.top - 1 BY <1>2
<1>7. \A i \in 1..l : r.mem[s.base + i - 1] = s.mem[s.base + i - 1] BY <1>1, <1>6
<1>8. Elems(s) \in [1..l -> V] /\ Elems(r) \in [1..k -> W] BY <1>4, <1>5
<1>9. \A i \in 1..l : Elems(s)[i] = Elems(r)[i]
  <2>1. ASSUME NEW i \in 1..l PROVE i \in 1..k BY <1>3
  <2> QED BY <1>4, <1>5, <1>7, <2>1
<1>14. k = l + n BY <1>2
<1> HIDE DEF V, W, l, k
<1>10. Elems(s) \in Seq(V) /\ Len(Elems(s)) = l /\ Elems(r) \in Seq(W) /\ Len(Elems(r)) = k
  BY <1>3, <1>8
<1>11. SubSeq(Elems(s), 1, l) = [i \in 1..l |-> Elems(s)[i]] BY <1>3, <1>10
<1>12. SubSeq(Elems(r), 1, l) = [i \in 1..l |-> Elems(r)[i]] BY <1>3, <1>10
<1>13. SubSeq(Elems(s), 1, l) = SubSeq(Elems(r), 1, l) BY <1>9, <1>11, <1>12
<1> QED BY <1>3, <1>14, <1>10, <1>13 DEF IsPrefix

\* A step of a method leaves the stack as the facade promises.
LEMMA Balanced ==
    ASSUME Inv, Next
    PROVE  KeepsStack
<1>0. IsState(st) /\ st.err = NoError BY StepCases DEF Inv
<1>1. CASE Stepped
  BY <1>1 DEF Stepped, IsNative, Methods, Quiet, KeepsStack
<1>2. CASE Quietly
  <2>1. did'[1] \notin {"doString", "doFile"} BY <1>2 DEF Quietly, Quiet
  <2>2. st'.err = NoError => IsPrefix(was, now) /\ Len(now) = Len(was) + Left(did')
    BY <1>0, <1>2, MoreElems DEF Quietly, now, was
  <2> QED BY <2>1, <2>2 DEF KeepsStack
<1>3. ASSUME NEW s, IsState(s), s.err = NoError, Elems(s) = was, Added(s, st'), did'[1] \in {"doString", "doFile"}, st'.err = NoError
      PROVE  KeepsStack
  <2>1. PICK n \in Nat : Reaches(s, st', s.top, s.top + n) BY <1>3 DEF Added
  <2>2. IsPrefix(was, now) BY <1>3, <2>1, MoreElems DEF now
  <2>3. st'.obj = Exception => now = was BY <1>3, SameElems DEF Added, now
  <2> QED BY <1>3, <2>2, <2>3 DEF KeepsStack
<1>4. CASE Script /\ st'.err = NoError
  <2> DEFINE g == GetStringUTFChars(st)
  <2>1. IsState(g) /\ g.err = NoError BY <1>0, FoundPinned
  <2>2. Elems(g) = was BY <1>0 DEF Elems, was, GetStringUTFChars, IsState, IsRecord, Fields
  <2>3. Elems(st) = was BY DEF was
  <2> HIDE DEF g
  <2> QED BY <1>0, <1>3, <1>4, <2>1, <2>2, <2>3 DEF Script, g
<1> QED BY <1>1, <1>2, <1>4, StepCases

(***************************************************************************)
(* The methods of Lua (Lua.java) and LuaObject leave the stack as they     *)
(* found it, with an exception too.  Only a value that checkJavaObj        *)
(* refuses makes a difference (LuaState.java:833): the elements that were  *)
(* pushed before it stay, and no others, be they few or many, wrapped in   *)
(* userdata or not.  doString and doFile add the results of the chunk.     *)
(***************************************************************************)
THEOREM FacadeBalances == Spec => FacadeKeepsStack
<1>1. Inv /\ [Next]_vars => [KeepsStack]_vars BY Balanced
<1> QED BY <1>1, StackStands, PTL DEF Spec, FacadeKeepsStack

----------------------------------------------------------------------------
(* Looking *)

\* The tables are those of s.
SameTab(s, r) == IsRecord(r) /\ r.tab = s.tab
LEMMA TabOps ==
    ASSUME NEW s, NEW q, SameTab(s, q)
    PROVE  /\ \A v : SameTab(s, Push(q, v)) /\ SameTab(s, Return(q, v)) /\ SameTab(s, lua_pop(q, v)) /\ SameTab(s, lua_rawget(q, v))
           /\ \A i : SameTab(s, lua_tolstring(q, i)) /\ SameTab(s, lua_getmetatable(q, i)) /\ SameTab(s, lua_checkstack(q, i)) /\ SameTab(s, lua_objlen(q, i))
<1>0. IsRecord(q) /\ q.tab = s.tab BY DEF SameTab
<1>1. ASSUME NEW v PROVE SameTab(s, Push(q, v)) BY <1>0 DEF SameTab, IsRecord, Fields, Push
<1>2. ASSUME NEW p, SameTab(s, p), NEW v PROVE SameTab(s, Return(p, v))
  BY <1>2 DEF SameTab, IsRecord, Fields, Return
<1>3. ASSUME NEW v PROVE SameTab(s, lua_pop(q, v))
  BY <1>0 DEF SameTab, IsRecord, Fields, lua_pop, lua_settop
<1>4. ASSUME NEW v PROVE SameTab(s, lua_rawget(q, v))
  BY <1>0 DEF SameTab, IsRecord, Fields, lua_rawget
<1>5. ASSUME NEW i PROVE SameTab(s, lua_tolstring(q, i))
  <2> DEFINE v == Str(NumText(At(q, i)))
             a == [q EXCEPT !.upvals[Globals - i] = v]
             b == [q EXCEPT !.mem[Slot(q, i)] = v]
  <2>1. SameTab(s, a) BY <1>0 DEF SameTab, IsRecord, Fields
  <2>2. SameTab(s, b) BY <1>0 DEF SameTab, IsRecord, Fields
  <2>3. \E x : lua_tolstring(q, i) = Return(q, x) \/ lua_tolstring(q, i) = Return(a, x) \/ lua_tolstring(q, i) = Return(b, x)
    <3>1. CASE lua_type(q, i) = "number"
      <4>1. lua_type(q, i) # "string" BY <3>1
      <4>2. lua_tolstring(q, i) = Return(IF IsPseudo(i) THEN a ELSE b, v)
        BY <3>1, <4>1, Zenon DEF lua_tolstring
      <4> HIDE DEF a, b
      <4> QED BY <4>2
    <3>2. CASE lua_type(q, i) # "number"
      BY <3>2, Zenon DEF lua_tolstring
    <3> QED BY <3>1, <3>2
  <2> HIDE DEF a, b
  <2> QED BY <1>2, <2>1, <2>2, <2>3
<1>6. ASSUME NEW i PROVE SameTab(s, lua_getmetatable(q, i)) BY <1>1, <1>2 DEF lua_getmetatable
<1>7. ASSUME NEW n PROVE SameTab(s, lua_checkstack(q, n))
  <2> DEFINE a == [q EXCEPT !.citop = IF @ < q.top + n THEN q.top + n ELSE @]
  <2>1. SameTab(s, a) BY <1>0 DEF SameTab, IsRecord, Fields
  <2>2. lua_checkstack(q, n) = Return(q, 0) \/ lua_checkstack(q, n) = Return(a, 1)
    BY Zenon DEF lua_checkstack
  <2> HIDE DEF a
  <2> QED BY <1>2, <2>1, <2>2
<1>8. ASSUME NEW i PROVE SameTab(s, lua_objlen(q, i))
  <2>1. \E x : lua_objlen(q, i) = Return(lua_tolstring(q, i), x) \/ lua_objlen(q, i) = Return(q, x)
    BY DEF lua_objlen
  <2> QED BY <1>2, <1>5, <2>1
<1> QED BY <1>1, <1>2, <1>3, <1>4, <1>5, <1>6, <1>7, <1>8

\* A look at the stack.
Looked(s, seen) == Reaches(s, seen, s.top, s.top) /\ SameTab(s, seen)
LEMMA LookedUnmoved ==
    ASSUME Inv, st.err = NoError, NEW seen, Looked(st, seen)
    PROVE  Unmoved(seen)
BY SameElems DEF Unmoved, Looked, SameTab, Inv

\* A look that ends in an error.
LEMMA ErrorUnmoved ==
    ASSUME Inv, st.err = NoError
    PROVE  /\ Unmoved(luaL_typerror(st)) /\ Unmoved(luaL_argerror(st)) /\ \A v : Unmoved(Return(st, v))
           /\ Unmoved(st)
<1>1. IsRecord(st) /\ st.pins \in Int BY DEF Inv, IsState
<1>2. luaL_typerror(st).err # NoError /\ luaL_argerror(st).err # NoError
  BY <1>1, ErrorReaches DEF luaL_argerror
<1>3. ASSUME NEW v PROVE Elems(Return(st, v)) = Elems(st) /\ Return(st, v).tab = st.tab
  BY <1>1 DEF Elems, Return, IsRecord, Fields
<1> QED BY <1>2, <1>3 DEF Unmoved

LEMMA ObjectLooked ==
    ASSUME NEW s, IsState(s), s.err = NoError, s.top + 3 <= Cap, NEW i
    PROVE  Looked(s, isObject(s, i)) /\ Looked(s, isJavaFunction(s, i)) /\ Looked(s, getObjectFromUserdata(s, i))
<1>0. s.top < Cap /\ s.top \in Int /\ s.base <= s.top /\ s.top <= s.top BY Found, CapNat
<1>1. Reaches(s, s, s.top, s.top) /\ SameTab(s, s) BY Starting DEF SameTab, IsState
<1>2. Reaches(s, isJavaObject(s, i), s.top, s.top) BY <1>0, <1>1, IsJavaObjectReaches
<1>3. Reaches(s, isJavaFunction(s, i), s.top, s.top) /\ Reaches(s, getObjectFromUserdata(s, i), s.top, s.top)
  BY <1>0, <1>1, IsJavaFunctionReaches
<1> DEFINE is == isJavaObject(s, i)
<1>4. SameTab(s, is)
  <2> DEFINE mt == lua_getmetatable(s, i)
             got == lua_rawget(Push(mt, Name("__IsJavaObject")), -2)
  <2>1. \/ is = Return(s, 0) \/ is = mt
        \/ \E x : is = Return(lua_pop(got, 2), x)
    BY Zenon DEF isJavaObject, Then
  <2>2. SameTab(s, mt) BY <1>1, TabOps
  <2> HIDE DEF mt, is
  <2>3. SameTab(s, Push(mt, Name("__IsJavaObject"))) BY <2>2, TabOps
  <2>4. SameTab(s, got) BY <2>3, TabOps
  <2> HIDE DEF got
  <2>5. SameTab(s, lua_pop(got, 2)) BY <2>4, TabOps
  <2> QED BY <1>1, <2>1, <2>2, <2>5, TabOps
<1>5. isJavaFunction(s, i) = is \/ \E x : isJavaFunction(s, i) = Return(is, x)
  BY DEF isJavaFunction, Then
<1>6. getObjectFromUserdata(s, i) = is \/ \E x : getObjectFromUserdata(s, i) = Return(is, x)
  BY DEF getObjectFromUserdata, Then
<1> HIDE DEF is
<1>7. SameTab(s, isJavaFunction(s, i)) /\ SameTab(s, getObjectFromUserdata(s, i))
  BY <1>4, <1>5, <1>6, TabOps
<1> QED BY <1>2, <1>3, <1>4, <1>7 DEF Looked, isObject, is

LEMMA OthersLooked ==
    ASSUME NEW s, IsState(s), s.err = NoError, s.top + 3 <= Cap, NEW i, NEW j
    PROVE  /\ Looked(s, pop(strlen(pushValue(s, i), -1), 1)) /\ Looked(s, pop(rawGetI(s, i, 1), 1))
           /\ Looked(s, checkStack(s, 2))
<1>0. /\ s.top <= Cap /\ s.top \in Int /\ s.base \in Int /\ s.base <= s.top /\ s.top <= s.top
      /\ s.top + 1 \in Int /\ s.base <= s.top + 1 - 1
      /\ s.top + 1 - 1 = s.top /\ s.top <= s.top + 1 /\ -1 \in Int
  BY Found, CapNat
<1>1. Reaches(s, s, s.top, s.top) /\ SameTab(s, s) BY Starting DEF SameTab, IsState
<1>2. Looked(s, pop(strlen(pushValue(s, i), -1), 1))
  <2> DEFINE p == pushValue(s, i)
             q == lua_objlen(p, -1)
  <2>1. Reaches(s, p, s.top, s.top + 1) /\ SameTab(s, p)
    BY <1>0, <1>1, PushvalueReaches, TabOps DEF pushValue, lua_pushvalue
  <2> HIDE DEF p
  <2>2. Place(s, -1, s.top + 1) \notin 1..s.top - 1 BY <1>0 DEF Place
  <2>3. Reaches(s, q, s.top, s.top + 1) /\ SameTab(s, q) BY <1>0, <2>1, <2>2, ObjlenReaches, TabOps
  <2> HIDE DEF q
  <2>4. Reaches(s, lua_pop(q, 1), s.top, s.top + 1 - 1) /\ SameTab(s, lua_pop(q, 1))
    BY <1>0, <2>3, PopReaches, TabOps
  <2> QED BY <1>0, <2>4 DEF Looked, pop, strlen, p, q
<1>3. Looked(s, pop(rawGetI(s, i, 1), 1))
  <2> DEFINE p == rawGetI(s, i, 1)
  <2>1. Reaches(s, p, s.top, s.top + 1) /\ SameTab(s, p)
    BY <1>0, <1>1, RawgetiReaches, TabOps DEF rawGetI, lua_rawgeti
  <2> HIDE DEF p
  <2>2. Reaches(s, lua_pop(p, 1), s.top, s.top + 1 - 1) /\ SameTab(s, lua_pop(p, 1))
    BY <1>0, <2>1, PopReaches, TabOps
  <2> QED BY <1>0, <2>2 DEF Looked, pop, p
<1>4. Looked(s, checkStack(s, 2))
  <2>1. Reaches(s, lua_checkstack(s, 2), s.top, s.top) BY CheckstackReaches
  <2> QED BY <1>1, <2>1, TabOps DEF Looked, checkStack
<1> QED BY <1>2, <1>3, <1>4

LEMMA CheckStackUnmoved ==
    ASSUME Inv, st.err = NoError
    PROVE  Unmoved(LcheckStack(st, 2))
<1> DEFINE g == GetStringUTFChars(st)
           c == lua_checkstack(g, 2)
           r == luaL_checkstack(g, 2)
<1>1. IsState(g) /\ g.err = NoError /\ g.top = st.top /\ IsRecord(g) /\ g.pins \in Int
  BY FoundPinned DEF Inv, IsState
<1>2. g.tab = st.tab BY DEF GetStringUTFChars, Inv, IsState, IsRecord, Fields
<1>3. LcheckStack(st, 2) = Released(r) /\ (r = luaL_error(g) \/ r = c)
  BY DEF LcheckStack, luaL_checkstack
<1> HIDE DEF g
<1>4. luaL_error(g).err # NoError BY <1>1, ErrorReaches
<1>5. Reaches(g, c, g.top, g.top) /\ SameTab(st, c)
  BY <1>1, <1>2, CheckstackReaches, TabOps DEF SameTab
<1> HIDE DEF c, r
<1>6. CASE r = luaL_error(g)
  BY <1>3, <1>4, <1>6 DEF Released, ReleaseStringUTFChars, Unmoved
<1>7. CASE r = c
  <2>1. Reaches(st, Released(c), st.top, st.top) BY <1>1, <1>5, PinnedReaches DEF g, Inv
  <2>2. SameTab(st, Released(c))
    BY <1>5 DEF SameTab, Released, ReleaseStringUTFChars, IsRecord, Fields
  <2> QED BY <1>3, <1>7, <2>1, <2>2, LookedUnmoved DEF Looked
<1> QED BY <1>3, <1>6, <1>7

LEMMA LooksOnlyHolds == Inv => LooksOnly
<1> SUFFICES ASSUME Inv, st.err = NoError, Fits(st, 3), NEW i \in Positions
             PROVE
        /\ Unmoved(isObject(st, i)) /\ Unmoved(isJavaFunction(st, i)) /\ Unmoved(getObjectFromUserdata(st, i))
        /\ Unmoved(pop(strlen(pushValue(st, i), -1), 1)) /\ Unmoved(pop(rawGetI(st, Globals, 1), 1))
        /\ Unmoved(equal(st, i, 1)) /\ Unmoved(rawequal(st, i, 1)) /\ Unmoved(isNoneOrNil(st, i))
        /\ Unmoved(isNumber(st, i))
        /\ Unmoved(type(st, i)) /\ Unmoved(isNil(st, i)) /\ Unmoved(isBoolean(st, i))
        /\ Unmoved(isFunction(st, i))
        /\ Unmoved(isCFunction(st, i)) /\ Unmoved(getTop(st)) /\ Unmoved(checkStack(st, 2))
        /\ Unmoved(LcheckNumber(st, i)) /\ Unmoved(LoptNumber(st, i, 1)) /\ Unmoved(LcheckType(st, i, "table"))
        /\ Unmoved(LcheckAny(st, i)) /\ Unmoved(LcheckStack(st, 2))
  BY Zenon DEF LooksOnly
<1>0. IsState(st) /\ st.top + 3 <= Cap BY RoomFor DEF Inv
<1>1. Unmoved(isObject(st, i)) /\ Unmoved(isJavaFunction(st, i)) /\ Unmoved(getObjectFromUserdata(st, i))
  BY <1>0, ObjectLooked, LookedUnmoved
<1>2. /\ Unmoved(pop(strlen(pushValue(st, i), -1), 1)) /\ Unmoved(pop(rawGetI(st, Globals, 1), 1))
      /\ Unmoved(checkStack(st, 2))
  BY <1>0, OthersLooked, LookedUnmoved
<1>3. Unmoved(equal(st, i, 1))
  <2>1. Reaches(st, st, st.top, st.top) /\ st.top \in Int BY <1>0, Starting, Found
  <2>2. Reaches(st, lua_equal(st, i, 1), st.top, st.top) /\ (lua_equal(st, i, 1).err = NoError => lua_equal(st, i, 1).tab = st.tab)
    BY <2>1, EqualReaches
  <2> QED BY <1>0, <2>2, SameElems DEF equal, Unmoved
<1>4. /\ Unmoved(rawequal(st, i, 1)) /\ Unmoved(isNoneOrNil(st, i)) /\ Unmoved(isNumber(st, i))
      /\ Unmoved(type(st, i)) /\ Unmoved(isNil(st, i)) /\ Unmoved(isBoolean(st, i))
      /\ Unmoved(isFunction(st, i))
      /\ Unmoved(isCFunction(st, i)) /\ Unmoved(getTop(st))
  BY ErrorUnmoved DEF rawequal, isNoneOrNil, isNumber, type, isNil, isBoolean, isFunction, isCFunction, getTop
<1>5. Unmoved(LcheckNumber(st, i)) BY ErrorUnmoved DEF LcheckNumber, luaL_checknumber
<1>6. Unmoved(LoptNumber(st, i, 1))
  BY <1>5, ErrorUnmoved DEF LoptNumber, luaL_optnumber, LcheckNumber
<1>7. Unmoved(LcheckType(st, i, "table")) BY ErrorUnmoved DEF LcheckType, luaL_checktype
<1>8. Unmoved(LcheckAny(st, i)) BY ErrorUnmoved DEF LcheckAny, luaL_checkany
<1>9. Unmoved(LcheckStack(st, 2)) BY CheckStackUnmoved
<1> QED BY <1>1, <1>2, <1>3, <1>4, <1>5, <1>6, <1>7, <1>8, <1>9

(***************************************************************************)
(* The natives that look at an element (isObject, equal, type, the checks  *)
(* of arguments and the others of jluajni.c) leave the stack and the       *)
(* tables as they were, in every state with room for them that a program   *)
(* can bring about.                                                        *)
(***************************************************************************)
THEOREM LooksLeaveTheStack == Spec => []LooksOnly
<1>1. Inv => LooksOnly BY LooksOnlyHolds
<1> QED BY <1>1, StackStands, PTL

====
