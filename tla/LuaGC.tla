---- MODULE LuaGC ----
(***************************************************************************)
(* The incremental garbage collector of Lua (lgc.c) under a running        *)
(* program: tri-colour marking with two whites, write barriers, open       *)
(* upvalues, weak tables, interned strings, and userdata with finalizers.  *)
(*                                                                         *)
(* One action of the collector is one case of singlestep; one action of    *)
(* the program is one store, load or allocation, so a step of the          *)
(* collector comes between any two of them (luaC_checkGC).                 *)
(*                                                                         *)
(* Sizes, thresholds and debts only decide when a step runs; here it may   *)
(* run at any time.  The lists gray, grayagain and weak are sets: the      *)
(* collector may take their members in any order.  The order of the        *)
(* userdata list is kept, for it decides the order of finalizers.          *)
(***************************************************************************)
EXTENDS Naturals, FiniteSets, SequencesExt

CONSTANTS
    Objects,    \* what can be allocated, besides the main thread
    Main,       \* the main thread, never freed; its stack stands for all roots
    Nil,        \* a value that is not an object
    Plans,      \* the kinds the objects get when they are allocated, to choose from
    MaxStack    \* bound: objects the program holds on a stack by itself

\* Kinds.  Tables differ in what is weak, userdata in who finalizes them: JLua
\* ("java") or a Lua function ("proxy").
Tables == {"table", "weakkey", "weakvalue", "weakboth"}
Userdata == {"java", "proxy"}
Listed == Tables \cup {"closure", "thread"}     \* kinds that wait in the list gray

ASSUME GCAssumption ==
    /\ Main \notin Objects
    /\ Nil \notin Objects \cup {Main}
    /\ MaxStack \in Nat
    /\ \A plan \in Plans : plan \in [Objects -> Tables \cup Userdata \cup {"closure", "upval", "thread", "string", "unused"}]

VARIABLES
    kind,       \* kind[o]: what o is, or will be
    alloc,      \* the objects that are allocated
    key, val,   \* the node of a table; val: also the value of an upvalue, the
                \* upvalue of a closure, the environment of a userdata
    stack,      \* stack[th]: the objects on the stack of a thread
    openOf,     \* openOf[uv]: the thread on whose stack an open upvalue lives
    m,          \* marks: the colours and the lists gray, grayagain, weak
    currentwhite, gcstate,
    unswept,    \* the objects from sweepgc (or sweepstrgc) to the end of the list
    udata,      \* the userdata list, newest first
    tmudata,    \* the userdata whose finalizers are to be called, in order
    finalized,  \* the userdata with FINALIZEDBIT
    hasgc,      \* the userdata whose metatable has __gc
    phase       \* "open"; in lua_close "closing", or "finalizer" in one written in
                \* Lua; then "closed"

heap == <<kind, alloc, key, val, stack, openOf>>
program == <<heap, udata, hasgc>>
collector == <<currentwhite, gcstate, unswept, tmudata, finalized, phase>>
gcvars == <<program, m, collector>>

All == Objects \cup {Main}

WeakKey(o) == kind[o] \in {"weakkey", "weakboth"}
WeakValue(o) == kind[o] \in {"weakvalue", "weakboth"}
IsWeak(o) == WeakKey(o) \/ WeakValue(o)

----------------------------------------------------------------------------
(* The object graph *)

OpenIn(th) == {uv \in alloc : openOf[uv] = th}
Slots(th) == stack[th] \cup {val[uv] : uv \in OpenIn(th)}

\* What o holds, and the part of it that keeps its target alive.
Held(o) == (IF kind[o] = "thread" THEN Slots(o) ELSE {key[o], val[o]}) \ {Nil}
Children(o) ==
    (CASE kind[o] = "thread" -> Slots(o)
       [] kind[o] \in Tables -> (IF WeakKey(o) THEN {} ELSE {key[o]}) \cup
                                (IF WeakValue(o) THEN {} ELSE {val[o]})
       [] OTHER -> {val[o]}) \ {Nil}

\* What can be reached from S by following next: what is in every set that
\* holds S and all that its members lead to.
Closure(S, next) ==
    LET closedSets == {R \in SUBSET DOMAIN next : S \subseteq R /\ \A o \in R : next[o] \subseteq R}
    IN  {x \in DOMAIN next : \A R \in closedSets : x \in R}

\* The objects the program can get at: through strong and weak references.
Accessible == Closure({Main}, [o \in All |-> Held(o)])

----------------------------------------------------------------------------
(* Marking.  These operators take marks and return marks. *)

White == {"white0", "white1"}
OtherWhite == IF currentwhite = "white0" THEN "white1" ELSE "white0"
IsDead(o) == m.marked[o] = OtherWhite

\* The white objects marked when S is marked and the objects of the kinds
\* "through" pass the mark on.
Reached(marked, S, through) ==
    LET W == {o \in All : marked[o] \in White}
    IN  Closure(S \cap W, [o \in W |-> IF kind[o] \in through THEN Children(o) \cap W ELSE {}])

\* Userdata are never gray, open upvalues never black; strings stay gray.
ColourMarked(o) ==
    CASE kind[o] \in Userdata -> "black"
      [] kind[o] = "upval" /\ openOf[o] = Nil -> "black"
      [] OTHER -> "gray"

ColourTraversed(o) ==
    IF kind[o] = "thread" \/ IsWeak(o) THEN "gray" ELSE "black"

Mark(mm, S) ==
    LET R == Reached(mm.marked, S, Userdata \cup {"upval"})
    IN  [mm EXCEPT !.marked = [o \in All |-> IF o \in R THEN ColourMarked(o) ELSE @[o]],
                   !.gray = @ \cup {o \in R : kind[o] \in Listed}]

\* Traverse the gray objects of V.
Traverse(mm, V) ==
    Mark([mm EXCEPT !.gray = @ \ V,
                    !.marked = [o \in All |-> IF o \in V THEN ColourTraversed(o) ELSE @[o]],
                    !.grayagain = @ \cup {o \in V : kind[o] = "thread"},
                    !.weak = @ \cup {o \in V : IsWeak(o)}],
         UNION {Children(o) : o \in V})

\* Until no object is gray: all that the gray objects reach gets traversed.
PropagateAll(mm) ==
    LET R == Reached(mm.marked, UNION {Children(o) : o \in mm.gray}, Listed \cup Userdata \cup {"upval"})
        V == mm.gray \cup {o \in R : kind[o] \in Listed}
    IN  Traverse(Mark(mm, R), V)

MarkRoot(marked) ==
    Mark([marked |-> marked, gray |-> {}, grayagain |-> {}, weak |-> {}], {Main})

----------------------------------------------------------------------------
(* Barriers: a program's step that stores v in p. *)

\* Mutant: the barrier is forgotten.
NoBarrier(mm, p, v) == mm

\* luaC_barrierf: for anything but a table.
BarrierForward(mm, p, v) ==
    IF v = Nil \/ mm.marked[p] # "black" \/ mm.marked[v] \notin White THEN mm
    ELSE IF gcstate = "propagate" THEN Mark(mm, {v})
    ELSE [mm EXCEPT !.marked[p] = currentwhite]

\* luaC_barrierback: for a table.
BarrierBack(mm, p, v) ==
    IF v = Nil \/ mm.marked[p] # "black" \/ mm.marked[v] \notin White THEN mm
    ELSE [mm EXCEPT !.marked[p] = "gray", !.grayagain = @ \cup {p}]

----------------------------------------------------------------------------
(* The program *)

Init ==
    /\ \E plan \in Plans : kind = [o \in All |-> IF o = Main THEN "thread" ELSE plan[o]]
    /\ alloc = {Main}
    /\ key = [o \in All |-> Nil] /\ val = [o \in All |-> Nil]
    /\ stack = [o \in All |-> {}]
    /\ openOf = [o \in All |-> Nil]
    /\ m = [marked |-> [o \in All |-> "white0"], gray |-> {}, grayagain |-> {}, weak |-> {}]
    /\ currentwhite = "white0" /\ gcstate = "pause" /\ unswept = {}
    /\ udata = <<>> /\ tmudata = <<>> /\ finalized = {} /\ hasgc = {}
    /\ phase = "open"

Running == phase \in {"open", "finalizer"}    \* Lua code may run
Threads == {th \in Accessible : kind[th] = "thread"}
Loadable == {o \in Accessible \cap alloc : kind[o] # "upval"}   \* what a variable can hold
Values == stack[Main] \cup {Nil}

\* th gets x on its stack: there is no barrier for stacks.
PushOn(th, x) ==
    /\ x \notin stack[th] /\ Cardinality(stack[th]) < MaxStack
    /\ stack' = [stack EXCEPT ![th] = @ \cup {x}]

\* Objects that come to be have the current white and are held by a stack.
Link(S) ==
    /\ Running /\ S \cap alloc = {}
    /\ alloc' = alloc \cup S
    /\ m' = [m EXCEPT !.marked = [o \in All |-> IF o \in S THEN currentwhite ELSE @[o]]]

New(o) ==
    /\ kind[o] \in Tables \cup {"thread", "string"}
    /\ Link({o}) /\ PushOn(Main, o)
    /\ UNCHANGED <<kind, key, val, openOf, udata, hasgc, collector>>

\* luaS_newudata: userdata go into a list of their own.
NewUdata(u) ==
    /\ kind[u] \in Userdata
    /\ Link({u}) /\ PushOn(Main, u)
    /\ udata' = <<u>> \o udata
    /\ UNCHANGED <<kind, key, val, openOf, collector>>

\* newproxy(true); the function that becomes its __gc is a Lua function.
NewProxy(u) ==
    /\ kind[u] = "proxy" /\ NewUdata(u)
    /\ hasgc' = hasgc \cup {u}

\* A string that is in the string table, dead or not, is used again.
Intern(s) ==
    /\ Running /\ kind[s] = "string" /\ s \in alloc
    /\ m' = IF IsDead(s) THEN [m EXCEPT !.marked[s] = currentwhite] ELSE m
    /\ PushOn(Main, s)
    /\ UNCHANGED <<kind, alloc, key, val, openOf, udata, hasgc, collector>>

\* A closure c over a new upvalue for a slot of th that holds v.
CaptureNew(c, uv, th, v) ==
    /\ kind[c] = "closure" /\ kind[uv] = "upval"
    /\ Link({c, uv}) /\ PushOn(th, c)
    /\ val' = [val EXCEPT ![c] = uv, ![uv] = v]
    /\ openOf' = [openOf EXCEPT ![uv] = th]
    /\ UNCHANGED <<kind, key, udata, hasgc, collector>>

\* A closure over an upvalue that is open in th (which may be dead by now) or
\* that another closure has.
CaptureOld(c, uv, th) ==
    /\ kind[c] = "closure" /\ kind[uv] = "upval"
    /\ uv \in OpenIn(th) \/ uv \in Accessible
    /\ c \notin alloc /\ Running
    /\ alloc' = alloc \cup {c}
    /\ PushOn(th, c)
    /\ val' = [val EXCEPT ![c] = uv]
    /\ m' = [m EXCEPT !.marked = [o \in All |-> IF o = c \/ (o = uv /\ IsDead(uv)) THEN currentwhite ELSE @[o]]]
    /\ UNCHANGED <<kind, key, openOf, udata, hasgc, collector>>

Load(th, x) ==
    /\ Running /\ PushOn(th, x)
    /\ UNCHANGED <<kind, alloc, key, val, openOf, udata, hasgc, m, collector>>
Drop(th, x) ==
    /\ Running
    /\ stack' = [stack EXCEPT ![th] = @ \ {x}]
    /\ UNCHANGED <<kind, alloc, key, val, openOf, udata, hasgc, m, collector>>

\* lua_settable, luaH_newkey: barriers for the value and for a new key.  Where
\* both are strong they are alike, and one is enough.
SetTable(t, k, v) ==
    /\ Running /\ kind[t] \in Tables
    /\ kind[t] = "table" \/ v = Nil => k = Nil
    /\ key' = [key EXCEPT ![t] = k]
    /\ val' = [val EXCEPT ![t] = v]
    /\ m' = BarrierBack(BarrierBack(m, t, k), t, v)
    /\ UNCHANGED <<kind, alloc, stack, openOf, udata, hasgc, collector>>

\* OP_SETUPVAL, lua_setupvalue; for a proxy, what its finalizer refers to.
SetHeld(o, v) ==
    /\ Running /\ kind[o] \in {"proxy", "upval"}
    /\ val' = [val EXCEPT ![o] = v]
    /\ m' = BarrierForward(m, o, v)
    /\ UNCHANGED <<kind, alloc, key, stack, openOf, udata, hasgc, collector>>

\* luaC_linkupval: a closed upvalue may be black, so it needs the barrier.
LinkUpval(uv) ==
    IF m.marked[uv] # "gray" THEN m
    ELSE IF gcstate = "propagate"
         THEN BarrierForward([m EXCEPT !.marked[uv] = "black"], uv, val[uv])
         ELSE [m EXCEPT !.marked[uv] = currentwhite]

\* luaF_close: the function whose variable uv is returns.
CloseUpval(uv) ==
    /\ Running /\ uv \in alloc /\ openOf[uv] \in Threads
    /\ openOf' = [openOf EXCEPT ![uv] = Nil]
    /\ IF IsDead(uv)
       THEN /\ alloc' = alloc \ {uv}
            /\ val' = [val EXCEPT ![uv] = Nil]
            /\ m' = m
       ELSE /\ m' = LinkUpval(uv)
            /\ UNCHANGED <<alloc, val>>
    /\ UNCHANGED <<kind, key, stack, udata, hasgc, collector>>

Program ==
    \/ \E o \in Objects : New(o) \/ NewProxy(o) \/ Intern(o) \/ CloseUpval(o)
    \/ \E th \in Threads : \E x \in Loadable : Load(th, x)
    \/ \E th \in Threads : \E x \in stack[th] : Drop(th, x)
    \/ \E c, uv \in Objects, th \in Threads :
           CaptureOld(c, uv, th) \/ \E v \in Values : CaptureNew(c, uv, th, v)
    \/ \E o \in Accessible, v \in Values : SetHeld(o, v)
    \/ \E t \in stack[Main], k, v \in Values : SetTable(t, k, v)

----------------------------------------------------------------------------
(* The collector: the cases of singlestep *)

StartCycle ==
    /\ gcstate = "pause"
    /\ m' = MarkRoot(m.marked)
    /\ gcstate' = "propagate"
    /\ UNCHANGED <<program, currentwhite, unswept, tmudata, finalized, phase>>

PropagateMark(o) ==
    /\ gcstate = "propagate" /\ o \in m.gray
    /\ m' = Traverse(m, {o})
    /\ UNCHANGED <<program, collector>>

\* The list s, which names nothing twice, without what is not in S.
Sublists(s, S) ==
    {q \in [1 .. Cardinality(S) -> S] :
        /\ ToSet(q) = S
        /\ \A i, j \in DOMAIN q : i < j => \E a, b \in DOMAIN s : a < b /\ s[a] = q[i] /\ s[b] = q[j]}

\* Mutant: FINALIZEDBIT is not looked at.
SeparateAgain(all, marked) ==
    {u \in ToSet(udata) : (all \/ marked[u] \in White) /\ u \in hasgc}

\* luaC_separateudata: what gets a finalizer call next.
Separate(all, marked) ==
    {u \in ToSet(udata) : (all \/ marked[u] \in White) /\ u \notin finalized /\ u \in hasgc}

\* Mutant: userdata about to be finalized stay in weak tables.
IsClearedWhite(marked, x, iskey, final) ==
    /\ x # Nil /\ kind[x] # "string"
    /\ marked[x] \in White

\* iscleared: whether x, as a key or as a value, leaves a weak table.
IsCleared(marked, x, iskey, final) ==
    /\ x # Nil /\ kind[x] # "string"
    /\ marked[x] \in White \/ (kind[x] \in Userdata /\ ~iskey /\ x \in final)

\* Mutant: remarkupvals is left out.
RemarkedThreads(L) ==
    LET m2 == PropagateAll(Mark([m EXCEPT !.gray = m.weak, !.weak = {}], {L}))
    IN  PropagateAll([m2 EXCEPT !.gray = m2.grayagain, !.grayagain = {}])

\* remarkupvals, propagateall, the weak tables, the running thread L, and the
\* threads and tables caught by barriers; up to luaC_separateudata.
Remarked(L) ==
    LET m1 == PropagateAll(Mark(m, {val[uv] : uv \in {u \in alloc : openOf[u] # Nil /\ m.marked[u] = "gray"}}))
        m2 == PropagateAll(Mark([m1 EXCEPT !.gray = m1.weak, !.weak = {}], {L}))
    IN  PropagateAll([m2 EXCEPT !.gray = m2.grayagain, !.grayagain = {}])

\* marktmu: the userdata to be finalized, and what they reach, live on.
MarkPreserved(mm, tm) ==
    PropagateAll(Mark([mm EXCEPT !.marked = [o \in All |-> IF o \in tm THEN currentwhite ELSE @[o]]], tm))

\* The objects of the list that sweeplist goes through.
RootList(tm) == {o \in alloc : openOf[o] = Nil} \ tm

Atomic(L) ==
    /\ gcstate = "propagate" /\ m.gray = {}
    /\ LET m1 == Remarked(L)
           separated == Separate(FALSE, m1.marked)
           tm == ToSet(tmudata) \cup separated
           final == finalized \cup {u \in ToSet(udata) : m1.marked[u] \in White}
           m2 == MarkPreserved(m1, tm)
           keyGone(t) == IsCleared(m2.marked, key[t], TRUE, final)
           gone(t) == keyGone(t) \/ IsCleared(m2.marked, val[t], FALSE, final)
           strings == {s \in All : /\ kind[s] = "string"
                                   /\ \E t \in m2.weak : s = key[t] \/ (s = val[t] /\ ~keyGone(t))}
       IN  /\ \E list \in Sublists(udata, separated) : tmudata' = tmudata \o list
           /\ finalized' = final
           /\ udata' \in Sublists(udata, ToSet(udata) \ separated)
           /\ key' = [o \in All |-> IF o \in m2.weak /\ gone(o) THEN Nil ELSE key[o]]
           /\ val' = [o \in All |-> IF o \in m2.weak /\ gone(o) THEN Nil ELSE val[o]]
           /\ m' = [marked |-> [o \in All |-> IF o \in strings THEN "gray" ELSE m2.marked[o]],
                    gray |-> {}, grayagain |-> {}, weak |-> {}]
           /\ unswept' = RootList(tm)
    /\ currentwhite' = OtherWhite
    /\ gcstate' = "sweepstring"
    /\ UNCHANGED <<kind, alloc, stack, openOf, hasgc, phase>>

\* sweeplist over the objects S, with the open upvalues of the threads in it:
\* dead objects are freed, the others get the current white.
Sweep(S) ==
    LET opened == UNION {OpenIn(th) : th \in S}
        dead == {o \in S \cup opened : IsDead(o) /\ o # Main}
        Wiped(f, none) == [o \in All |-> IF o \in dead THEN none ELSE f[o]]
    IN  /\ alloc' = alloc \ dead
        /\ key' = Wiped(key, Nil)
        /\ val' = Wiped(val, Nil)
        /\ stack' = Wiped([o \in All |-> stack[o] \cup ({val[uv] : uv \in dead \cap OpenIn(o)} \ {Nil})], {})
        /\ openOf' = [o \in All |-> IF {o, openOf[o]} \cap dead # {} THEN Nil ELSE openOf[o]]
        /\ udata' \in Sublists(udata, ToSet(udata) \ dead)
        /\ hasgc' = hasgc \ dead
        /\ finalized' = finalized \ dead
        /\ m' = [m EXCEPT !.marked = [o \in All |-> IF o \in S \cup opened THEN currentwhite ELSE @[o]]]
        /\ unswept' = unswept \ S

Strings == {o \in unswept : kind[o] = "string"}

\* One chain of the string table.
SweepString(S) ==
    /\ gcstate = "sweepstring" /\ S \subseteq Strings
    /\ Strings # {} => S # {}
    /\ Sweep(S)
    /\ gcstate' = IF S = Strings THEN "sweep" ELSE gcstate
    /\ UNCHANGED <<kind, currentwhite, tmudata, phase>>

SweepObject(o) ==
    /\ gcstate = "sweep" /\ o \in unswept
    /\ Sweep({o})
    /\ gcstate' = IF unswept = {o} THEN "finalize" ELSE gcstate
    /\ UNCHANGED <<kind, currentwhite, tmudata, phase>>

\* GCTM: back to the userdata list, white, and its finalizer gets called;
\* one written in Lua gets the object on the stack.
GCTM(u) ==
    /\ tmudata # <<>> /\ u = Head(tmudata)
    /\ tmudata' = Tail(tmudata)
    /\ udata' = <<u>> \o udata
    /\ m' = [m EXCEPT !.marked[u] = currentwhite]
    /\ stack' = IF kind[u] = "proxy" THEN [stack EXCEPT ![Main] = @ \cup {u}] ELSE stack
    /\ UNCHANGED <<kind, alloc, key, val, openOf, hasgc, currentwhite, gcstate, unswept, finalized>>

FinalizeOne(u) ==
    /\ phase = "open" /\ gcstate = "finalize"
    /\ GCTM(u) /\ UNCHANGED phase

EndCycle ==
    /\ gcstate = "finalize" /\ tmudata = <<>>
    /\ gcstate' = "pause"
    /\ UNCHANGED <<program, m, currentwhite, unswept, tmudata, finalized, phase>>

\* luaC_fullgc throws the marks of a running cycle away by a sweep in which
\* nothing is dead, and starts to mark with finalizers still to be called.
\* The program could run in between, which it does not in the code.  When
\* nothing is marked (gcstate "pause") the sweep changes nothing.
FullGCSweep ==
    /\ gcstate = "propagate"
    /\ m' = [m EXCEPT !.gray = {}, !.grayagain = {}, !.weak = {}]
    /\ unswept' = RootList(ToSet(tmudata))
    /\ gcstate' = "sweepstring"
    /\ UNCHANGED <<program, currentwhite, tmudata, finalized, phase>>
FullGCMark ==
    /\ gcstate = "finalize"
    /\ m' = MarkRoot(m.marked)
    /\ gcstate' = "propagate"
    /\ UNCHANGED <<program, currentwhite, unswept, tmudata, finalized, phase>>

\* lua_close, up to luaC_separateudata: all userdata get their finalizer called,
\* reachable or not.  The steps CloseUpval stand for its luaF_close.
BeginClose ==
    /\ phase = "open" /\ phase' = "closing" /\ OpenIn(Main) = {}
    /\ \E list \in Sublists(udata, Separate(TRUE, m.marked)) : tmudata' = tmudata \o list
    /\ udata' \in Sublists(udata, ToSet(udata) \ Separate(TRUE, m.marked))
    /\ finalized' = finalized \cup ToSet(udata)
    /\ UNCHANGED <<heap, hasgc, m, currentwhite, gcstate, unswept>>

\* luaC_callGCTM, in whatever state the collector was left.  A finalizer written
\* in Lua runs until the next step; one that fails is not called again.
CallGCTM(u) ==
    /\ phase \in {"closing", "finalizer"}
    /\ GCTM(u)
    /\ phase' = IF kind[u] = "proxy" THEN "finalizer" ELSE "closing"

\* close_state: everything is freed, and no finalizer is called any more.
FreeAll ==
    /\ phase \in {"closing", "finalizer"} /\ tmudata = <<>>
    /\ phase' = "closed"
    /\ alloc' = {Main} /\ stack' = [o \in All |-> {}]
    /\ key' = [o \in All |-> Nil] /\ val' = key' /\ openOf' = key'
    /\ udata' = <<>> /\ tmudata' = <<>> /\ finalized' = {} /\ hasgc' = {} /\ unswept' = {}
    /\ m' = [m EXCEPT !.marked = [o \in All |-> currentwhite], !.gray = {}, !.grayagain = {}, !.weak = {}]
    /\ gcstate' = "pause"
    /\ UNCHANGED <<kind, currentwhite>>

\* The finalizers that lua_close calls run without steps of the collector: GCTM
\* raises the threshold to keep them off.
SingleStep ==
    /\ phase = "open"
    /\ \/ StartCycle
       \/ \E o \in All : PropagateMark(o)
       \/ \E L \in Threads : Atomic(L)
       \/ \E S \in SUBSET Objects : SweepString(S)
       \/ \E o \in All : SweepObject(o)
       \/ EndCycle
       \/ FullGCSweep
       \/ FullGCMark

----------------------------------------------------------------------------
(* Properties *)

\* Safety of the collector, until lua_close: what the program can get at, now or in a
\* finalizer that is to be called, is allocated, and no sweep is about to free it
\* (freeobj; isdead).
Safe ==
    phase = "open" => \A o \in Accessible \cup ToSet(tmudata) : o \in alloc /\ ~IsDead(o)

\* While marking goes on, no traversed object refers to one that is not marked
\* yet, whatever the program stores meanwhile (luaC_barrierf, luaC_barrierback,
\* luaC_linkupval).  Userdata that wait for their finalizer are marked by marktmu.
\* In lua_close GCTM whitens userdata in the middle of marking, which then ends.
TriColour ==
    phase = "open" /\ gcstate = "propagate" => \A o \in alloc \ ToSet(tmudata) :
        m.marked[o] = "black" => \A x \in Children(o) : m.marked[x] \notin White
====
