--------------------------- MODULE MonitorsProofs ---------------------------
(***************************************************************************)
(* For any number of threads and states and any depth of nesting: Java     *)
(* code called from one state is serialised, without toThread; so is Lua   *)
(* code, without doFile and more LuaStates over one Lua state; and threads *)
(* that use one state at a time, by one LuaState, and do not join each     *)
(* other never wait in a ring.                                             *)
(*                                                                         *)
(* The argument: a thread waits with its innermost call only (Waiting), no *)
(* two hold one monitor (Exclusive), and who holds the factory is not      *)
(* blocked: what it calls is its end or a LuaState that nobody knows yet   *)
(* (Making).  So a ring is one of LuaStates, and a thread in it would hold *)
(* one and wait for another one (Alike).  Callbacks find the LuaState that *)
(* newLuaState made, as every address of newThread is in the list (Wraps). *)
(***************************************************************************)
EXTENDS Monitors, SequenceTheorems, TLAPS

Calls_(th) == 1 .. Len(frames[th])

\* A call that has called another one has been entered.
Waiting == \A th \in Threads : \A i \in Calls_(th) : i < Len(frames[th]) => frames[th][i].held

\* The application makes more than one LuaState over a Lua state.
Wrapping == uses \cap {"newThread", "toThread"} # {}
WrapOps == {"thread", "insert", "reopen"}

\* Which monitor each method takes.
MonitorOf(f) ==
    /\ f.op = "lua" => \/ f.monitor = f.about
                       \/ f.monitor = ClassLuaState /\ "doFile" \in uses
                       \/ f.monitor \in Wrappers /\ Wrapping
    /\ f.op = "java" => \/ f.monitor = f.about
                        \/ f.monitor \in LuaStates /\ "toThread" \in uses
    /\ f.op \in {"open", "close", "reopen"} => f.monitor = f.about
    /\ f.op = "thread" => f.monitor \in LuaStates
    /\ f.op \in {"lookup", "new", "remove", "insert"} => f.monitor = Factory
    /\ f.op \in {"function", "join"} => f.monitor = NoMonitor
    /\ f.op = "function" => f.held
    /\ f.op = "join" => "join" \in uses
    /\ f.op \in WrapOps => f.about \in Wrappers /\ Wrapping
    /\ f.op \notin WrapOps \cup {"join"} => f.about \in States
Methods == \A th \in Threads : \A i \in Calls_(th) : MonitorOf(frames[th][i])

\* Which call can be where; those of Leaf call nothing.
Leaf == {"lookup", "remove", "open", "join"} \cup WrapOps
Place(calls, i) ==
    LET f == calls[i]
        n == Len(calls)
    IN  /\ f.op \in Leaf => i = n
        /\ f.op = "new" => i = 1 /\ (n > 1 => n = 2 /\ calls[2].op = "open")
        /\ f.op = "open" => i = 2 /\ calls[1].op = "new" /\ calls[1].about = f.about
        /\ f.op \in {"lookup", "java", "function"} =>
              i > 1 /\ calls[i - 1].op = "lua" /\ calls[i - 1].about = f.about
Places == \A th \in Threads : \A i \in Calls_(th) : Place(frames[th], i)

\* A monitor has one owner.
Exclusive == \A th, u \in Threads : \A i \in Calls_(th), j \in Calls_(u) :
    /\ frames[th][i].held /\ frames[u][j].held
    /\ frames[th][i].monitor = frames[u][j].monitor
    /\ frames[th][i].monitor # NoMonitor
    => th = u

\* Nobody else is about a state that is being constructed.
Making == \A th \in Threads : \A i \in Calls_(th) : frames[th][i].op = "new" =>
    /\ state[frames[th][i].about] \in {"unborn", "built"}
    /\ \A u \in Threads \ {th} : \A j \in Calls_(u) : frames[u][j].about # frames[th][i].about

\* The applications whose threads use one state each, by its one LuaState,
\* and wait for none.
Modest == uses \subseteq {"hasty close"}

\* A thread of theirs uses one state at a time.
Alike == Modest => \A th \in Threads : \A i, j \in Calls_(th) :
    frames[th][i].op # "join" /\ frames[th][j].op # "join" => frames[th][i].about = frames[th][j].about

\* A LuaState wraps a Lua state, in which callbacks find, but for toThread, the
\* LuaState that newLuaState made.
Wraps ==
    /\ over \in [LuaStates -> States \cup {Nowhere}]
    /\ entry \in [LuaStates -> LuaStates]
    /\ found \in [States -> LuaStates]
    /\ \A s \in States : over[s] = s
    /\ \A w \in Wrappers : state[w] # "unborn" =>
           Wrapping /\ over[w] \in States /\ state[over[w]] \in {"open", "closed"}
    /\ "toThread" \notin uses =>
           /\ \A s \in States : found[s] = s /\ entry[s] = s
           /\ \A w \in Wrappers : state[w] # "unborn" => entry[w] = over[w]

IInv == /\ TypeOK /\ Waiting /\ Methods /\ Places /\ Exclusive
        /\ Making /\ Alike /\ Wraps

-----------------------------------------------------------------------------
(* What a step does to the calls of a thread, call by call. *)

Call == [op : Ops, monitor : Monitor, about : LuaStates \cup Threads, held : BOOLEAN]

OthersStay(th) == \A u \in Threads \ {th} : frames'[u] = frames[u]

Pushed(th, f) ==
    /\ OthersStay(th)
    /\ Len(frames'[th]) = Len(frames[th]) + 1
    /\ \A i \in Calls_(th) : frames'[th][i] = frames[th][i]
    /\ frames'[th][Len(frames[th]) + 1] = f

Replaced(th, f) ==
    /\ OthersStay(th)
    /\ Len(frames'[th]) = Len(frames[th])
    /\ \A i \in Calls_(th) : frames'[th][i] = IF i = Len(frames[th]) THEN f ELSE frames[th][i]

Popped(th) ==
    /\ OthersStay(th)
    /\ Len(frames'[th]) = Len(frames[th]) - 1
    /\ \A i \in 1 .. Len(frames[th]) - 1 : frames'[th][i] = frames[th][i]

LEMMA InnerCall ==
    ASSUME TypeOK, NEW th \in Threads, frames[th] # <<>>
    PROVE  /\ Len(frames[th]) \in Nat \ {0} /\ Len(frames[th]) \in Calls_(th)
           /\ Inner(th) = frames[th][Len(frames[th])] /\ Inner(th) \in Call
<1>1. frames[th] \in Seq(Call)
  BY DEF TypeOK, Call
<1> QED
  BY <1>1, LenProperties, EmptySeq DEF Inner, Calls_

(* The calls of a thread without the innermost. *)
LEMMA OuterCalls ==
    ASSUME TypeOK, NEW th \in Threads, frames[th] # <<>>
    PROVE  /\ Outer(th) \in Seq(Call)
           /\ Len(Outer(th)) = Len(frames[th]) - 1
           /\ \A i \in 1 .. Len(frames[th]) - 1 : Outer(th)[i] = frames[th][i]
<1>1. frames[th] \in Seq(Call)
  BY DEF TypeOK, Call
<1>2. Len(frames[th]) \in Nat \ {0}
  BY InnerCall
<1>3. \A i \in 1 .. Len(frames[th]) - 1 : frames[th][i] \in Call
  BY <1>1, <1>2
<1> QED
  BY <1>1, <1>2, <1>3, SubSeqProperties DEF Outer

LEMMA CallsPushes ==
    ASSUME TypeOK, NEW th \in Threads, NEW f \in Call, Calls(th, f)
    PROVE  Pushed(th, f) /\ frames' \in [Threads -> Seq(Call)]
<1>1. frames[th] \in Seq(Call) /\ frames \in [Threads -> Seq(Call)]
  BY DEF TypeOK, Call
<1>2. /\ Append(frames[th], f) \in Seq(Call)
      /\ Len(Append(frames[th], f)) = Len(frames[th]) + 1
      /\ \A i \in Calls_(th) : Append(frames[th], f)[i] = frames[th][i]
      /\ Append(frames[th], f)[Len(frames[th]) + 1] = f
  BY <1>1, AppendProperties, LenProperties DEF Calls_
<1>3. frames' = [frames EXCEPT ![th] = Append(frames[th], f)]
  BY DEF Calls
<1> QED
  BY <1>1, <1>2, <1>3 DEF Pushed, OthersStay

LEMMA BecomesReplaces ==
    ASSUME TypeOK, NEW th \in Threads, frames[th] # <<>>, NEW f \in Call, Becomes(th, f)
    PROVE  Replaced(th, f) /\ frames' \in [Threads -> Seq(Call)]
<1>1. frames \in [Threads -> Seq(Call)] /\ Len(frames[th]) \in Nat \ {0}
  BY InnerCall DEF TypeOK, Call
<1> DEFINE s == Append(Outer(th), f)
<1>2. /\ s \in Seq(Call) /\ Len(s) = Len(frames[th])
      /\ \A i \in 1 .. Len(frames[th]) - 1 : s[i] = frames[th][i]
      /\ s[Len(frames[th])] = f
  BY <1>1, OuterCalls, AppendProperties
<1>3. frames' = [frames EXCEPT ![th] = s]
  BY DEF Becomes
<1> HIDE DEF s
<1> QED
  BY <1>1, <1>2, <1>3 DEF Replaced, OthersStay, Calls_

LEMMA OuterPops ==
    ASSUME TypeOK, NEW th \in Threads, frames[th] # <<>>,
           frames' = [frames EXCEPT ![th] = Outer(th)]
    PROVE  Popped(th) /\ frames' \in [Threads -> Seq(Call)]
<1>1. frames \in [Threads -> Seq(Call)]
  BY DEF TypeOK, Call
<1> QED
  BY <1>1, OuterCalls DEF Popped, OthersStay

-----------------------------------------------------------------------------
(* Calls, changes and returns keep the shape of the frames.  What differs   *)
(* from one to the other is said by the hypotheses.                         *)

\* f may be called by what th is in.
Fits(th, f) ==
    LET n == Len(frames[th])
    IN  /\ f.op = "new" => n = 0
        /\ f.op = "open" => n = 1 /\ frames[th][1].op = "new" /\ frames[th][1].about = f.about
        /\ f.op \in {"lookup", "java", "function"} =>
              n > 0 /\ frames[th][n].op = "lua" /\ frames[th][n].about = f.about
        /\ n > 0 => /\ frames[th][n].held
                    /\ frames[th][n].op \notin Leaf
                    /\ frames[th][n].op = "new" => f.op = "open"

LEMMA PushShape ==
    ASSUME IInv, NEW th \in Threads, NEW n, n = Len(frames[th]),
           NEW f \in Call, Pushed(th, f), uses' = uses, MonitorOf(f), Fits(th, f), f.held => f.monitor = NoMonitor
    PROVE  Waiting' /\ Methods' /\ Places' /\ Exclusive'
<1>0. n \in Nat
  <2>1. frames[th] \in Seq(Call)
    BY DEF IInv, TypeOK, Call
  <2> QED
    BY <2>1, LenProperties
<1>1. \A u \in Threads : u # th => frames'[u] = frames[u]
  BY DEF Pushed, OthersStay
<1>2. /\ Len(frames'[th]) = n + 1
      /\ \A i \in 1 .. n : frames'[th][i] = frames[th][i]
      /\ frames'[th][n + 1] = f
  BY DEF Pushed, Calls_
<1>3. Waiting'
  <2>1. \A i \in 1 .. n : frames[th][i].held
    BY <1>0 DEF IInv, Waiting, Calls_, Fits
  <2>2. \A i \in 1 .. n + 1 : i < n + 1 => frames'[th][i].held
    BY <1>0, <1>2, <2>1
  <2> QED
    BY <1>0, <1>1, <1>2, <2>2 DEF IInv, Waiting, Calls_
<1>4. Methods'
  <2>1. \A i \in 1 .. n + 1 : MonitorOf(frames'[th][i])
    BY <1>0, <1>2 DEF IInv, Methods, Calls_
  <2>2. \A g : MonitorOf(g) => MonitorOf(g)'
    BY DEF MonitorOf, WrapOps, Wrapping
  <2> QED
    BY <1>1, <1>2, <2>1, <2>2 DEF IInv, Methods, Calls_, MonitorOf, WrapOps
<1>5. Places'
  <2>1. ASSUME NEW i \in 1 .. n PROVE Place(frames'[th], i)
    <3>1. Place(frames[th], i) /\ frames'[th][i] = frames[th][i]
      BY <1>2, <2>1 DEF IInv, Places, Calls_
    <3>2. i # n => i - 1 \in Int /\ frames[th][n].op \notin Leaf
      BY <1>0 DEF Leaf, WrapOps, Fits
    <3>3. i > 1 => frames'[th][i - 1] = frames[th][i - 1]
      BY <1>0, <1>2
    <3>4. frames'[th][1] = frames[th][1]
      BY <1>0, <1>2
    <3>5. frames[th][i].op \notin Leaf
      BY <1>0, <3>1 DEF Leaf, WrapOps, Fits, Place
    <3>6. frames[th][i].op = "new" => n = 1 /\ f.op = "open"
      <4>1. n # 1 => frames[th][i].op # "new"
        BY <1>0, <3>1 DEF Leaf, WrapOps, Fits, Place
      <4> QED
        BY <1>0, <4>1, <3>1 DEF Leaf, WrapOps, Fits, Place
    <3> QED
      BY <1>0, <1>2, <3>1, <3>3, <3>4, <3>5, <3>6 DEF Leaf, WrapOps, Place
  <2>2. Place(frames'[th], n + 1)
    BY <1>0, <1>2 DEF Leaf, WrapOps, Fits, Place
  <2>3. \A i \in 1 .. n + 1 : Place(frames'[th], i)
    BY <1>0, <2>1, <2>2
  <2> SUFFICES ASSUME NEW u \in Threads, NEW i \in 1 .. Len(frames'[u])
               PROVE  Place(frames'[u], i)
    BY DEF Leaf, WrapOps, Places, Calls_
  <2>8. CASE u = th
    BY <1>2, <2>3, <2>8
  <2>9. CASE u # th
    <3>1. frames'[u] = frames[u] /\ i \in Calls_(u)
      BY <1>1, <2>9 DEF Calls_
    <3> QED
      BY <3>1 DEF IInv, Places
  <2> QED
    BY <2>8, <2>9
<1>6. Exclusive'
  <2>1. ASSUME NEW u \in Threads, NEW i \in 1 .. Len(frames'[u]),
               frames'[u][i].held, frames'[u][i].monitor # NoMonitor
        PROVE  i \in 1 .. Len(frames[u]) /\ frames'[u][i] = frames[u][i]
    BY <1>0, <1>1, <1>2, <2>1
  <2>2. SUFFICES ASSUME NEW u \in Threads, NEW v \in Threads,
                        NEW i \in 1 .. Len(frames'[u]), NEW j \in 1 .. Len(frames'[v]),
                        frames'[u][i].held, frames'[v][j].held,
                        frames'[u][i].monitor = frames'[v][j].monitor,
                        frames'[u][i].monitor # NoMonitor
                 PROVE  u = v
    BY DEF Exclusive, Calls_
  <2>3. /\ i \in 1 .. Len(frames[u]) /\ frames'[u][i] = frames[u][i]
        /\ j \in 1 .. Len(frames[v]) /\ frames'[v][j] = frames[v][j]
    BY <2>1, <2>2
  <2>4. Exclusive
    BY DEF IInv
  <2> QED
    BY <2>2, <2>3, <2>4 DEF Exclusive, Calls_
<1> QED
  BY <1>3, <1>4, <1>5, <1>6

LEMMA PopShape ==
    ASSUME IInv, NEW th \in Threads, frames[th] # <<>>, NEW n, n = Len(frames[th]),
           Popped(th), uses' = uses
    PROVE  Waiting' /\ Methods' /\ Places' /\ Exclusive' /\ Alike'
<1>0. n \in Nat \ {0}
  BY InnerCall DEF IInv
<1>1. \A u \in Threads : u # th => frames'[u] = frames[u]
  BY DEF Popped, OthersStay
<1>2. /\ Len(frames'[th]) = n - 1
      /\ \A i \in 1 .. n - 1 : frames'[th][i] = frames[th][i]
  BY DEF Popped
<1>3. Waiting'
  BY <1>0, <1>1, <1>2 DEF IInv, Waiting, Calls_
<1>4. Methods'
  BY <1>0, <1>1, <1>2 DEF IInv, Methods, Calls_, MonitorOf, WrapOps, Wrapping
<1>5. Places'
  <2>1. ASSUME NEW i \in 1 .. n - 1 PROVE Place(frames'[th], i)
    <3>0. i \in 1 .. Len(frames[th])
      BY <1>0
    <3>1. Place(frames[th], i) /\ frames'[th][i] = frames[th][i]
      <4>1. Place(frames[th], i)
        BY <3>0 DEF IInv, Places, Calls_
      <4>2. frames'[th][i] = frames[th][i]
        BY <1>2
      <4> QED BY <4>1, <4>2
    <3>2. i > 1 => frames'[th][i - 1] = frames[th][i - 1]
      BY <1>0, <1>2
    <3>3. frames'[th][1] = frames[th][1]
      BY <1>0, <1>2
    <3>4. frames[th][i].op \notin Leaf
      BY <1>0, <3>1 DEF Leaf, WrapOps, Place
    <3>5. frames[th][i].op = "new" => i = 1 /\ n = 2
      BY <1>0, <3>1 DEF Leaf, WrapOps, Place
    <3>6. frames[th][i].op \in {"java", "function"} =>
              i > 1 /\ frames[th][i - 1].op = "lua" /\ frames[th][i - 1].about = frames[th][i].about
      BY <3>1 DEF Leaf, WrapOps, Place
    <3>7. frames'[th][i].op = "new" => i = 1 /\ Len(frames'[th]) = 1
      BY <1>0, <1>2, <3>1, <3>5
    <3>8. frames'[th][i].op \in {"java", "function"} =>
              i > 1 /\ frames'[th][i - 1].op = "lua" /\ frames'[th][i - 1].about = frames'[th][i].about
      BY <3>1, <3>2, <3>6
    <3>9. frames'[th][i].op \notin Leaf
      BY <3>1, <3>4
    <3>10. frames'[th][i].op \notin {"lookup", "open"}
      BY <3>9 DEF Leaf
    <3> QED
      BY <3>7, <3>8, <3>9, <3>10 DEF Place
  <2> SUFFICES ASSUME NEW u \in Threads, NEW i \in 1 .. Len(frames'[u])
               PROVE  Place(frames'[u], i)
    BY DEF Leaf, WrapOps, Places, Calls_
  <2>8. CASE u = th
    BY <1>2, <2>1, <2>8
  <2>9. CASE u # th
    <3>1. frames'[u] = frames[u] /\ i \in Calls_(u)
      BY <1>1, <2>9 DEF Calls_
    <3> QED
      BY <3>1 DEF IInv, Places
  <2> QED
    BY <2>8, <2>9
<1>6. \A u \in Threads : \A i \in 1 .. Len(frames'[u]) :
          i \in 1 .. Len(frames[u]) /\ frames'[u][i] = frames[u][i]
  BY <1>0, <1>1, <1>2
<1>7. Exclusive'
  <2>1. SUFFICES ASSUME NEW u \in Threads, NEW v \in Threads,
                        NEW i \in 1 .. Len(frames'[u]), NEW j \in 1 .. Len(frames'[v]),
                        frames'[u][i].held, frames'[v][j].held,
                        frames'[u][i].monitor = frames'[v][j].monitor,
                        frames'[u][i].monitor # NoMonitor
                 PROVE  u = v
    BY DEF Exclusive, Calls_
  <2>2. /\ i \in 1 .. Len(frames[u]) /\ frames'[u][i] = frames[u][i]
        /\ j \in 1 .. Len(frames[v]) /\ frames'[v][j] = frames[v][j]
    BY <1>6
  <2>3. Exclusive
    BY DEF IInv
  <2> QED
    BY <2>1, <2>2, <2>3 DEF Exclusive, Calls_
<1>8. Alike'
  <2>1. SUFFICES ASSUME Modest, NEW u \in Threads,
                        NEW i \in 1 .. Len(frames'[u]), NEW j \in 1 .. Len(frames'[u]),
                        frames'[u][i].op # "join", frames'[u][j].op # "join"
                 PROVE  frames'[u][i].about = frames'[u][j].about
    BY DEF Alike, Modest, Calls_
  <2> QED
    BY <1>6, <2>1 DEF IInv, Alike, Calls_
<1> QED
  BY <1>3, <1>4, <1>5, <1>7, <1>8

\* g may take the place of the call that th is in.
Replaces(th, g) ==
    LET f == frames[th][Len(frames[th])]
    IN  /\ g.about = f.about
        /\ \/ g.op = f.op
           \/ f.op = "lookup" /\ g.op = "java"
           \/ {f.op, g.op} \subseteq WrapOps
        /\ g.held /\ g.monitor # NoMonitor => \A u \in Threads \ {th} : ~Holds(u, g.monitor)

LEMMA ReplaceShape ==
    ASSUME IInv, NEW th \in Threads, frames[th] # <<>>, NEW n, n = Len(frames[th]),
           NEW g \in Call, Replaced(th, g), uses' = uses, MonitorOf(g), Replaces(th, g)
    PROVE  Waiting' /\ Methods' /\ Places' /\ Exclusive' /\ Alike'
<1>0. n \in Nat \ {0} /\ n \in Calls_(th)
  BY InnerCall DEF IInv
<1>1. \A u \in Threads : u # th => frames'[u] = frames[u]
  BY DEF Replaced, OthersStay
<1>2. /\ Len(frames'[th]) = n
      /\ \A i \in 1 .. n - 1 : frames'[th][i] = frames[th][i]
      /\ frames'[th][n] = g
  BY <1>0 DEF Replaced, Calls_
<1>3. /\ g.about = frames[th][n].about
      /\ \/ g.op = frames[th][n].op
         \/ frames[th][n].op = "lookup" /\ g.op = "java"
         \/ {frames[th][n].op, g.op} \subseteq WrapOps
  BY DEF Replaces
<1>4. Waiting'
  BY <1>0, <1>1, <1>2 DEF IInv, Waiting, Calls_
<1>5. Methods'
  <2>1. \A i \in 1 .. n : MonitorOf(frames'[th][i])
    BY <1>0, <1>2 DEF IInv, Methods, Calls_
  <2> QED
    BY <1>1, <1>2, <2>1 DEF IInv, Methods, Calls_, MonitorOf, WrapOps, Wrapping
<1>6. Places'
  <2>1. ASSUME NEW i \in 1 .. n PROVE Place(frames'[th], i)
    <3>1. Place(frames[th], i)
      BY DEF IInv, Places, Calls_
    <3>2. frames'[th][i].about = frames[th][i].about
      BY <1>0, <1>2, <1>3
    <3>3. i < n => frames'[th][i] = frames[th][i]
      BY <1>0, <1>2
    <3>4. i > 1 => frames'[th][i - 1] = frames[th][i - 1]
      BY <1>0, <1>2
    <3>5. i < n => frames[th][i].op \notin Leaf
      BY <1>0, <3>1 DEF Leaf, WrapOps, Place
    <3>6. frames'[th][i].op = "new" => frames[th][i].op = "new"
      BY <1>0, <1>2, <1>3, <3>3 DEF WrapOps
    <3>7. frames[th][i].op = "new" => i = 1 /\ (n > 1 => n = 2 /\ frames'[th][2].op = "open")
      BY <1>0, <1>2, <1>3, <3>1 DEF Leaf, WrapOps, Place
    <3>8. frames'[th][i].op = "open" =>
              i = 2 /\ frames'[th][1].op = "new" /\ frames'[th][1].about = frames'[th][i].about
      <4>0. frames'[th][i].op = "open" => frames[th][i].op = "open"
        BY <1>0, <1>2, <1>3, <3>3 DEF WrapOps
      <4>1. frames'[th][i].op = "open" => i = n /\ frames[th][i].op = "open"
        BY <1>0, <4>0, <3>5 DEF Leaf
      <4>2. frames[th][i].op = "open" => /\ i = 2 /\ frames[th][1].op = "new"
                                        /\ frames[th][1].about = frames[th][i].about
        BY <3>1 DEF Leaf, WrapOps, Place
      <4> QED
        BY <4>1, <4>2, <3>2, <3>4
    <3>9. frames'[th][i].op \in {"lookup", "java", "function"} =>
              /\ i > 1 /\ frames'[th][i - 1].op = "lua"
              /\ frames'[th][i - 1].about = frames'[th][i].about
      <4>1. frames'[th][i].op \in {"lookup", "java", "function"} =>
                frames[th][i].op \in {"lookup", "java", "function"}
        BY <1>0, <1>2, <1>3, <3>3 DEF WrapOps
      <4>2. frames[th][i].op \in {"lookup", "java", "function"} =>
                /\ i > 1 /\ frames[th][i - 1].op = "lua"
                /\ frames[th][i - 1].about = frames[th][i].about
        BY <3>1 DEF Leaf, WrapOps, Place
      <4> QED
        BY <4>1, <4>2, <3>2, <3>4
    <3>10. frames'[th][i].op \in Leaf => i = n
      BY <1>0, <3>3, <3>5
    <3> QED
      BY <1>2, <3>6, <3>7, <3>8, <3>9, <3>10 DEF Leaf, WrapOps, Place
  <2> SUFFICES ASSUME NEW u \in Threads, NEW i \in 1 .. Len(frames'[u])
               PROVE  Place(frames'[u], i)
    BY DEF Leaf, WrapOps, Places, Calls_
  <2>8. CASE u = th
    BY <1>2, <2>1, <2>8
  <2>9. CASE u # th
    <3>1. frames'[u] = frames[u] /\ i \in Calls_(u)
      BY <1>1, <2>9 DEF Calls_
    <3> QED
      BY <3>1 DEF IInv, Places
  <2> QED
    BY <2>8, <2>9
<1>7. Exclusive'
  <2>1. ASSUME NEW u \in Threads, NEW i \in 1 .. Len(frames'[u]), u # th \/ i # n
        PROVE  i \in Calls_(u) /\ frames'[u][i] = frames[u][i]
    BY <1>0, <1>1, <1>2, <2>1 DEF Calls_
  <2>2. ASSUME NEW u \in Threads, u # th, NEW i \in 1 .. Len(frames'[u]),
               frames'[u][i].held, g.held, g.monitor # NoMonitor
        PROVE  frames'[u][i].monitor # g.monitor
    BY <2>1, <2>2 DEF Replaces, Holds, Calls_
  <2>3. SUFFICES ASSUME NEW u \in Threads, NEW v \in Threads, u # v,
                        NEW i \in 1 .. Len(frames'[u]), NEW j \in 1 .. Len(frames'[v]),
                        frames'[u][i].held, frames'[v][j].held,
                        frames'[u][i].monitor = frames'[v][j].monitor,
                        frames'[u][i].monitor # NoMonitor
                 PROVE  FALSE
    BY DEF Exclusive, Calls_
  <2>4. CASE u = th /\ i = n
    BY <1>2, <2>2, <2>3, <2>4
  <2>5. CASE v = th /\ j = n
    BY <1>2, <2>2, <2>3, <2>5
  <2>6. CASE (u # th \/ i # n) /\ (v # th \/ j # n)
    <3>1. /\ i \in Calls_(u) /\ frames'[u][i] = frames[u][i]
          /\ j \in Calls_(v) /\ frames'[v][j] = frames[v][j]
      BY <2>1, <2>6
    <3>2. Exclusive
      BY DEF IInv
    <3> QED
      BY <2>3, <3>1, <3>2 DEF Exclusive
  <2> QED
    BY <2>4, <2>5, <2>6
<1>8. Alike'
  <2>1. ASSUME NEW u \in Threads, NEW i \in 1 .. Len(frames'[u])
        PROVE  /\ i \in Calls_(u) /\ frames'[u][i].about = frames[u][i].about
               /\ frames'[u][i].op = "join" <=> frames[u][i].op = "join"
    <3>1. CASE u = th /\ i = n
      BY <1>0, <1>2, <1>3, <3>1 DEF WrapOps
    <3>2. CASE u # th \/ i # n
      BY <1>0, <1>1, <1>2, <3>2 DEF Calls_
    <3> QED
      BY <3>1, <3>2
  <2>2. SUFFICES ASSUME Modest, NEW u \in Threads,
                        NEW i \in 1 .. Len(frames'[u]), NEW j \in 1 .. Len(frames'[u]),
                        frames'[u][i].op # "join", frames'[u][j].op # "join"
                 PROVE  frames'[u][i].about = frames'[u][j].about
    BY DEF Alike, Modest, Calls_
  <2>3. Alike
    BY DEF IInv
  <2> QED
    BY <2>1, <2>2, <2>3 DEF Alike
<1> QED
  BY <1>4, <1>5, <1>6, <1>7, <1>8

-----------------------------------------------------------------------------
(* A LuaState that is being constructed stays unknown to other threads.    *)

\* A step of th leaves a state that is being made so, or publishes one that
\* no call of newLuaState is about any more.
StaysUnborn ==
    \A s \in States :
        \/ state'[s] \in {"unborn", "built"}
        \/ state[s] \notin {"unborn", "built"}
        \/ \A u \in Threads : \A i \in 1 .. Len(frames'[u]) :
               frames'[u][i].op = "new" => frames'[u][i].about # s

\* A call of th that may be there: as one before, about a state that is known,
\* or of newLuaState for a state that nobody is about.
Familiar(th, g) ==
    \/ \E k \in Calls_(th) : frames[th][k].about = g.about
                             /\ (g.op = "new" => frames[th][k].op = "new")
    \/ g.op # "new" /\ g.about \in Threads \cup Wrappers
    \/ g.op # "new" /\ g.about \in States /\ state[g.about] \notin {"unborn", "built"}
    \/ /\ g.op = "new" /\ g.about \in States /\ state[g.about] = "unborn"
       /\ \A u \in Threads : \A j \in Calls_(u) : frames[u][j].about # g.about

LEMMA MakingStays ==
    ASSUME IInv, NEW th \in Threads, OthersStay(th), StaysUnborn,
           \A i \in 1 .. Len(frames'[th]) : Familiar(th, frames'[th][i])
    PROVE  Making'
<1>1. \A u \in Threads : u # th => frames'[u] = frames[u]
  BY DEF OthersStay
<1>2. Making
  BY DEF IInv
<1>3. \A u \in Threads : \A i \in Calls_(u) : frames[u][i].op = "new" => frames[u][i].about \in States
  BY DEF IInv, Methods, MonitorOf, WrapOps
<1>4. ASSUME NEW u \in Threads, NEW i \in 1 .. Len(frames'[u]), frames'[u][i].op = "new"
      PROVE  LET s == frames'[u][i].about
             IN  s \in States /\ state[s] \in {"unborn", "built"}
  <2>1. CASE u = th
    <3>1. Familiar(th, frames'[th][i])
      BY <1>4, <2>1
    <3> QED
      BY <1>2, <1>3, <1>4, <2>1, <3>1 DEF Familiar, Making
  <2>2. CASE u # th
    BY <1>1, <1>2, <1>3, <1>4, <2>2 DEF Making, Calls_
  <2> QED
    BY <2>1, <2>2
<1>5. ASSUME NEW u \in Threads, NEW i \in 1 .. Len(frames'[u]), frames'[u][i].op = "new"
      PROVE  state'[frames'[u][i].about] \in {"unborn", "built"}
  BY <1>4, <1>5 DEF StaysUnborn
<1>6. ASSUME NEW u \in Threads, NEW i \in 1 .. Len(frames'[u]), frames'[u][i].op = "new",
             NEW v \in Threads, v # u, NEW j \in 1 .. Len(frames'[v])
      PROVE  frames'[v][j].about # frames'[u][i].about
  <2>1. CASE u = th
    <3>1. Familiar(th, frames'[th][i]) /\ frames'[v] = frames[v] /\ j \in Calls_(v)
      BY <1>1, <1>6, <2>1 DEF Calls_
    <3> QED
      BY <1>2, <1>6, <2>1, <3>1, ObjectsAssumption DEF Familiar, Making
  <2>2. CASE v = th
    <3>1. Familiar(th, frames'[th][j]) /\ frames'[u] = frames[u] /\ i \in Calls_(u)
      BY <1>1, <1>6, <2>2 DEF Calls_
    <3>2. /\ frames[u][i].about \in States /\ state[frames[u][i].about] \in {"unborn", "built"}
          /\ \A k \in Calls_(th) : frames[th][k].about # frames[u][i].about
      BY <1>2, <1>3, <1>6, <2>2, <3>1 DEF Making
    <3> SUFFICES ASSUME frames'[th][j].about = frames[u][i].about PROVE FALSE
      BY <1>6, <2>2, <3>1
    <3> DEFINE g == frames'[th][j]
    <3>3. g.about \notin Threads \cup Wrappers
      BY <3>2, ObjectsAssumption DEF LuaStates
    <3>4. ~(\E k \in Calls_(th) : frames[th][k].about = g.about)
      BY <3>2
    <3>5. ~(\A v1 \in Threads : \A k \in Calls_(v1) : frames[v1][k].about # g.about)
      BY <3>1
    <3>6. state[g.about] \in {"unborn", "built"}
      BY <3>2
    <3> QED
      BY <3>1, <3>3, <3>4, <3>5, <3>6 DEF Familiar
  <2>3. CASE u # th /\ v # th
    <3>1. /\ frames'[u] = frames[u] /\ i \in Calls_(u)
          /\ frames'[v] = frames[v] /\ j \in Calls_(v)
      BY <1>1, <2>3 DEF Calls_
    <3> QED
      BY <1>2, <1>6, <3>1 DEF Making
  <2> QED
    BY <2>1, <2>2, <2>3
<1> QED
  BY <1>5, <1>6 DEF Making, Calls_

-----------------------------------------------------------------------------
(* A call, a change of the innermost call and a return keep IInv.          *)

StateType == state' \in [LuaStates -> {"unborn", "built", "open", "closed",
                                      "newThread", "toThread", "reopened"}]

LEMMA SameWraps ==
    ASSUME IInv, uses' = uses, UNCHANGED wraps,
           \A w \in Wrappers : state'[w] = state[w],
           \A s \in States : state[s] \in {"open", "closed"} => state'[s] \in {"open", "closed"}
    PROVE  Wraps'
BY DEF IInv, Wraps, wraps, Wrapping

LEMMA PushInv ==
    ASSUME IInv, NEW th \in Threads, NEW f \in Call, Calls(th, f),
           uses' = uses, life' = life, life[th] = "running", StateType, Wraps',
           MonitorOf(f), Fits(th, f), f.held => f.monitor = NoMonitor, Familiar(th, f),
           \A s \in States : state'[s] \in {"unborn", "built"} \/ state[s] \notin {"unborn", "built"},
           Modest /\ f.op # "join" =>
               \A i \in Calls_(th) : frames[th][i].op # "join" => frames[th][i].about = f.about
    PROVE  IInv'
<1>1. Pushed(th, f) /\ frames' \in [Threads -> Seq(Call)] /\ Len(frames[th]) \in Nat
  <2>1. TypeOK /\ frames[th] \in Seq(Call)
    BY DEF IInv, TypeOK, Call
  <2> QED
    BY <2>1, CallsPushes, LenProperties
<1>2. Waiting' /\ Methods' /\ Places' /\ Exclusive'
  BY <1>1, PushShape
<1>3. TypeOK'
  <2>1. \A u \in Threads : life[u] # "running" => frames'[u] = <<>>
    BY <1>1 DEF IInv, TypeOK, Pushed, OthersStay
  <2> QED
    BY <1>1, <2>1 DEF IInv, TypeOK, Wraps, StateType, Call
<1>4. Making'
  <2>1. StaysUnborn
    BY DEF StaysUnborn
  <2>2. ASSUME NEW i \in 1 .. Len(frames'[th]) PROVE Familiar(th, frames'[th][i])
    <3>1. CASE i = Len(frames[th]) + 1
      BY <1>1, <3>1 DEF Pushed
    <3>2. CASE i # Len(frames[th]) + 1
      <4>1. i \in Calls_(th) /\ frames'[th][i] = frames[th][i]
        BY <1>1, <3>2 DEF Pushed, Calls_
      <4> QED
        BY <4>1 DEF Familiar
    <3> QED
      BY <3>1, <3>2
  <2> QED
    BY <1>1, <2>1, <2>2, MakingStays DEF Pushed
<1>5. Alike'
  <2>1. ASSUME NEW i \in 1 .. Len(frames'[th])
        PROVE  \/ i \in Calls_(th) /\ frames'[th][i] = frames[th][i]
               \/ frames'[th][i] = f
    BY <1>1 DEF Pushed, Calls_
  <2>2. Alike
    BY DEF IInv
  <2>3. SUFFICES ASSUME Modest, NEW u \in Threads,
                        NEW i \in 1 .. Len(frames'[u]), NEW j \in 1 .. Len(frames'[u]),
                        frames'[u][i].op # "join", frames'[u][j].op # "join"
                 PROVE  frames'[u][i].about = frames'[u][j].about
    BY DEF Alike, Modest, Calls_
  <2>4. CASE u = th
    BY <2>1, <2>2, <2>3, <2>4 DEF Alike
  <2>5. CASE u # th
    <3>1. frames'[u] = frames[u] /\ i \in Calls_(u) /\ j \in Calls_(u)
      BY <1>1, <2>5 DEF Pushed, OthersStay, Calls_
    <3> QED
      BY <2>2, <2>3, <3>1 DEF Alike
  <2> QED
    BY <2>4, <2>5
<1> QED
  BY <1>2, <1>3, <1>4, <1>5 DEF IInv

LEMMA ReplaceInv ==
    ASSUME IInv, NEW th \in Threads, frames[th] # <<>>, NEW g \in Call, Becomes(th, g),
           uses' = uses, life' = life, StateType, Wraps',
           \A s \in States : state'[s] = state[s], MonitorOf(g), Replaces(th, g)
    PROVE  IInv'
<1>1. /\ Replaced(th, g) /\ frames' \in [Threads -> Seq(Call)]
      /\ Len(frames[th]) \in Nat \ {0} /\ Len(frames[th]) \in Calls_(th)
  BY BecomesReplaces, InnerCall DEF IInv
<1>2. Waiting' /\ Methods' /\ Places' /\ Exclusive' /\ Alike'
  BY <1>1, ReplaceShape
<1>3. TypeOK'
  <2>1. \A u \in Threads : life[u] # "running" => frames'[u] = <<>>
    BY <1>1 DEF IInv, TypeOK, Replaced, OthersStay
  <2> QED
    BY <1>1, <2>1 DEF IInv, TypeOK, StateType, Wraps, Call
<1>4. Making'
  <2>1. StaysUnborn
    BY DEF StaysUnborn
  <2>2. ASSUME NEW i \in 1 .. Len(frames'[th]) PROVE Familiar(th, frames'[th][i])
    <3>1. /\ i \in Calls_(th) /\ frames'[th][i].about = frames[th][i].about
          /\ frames'[th][i].op = "new" => frames[th][i].op = "new"
      BY <1>1 DEF Replaced, Replaces, WrapOps, Calls_
    <3> QED
      BY <3>1 DEF Familiar
  <2> QED
    BY <1>1, <2>1, <2>2, MakingStays DEF Replaced
<1> QED
  BY <1>2, <1>3, <1>4 DEF IInv

LEMMA PopInv ==
    ASSUME IInv, NEW th \in Threads, frames[th] # <<>>,
           frames' = [frames EXCEPT ![th] = Outer(th)],
           uses' = uses, life' = life, StateType, Wraps',
           \A s \in States :
               \/ state'[s] \in {"unborn", "built"}
               \/ state[s] \notin {"unborn", "built"}
               \/ Inner(th).op = "new" /\ Inner(th).about = s
    PROVE  IInv'
<1>1. /\ Popped(th) /\ frames' \in [Threads -> Seq(Call)]
      /\ Len(frames[th]) \in Nat \ {0} /\ Len(frames[th]) \in Calls_(th)
      /\ Inner(th) = frames[th][Len(frames[th])]
  BY OuterPops, InnerCall DEF IInv
<1>2. Waiting' /\ Methods' /\ Places' /\ Exclusive' /\ Alike'
  BY <1>1, PopShape
<1>3. TypeOK'
  <2>1. \A u \in Threads : life[u] # "running" => frames'[u] = <<>>
    BY <1>1 DEF IInv, TypeOK, Popped, OthersStay
  <2> QED
    BY <1>1, <2>1 DEF IInv, TypeOK, Wraps, StateType, Call
<1>4. \A i \in 1 .. Len(frames'[th]) :
          i \in Calls_(th) /\ i < Len(frames[th]) /\ frames'[th][i] = frames[th][i]
  BY <1>1 DEF Popped, Calls_
<1>5. Making'
  <2>1. StaysUnborn
    <3>1. ASSUME Inner(th).op = "new",
                 NEW u \in Threads, NEW i \in 1 .. Len(frames'[u]), frames'[u][i].op = "new"
          PROVE  frames'[u][i].about # Inner(th).about
      <4>1. CASE u = th
        <5>1. Place(frames[th], i) /\ frames[th][i].op = "new"
          BY <1>4, <3>1, <4>1 DEF IInv, Places
        <5>2. Len(frames[th]) = 2 /\ frames[th][2].op = "open"
          BY <1>1, <1>4, <4>1, <5>1 DEF Leaf, WrapOps, Place
        <5> QED
          BY <1>1, <3>1, <5>2
      <4>2. CASE u # th
        <5>1. frames'[u] = frames[u] /\ i \in Calls_(u)
          BY <1>1, <4>2 DEF Popped, OthersStay, Calls_
        <5>2. Making
          BY DEF IInv
        <5> QED
          BY <1>1, <3>1, <4>2, <5>1, <5>2 DEF Making
      <4> QED
        BY <4>1, <4>2
    <3> QED
      BY <3>1 DEF StaysUnborn
  <2>2. \A i \in 1 .. Len(frames'[th]) : Familiar(th, frames'[th][i])
    BY <1>4 DEF Familiar
  <2> QED
    BY <1>1, <2>1, <2>2, MakingStays DEF Popped
<1> QED
  BY <1>2, <1>3, <1>5 DEF IInv

-----------------------------------------------------------------------------
(* The initial states and the actions. *)

LEMMA InitIInv == Init => IInv
<1> SUFFICES ASSUME Init PROVE IInv
  OBVIOUS
<1>1. TypeOK
  BY MonitorsAssumption DEF Init, TypeOK, LuaStates
<1>2. \A th \in Threads : Calls_(th) = {}
  <2>1. \A th \in Threads : frames[th] = <<>>
    BY DEF Init
  <2>2. Len(<<>>) = 0 /\ 1 .. 0 = {}
    OBVIOUS
  <2> QED
    BY <2>1, <2>2 DEF Calls_
<1>3. Waiting /\ Methods /\ Places
  BY <1>2 DEF Waiting, Methods, Places
<1>4. Exclusive
  BY <1>2 DEF Exclusive
<1>5. Making
  BY <1>2 DEF Making
<1>6. Alike
  BY <1>2 DEF Alike
<1>7. Wraps
  BY ObjectsAssumption DEF Init, Wraps, LuaStates
<1> QED
  BY <1>1, <1>3, <1>4, <1>5, <1>6, <1>7 DEF IInv

\* Java code runs in a thread without calls, or was called from Lua code.
LEMMA JavaRuns ==
    ASSUME IInv, NEW th \in Threads, InJava(th)
    PROVE  /\ life[th] = "running"
           /\ Len(frames[th]) \in Nat
           /\ Len(frames[th]) > 0 =>
                /\ Len(frames[th]) > 1
                /\ frames[th][Len(frames[th])].op \in {"java", "function"}
                /\ frames[th][Len(frames[th])].held
                /\ frames[th][Len(frames[th]) - 1].op = "lua"
                /\ frames[th][Len(frames[th]) - 1].about = frames[th][Len(frames[th])].about
<1>1. CASE Idle(th)
  BY <1>1 DEF Idle
<1>2. CASE ~Idle(th)
  <2>1. /\ frames[th] # <<>> /\ life[th] = "running"
        /\ Inner(th).op \in {"java", "function"} /\ Inner(th).held
    BY <1>2 DEF InJava, In, IInv, TypeOK
  <2>2. /\ Len(frames[th]) \in Nat \ {0} /\ Len(frames[th]) \in Calls_(th)
        /\ Inner(th) = frames[th][Len(frames[th])]
    BY <2>1, InnerCall DEF IInv
  <2>3. Place(frames[th], Len(frames[th]))
    BY <2>2 DEF IInv, Places
  <2> QED
    BY <2>1, <2>2, <2>3 DEF Leaf, WrapOps, Place
<1> QED
  BY <1>1, <1>2

\* Code that runs runs in the innermost call.
LEMMA InRuns ==
    ASSUME IInv, NEW th \in Threads, NEW op, In(th, op)
    PROVE  /\ life[th] = "running" /\ frames[th] # <<>>
           /\ Len(frames[th]) \in Nat \ {0} /\ Len(frames[th]) \in Calls_(th)
           /\ Inner(th) = frames[th][Len(frames[th])] /\ Inner(th) \in Call
           /\ Inner(th).op = op /\ Inner(th).held
           /\ MonitorOf(Inner(th)) /\ Place(frames[th], Len(frames[th]))
<1>1. frames[th] # <<>> /\ Inner(th).op = op /\ Inner(th).held
  BY DEF In
<1>2. /\ Len(frames[th]) \in Nat \ {0} /\ Len(frames[th]) \in Calls_(th)
      /\ Inner(th) = frames[th][Len(frames[th])] /\ Inner(th) \in Call
  BY <1>1, InnerCall DEF IInv
<1> QED
  BY <1>1, <1>2 DEF IInv, TypeOK, Methods, Places

\* A LuaState that Java code has wraps a Lua state that was open once.
LEMMA Usable ==
    ASSUME IInv, NEW th \in Threads, NEW o \in LuaStates, MayUse(th, o)
    PROVE  /\ over[o] \in States /\ state[over[o]] \in {"open", "closed"}
           /\ o = over[o] \/ (o \in Wrappers /\ Wrapping)
           /\ "toThread" \notin uses => entry[o] = over[o]
<1>1. state[o] \in {"open", "closed"}
  BY DEF MayUse
<1>2. Wraps
  BY DEF IInv
<1>3. CASE o \in States
  BY <1>1, <1>2, <1>3 DEF Wraps
<1>4. CASE o \in Wrappers
  BY <1>1, <1>2, <1>4 DEF Wraps
<1> QED
  BY <1>3, <1>4 DEF LuaStates

LEMMA LuaCallInv ==
    ASSUME IInv, NEW th \in Threads, NEW o \in LuaStates, InJava(th), MayUse(th, o),
           NEW m, m = o \/ (m = ClassLuaState /\ "doFile" \in uses),
           Calls(th, Frame("lua", m, over[o])), UNCHANGED <<uses, life, state, wraps>>
    PROVE  IInv'
<1> DEFINE s == over[o]
           f == Frame("lua", m, s)
<1>0. /\ s \in States /\ state[s] \in {"open", "closed"}
      /\ o = s \/ (o \in Wrappers /\ Wrapping)
  BY Usable
<1>1. f \in Call /\ ~f.held /\ f.op = "lua" /\ f.about = s /\ f.monitor = m
  BY <1>0, ObjectsAssumption DEF Frame, Call, Monitor, Ops, LuaStates, ClassLuaState, NoMonitor
<1>2. MonitorOf(f)
  BY <1>0, <1>1 DEF MonitorOf, WrapOps
<1>3. Fits(th, f)
  BY <1>1, JavaRuns DEF Leaf, WrapOps, Fits
<1>4. Familiar(th, f)
  BY <1>0, <1>1 DEF Familiar
<1>5. ASSUME Modest, NEW i \in Calls_(th), frames[th][i].op # "join"
      PROVE  frames[th][i].about = s
  <2>1. /\ Len(frames[th]) \in Nat /\ Len(frames[th]) - 1 \in Calls_(th)
        /\ frames[th][Len(frames[th]) - 1].op = "lua"
    BY <1>5, JavaRuns DEF Calls_
  <2>2. frames[th][Len(frames[th]) - 1].about = s
    BY <1>5, <2>1 DEF MayUse, Under, Calls_, Modest
  <2> QED
    BY <1>5, <2>1, <2>2 DEF IInv, Alike
<1>6. StateType /\ Wraps' /\ life[th] = "running"
  BY JavaRuns, SameWraps DEF StateType, IInv, TypeOK
<1> HIDE DEF f
<1> QED
  BY <1>1, <1>2, <1>3, <1>4, <1>5, <1>6, PushInv DEF f

\* Lua code calls something about its state.
LEMMA InnerCallInv ==
    ASSUME IInv, NEW th \in Threads, In(th, "lua"),
           NEW f \in Call, f.op \in {"lookup", "function"}, f.about = Inner(th).about,
           MonitorOf(f), f.held => f.monitor = NoMonitor,
           Calls(th, f), UNCHANGED <<uses, life, state, wraps>>
    PROVE  IInv'
<1>1. /\ life[th] = "running" /\ Len(frames[th]) \in Nat \ {0} /\ Len(frames[th]) \in Calls_(th)
      /\ Inner(th) = frames[th][Len(frames[th])] /\ Inner(th).op = "lua" /\ Inner(th).held
  BY InRuns
<1>2. Fits(th, f)
  BY <1>1 DEF Leaf, WrapOps, Fits
<1>3. Familiar(th, f)
  BY <1>1 DEF Familiar
<1>4. ASSUME Modest, NEW i \in Calls_(th), frames[th][i].op # "join"
      PROVE  frames[th][i].about = f.about
  BY <1>1, <1>4 DEF IInv, Alike
<1>5. StateType /\ Wraps'
  BY SameWraps DEF StateType, IInv, TypeOK
<1> QED
  BY <1>1, <1>2, <1>3, <1>4, <1>5, PushInv

LEMMA EnterInv == ASSUME IInv, NEW th \in Threads, Enter(th) PROVE IInv'
<1> DEFINE f == Inner(th)
           g == [f EXCEPT !.held = TRUE]
<1>1. /\ frames[th] # <<>> /\ ~f.held /\ f \in Call
      /\ f = frames[th][Len(frames[th])] /\ Len(frames[th]) \in Calls_(th)
  BY InnerCall DEF Enter, IInv
<1>2. /\ g \in Call /\ g.held
      /\ g.op = f.op /\ g.monitor = f.monitor /\ g.about = f.about
  BY <1>1 DEF Call
<1>3. MonitorOf(f)
  BY <1>1 DEF IInv, Methods
<1>4. MonitorOf(g)
  BY <1>2, <1>3 DEF MonitorOf, WrapOps
<1>5. Replaces(th, g)
  <2>1. ASSUME g.monitor # NoMonitor, NEW u \in Threads \ {th} PROVE ~Holds(u, g.monitor)
    <3>1. f.op # "join"
      BY <1>2, <1>3, <2>1 DEF MonitorOf, WrapOps
    <3>2. u \notin Blockers(th)
      BY DEF Enter
    <3> QED
      BY <1>1, <1>2, <3>1, <3>2 DEF Blockers
  <2> QED
    BY <1>1, <1>2, <2>1 DEF Replaces
<1>6. Becomes(th, g) /\ UNCHANGED <<uses, life, state, wraps>>
  BY DEF Enter
<1>7. StateType /\ Wraps'
  BY <1>6, SameWraps DEF StateType, IInv, TypeOK
<1> HIDE DEF f, g
<1> QED
  BY <1>1, <1>2, <1>4, <1>5, <1>6, <1>7, ReplaceInv

LEMMA FoundInv == ASSUME IInv, NEW th \in Threads, Found(th) PROVE IInv'
<1> DEFINE f == Inner(th)
           g == Frame("java", found[f.about], f.about)
<1>1. /\ frames[th] # <<>> /\ f.op = "lookup" /\ MonitorOf(f)
      /\ f = frames[th][Len(frames[th])]
  BY InRuns DEF Found
<1>2. f.about \in States
  BY <1>1 DEF MonitorOf, WrapOps
<1>3. found[f.about] \in LuaStates /\ ("toThread" \notin uses => found[f.about] = f.about)
  BY <1>2 DEF IInv, Wraps
<1>4. /\ g \in Call /\ g.op = "java" /\ g.about = f.about
      /\ g.monitor = found[f.about] /\ ~g.held
  BY <1>2, <1>3, ObjectsAssumption DEF Frame, Call, Monitor, Ops, LuaStates, NoMonitor
<1>5. MonitorOf(g)
  BY <1>2, <1>3, <1>4 DEF MonitorOf, WrapOps
<1>6. Replaces(th, g)
  BY <1>1, <1>4 DEF Replaces
<1>7. Becomes(th, g) /\ UNCHANGED <<uses, life, state, wraps>>
  BY DEF Found
<1>8. StateType /\ Wraps'
  BY <1>7, SameWraps DEF StateType, IInv, TypeOK
<1> HIDE DEF f, g
<1> QED
  BY <1>1, <1>4, <1>5, <1>6, <1>7, <1>8, ReplaceInv

LEMMA CallJavaInv == ASSUME IInv, NEW th \in Threads, CallJava(th) PROVE IInv'
<1> DEFINE f == Frame("lookup", Factory, Inner(th).about)
<1>1. In(th, "lua") /\ Calls(th, f) /\ UNCHANGED <<uses, life, state, wraps>>
  BY DEF CallJava
<1>2. Inner(th).about \in States
  BY <1>1, InRuns DEF MonitorOf, WrapOps
<1>3. /\ f \in Call /\ f.op = "lookup" /\ f.about = Inner(th).about
      /\ f.monitor = Factory /\ ~f.held
  BY <1>2 DEF Frame, Call, Monitor, Ops, LuaStates, NoMonitor, Factory
<1>4. MonitorOf(f)
  BY <1>2, <1>3 DEF MonitorOf, WrapOps
<1> HIDE DEF f
<1> QED
  BY <1>1, <1>3, <1>4, InnerCallInv

LEMMA CallFunctionInv == ASSUME IInv, NEW th \in Threads, CallFunction(th) PROVE IInv'
<1> DEFINE f == Frame("function", NoMonitor, Inner(th).about)
<1>1. In(th, "lua") /\ Calls(th, f) /\ UNCHANGED <<uses, life, state, wraps>>
  BY DEF CallFunction
<1>2. Inner(th).about \in States
  BY <1>1, InRuns DEF MonitorOf, WrapOps
<1>3. /\ f \in Call /\ f.op = "function" /\ f.about = Inner(th).about
      /\ f.monitor = NoMonitor /\ f.held
  BY <1>2 DEF Frame, Call, Monitor, Ops, LuaStates
<1>4. MonitorOf(f)
  BY <1>2, <1>3 DEF MonitorOf, WrapOps
<1> HIDE DEF f
<1> QED
  BY <1>1, <1>3, <1>4, InnerCallInv

LEMMA ReturnsInv ==
    ASSUME IInv, NEW th \in Threads, Return(th) \/ CloseReturn(th) \/ JoinReturn(th)
    PROVE  IInv'
<1>1. /\ frames[th] # <<>> /\ frames' = [frames EXCEPT ![th] = Outer(th)]
      /\ UNCHANGED <<uses, life, state, wraps>>
  BY DEF Return, CloseReturn, JoinReturn, In
<1>2. StateType /\ Wraps'
  BY <1>1, SameWraps DEF StateType, IInv, TypeOK
<1> QED
  BY <1>1, <1>2, PopInv

-----------------------------------------------------------------------------
LEMMA NewLuaStateInv ==
    ASSUME IInv, NEW th \in Threads, NEW s \in States, NewLuaState(th, s) PROVE IInv'
<1> DEFINE f == Frame("new", Factory, s)
<1>1. f \in Call /\ f.op = "new" /\ f.about = s /\ f.monitor = Factory /\ ~f.held
  BY DEF Frame, Call, Monitor, Ops, LuaStates, NoMonitor, Factory
<1>2. /\ life[th] = "running" /\ frames[th] = <<>> /\ state[s] = "unborn"
      /\ \A u \in Threads : \A i \in Calls_(u) : frames[u][i].about # s
      /\ Calls(th, f) /\ UNCHANGED <<uses, life, state, wraps>>
  BY DEF NewLuaState, Idle, Calls_
<1>3. Len(frames[th]) = 0 /\ Calls_(th) = {}
  BY <1>2 DEF Calls_
<1>4. MonitorOf(f) /\ Fits(th, f) /\ Familiar(th, f)
  BY <1>1, <1>2, <1>3 DEF MonitorOf, WrapOps, Leaf, Fits, Familiar
<1>5. StateType /\ Wraps'
  BY <1>2, SameWraps DEF StateType, IInv, TypeOK
<1> HIDE DEF f
<1> QED
  BY <1>1, <1>2, <1>3, <1>4, <1>5, PushInv

LEMMA ConstructInv == ASSUME IInv, NEW th \in Threads, Construct(th) PROVE IInv'
<1> DEFINE s == Inner(th).about
           f == Frame("open", s, s)
<1>1. /\ life[th] = "running" /\ Inner(th) = frames[th][Len(frames[th])]
      /\ Inner(th).op = "new" /\ Inner(th).held /\ Len(frames[th]) \in Calls_(th)
      /\ MonitorOf(Inner(th)) /\ Place(frames[th], Len(frames[th]))
  BY InRuns DEF Construct
<1>2. Len(frames[th]) = 1 /\ Calls_(th) = {1} /\ s \in States
  BY <1>1 DEF Leaf, Place, MonitorOf, WrapOps, Calls_
<1>3. f \in Call /\ f.op = "open" /\ f.about = s /\ f.monitor = s /\ ~f.held
  BY <1>2, ObjectsAssumption DEF Frame, Call, Monitor, Ops, LuaStates, NoMonitor
<1>4. MonitorOf(f) /\ Fits(th, f) /\ Familiar(th, f)
  BY <1>1, <1>2, <1>3 DEF MonitorOf, WrapOps, Leaf, Fits, Familiar
<1>5. /\ Calls(th, f) /\ UNCHANGED <<uses, life, wraps>> /\ state[s] = "unborn"
      /\ state' = [state EXCEPT ![s] = "built"]
  BY DEF Construct
<1>6. StateType /\ \A r \in States : state'[r] = "built" \/ state'[r] = state[r]
  BY <1>2, <1>5 DEF StateType, IInv, TypeOK, LuaStates
<1>9. Wraps'
  <2>1. state[s] \notin {"open", "closed"} /\ \A r \in LuaStates \ {s} : state'[r] = state[r]
    BY <1>5 DEF Construct, IInv, TypeOK, LuaStates
  <2> QED
    BY <1>2, <1>5, <2>1, ObjectsAssumption, SameWraps DEF LuaStates
<1>7. \A i \in Calls_(th) : frames[th][i].about = s
  BY <1>1, <1>2
<1>8. \A r \in States : state'[r] \in {"unborn", "built"} \/ state[r] \notin {"unborn", "built"}
  BY <1>6
<1> HIDE DEF f, s
<1> QED
  BY <1>1, <1>3, <1>4, <1>5, <1>6, <1>7, <1>8, <1>9, PushInv

LEMMA PublishInv == ASSUME IInv, NEW th \in Threads, Publish(th) PROVE IInv'
<1>1. frames[th] # <<>> /\ Inner(th).op = "new" /\ MonitorOf(Inner(th))
  BY InRuns DEF Publish
<1>2. /\ frames' = [frames EXCEPT ![th] = Outer(th)] /\ UNCHANGED <<uses, life, wraps>>
      /\ state' = [state EXCEPT ![Inner(th).about] = "open"] /\ Inner(th).about \in States
  BY <1>1 DEF Publish, MonitorOf, WrapOps
<1>3. /\ StateType
      /\ \A r \in LuaStates : state'[r] = state[r] \/ (Inner(th).about = r /\ state'[r] = "open")
  BY <1>2 DEF StateType, IInv, TypeOK, LuaStates
<1>5. Wraps'
  BY <1>2, <1>3, ObjectsAssumption, SameWraps DEF LuaStates
<1>4. \A r \in States : \/ state'[r] \in {"unborn", "built"}
                        \/ state[r] \notin {"unborn", "built"}
                        \/ Inner(th).op = "new" /\ Inner(th).about = r
  BY <1>1, <1>3 DEF LuaStates
<1> QED
  BY <1>1, <1>2, <1>3, <1>4, <1>5, PopInv

LEMMA CloseInv ==
    ASSUME IInv, NEW th \in Threads, NEW s \in States, Close(th, s) PROVE IInv'
<1> DEFINE f == Frame("close", s, s)
<1>1. f \in Call /\ f.op = "close" /\ f.about = s /\ f.monitor = s /\ ~f.held
  BY ObjectsAssumption DEF Frame, Call, Monitor, Ops, LuaStates, NoMonitor
<1>2. /\ life[th] = "running" /\ frames[th] = <<>> /\ state[s] = "open"
      /\ Calls(th, f) /\ UNCHANGED <<uses, life, state, wraps>>
  BY DEF Close, Idle
<1>3. Len(frames[th]) = 0 /\ Calls_(th) = {}
  BY <1>2 DEF Calls_
<1>4. MonitorOf(f) /\ Fits(th, f) /\ Familiar(th, f)
  BY <1>1, <1>2, <1>3 DEF MonitorOf, WrapOps, Leaf, Fits, Familiar
<1>5. StateType /\ Wraps'
  BY <1>2, SameWraps DEF StateType, IInv, TypeOK
<1> HIDE DEF f
<1> QED
  BY <1>1, <1>2, <1>3, <1>4, <1>5, PushInv

LEMMA CloseRemoveInv == ASSUME IInv, NEW th \in Threads, CloseRemove(th) PROVE IInv'
<1> DEFINE s == Inner(th).about
           f == Frame("remove", Factory, s)
<1>1. /\ life[th] = "running" /\ Inner(th) = frames[th][Len(frames[th])]
      /\ Inner(th).op = "close" /\ Inner(th).held /\ Len(frames[th]) \in Nat \ {0}
      /\ Len(frames[th]) \in Calls_(th) /\ MonitorOf(Inner(th))
  BY InRuns DEF CloseRemove
<1>2. s \in States
  BY <1>1 DEF MonitorOf, WrapOps
<1>3. f \in Call /\ f.op = "remove" /\ f.about = s /\ f.monitor = Factory /\ ~f.held
  BY <1>2 DEF Frame, Call, Monitor, Ops, LuaStates, NoMonitor, Factory
<1>4. MonitorOf(f) /\ Fits(th, f) /\ Familiar(th, f)
  BY <1>1, <1>2, <1>3 DEF MonitorOf, WrapOps, Leaf, Fits, Familiar
<1>5. /\ Calls(th, f) /\ UNCHANGED <<uses, life, wraps>> /\ state[s] = "open"
      /\ state' = [state EXCEPT ![s] = "closed"]
  BY DEF CloseRemove
<1>6. /\ StateType
      /\ \A r \in LuaStates : \/ state'[r] = state[r]
                            \/ /\ r = s /\ state[r] = "open" /\ state'[r] = "closed"
  BY <1>2, <1>5 DEF StateType, IInv, TypeOK, LuaStates
<1>9. Wraps'
  BY <1>2, <1>5, <1>6, ObjectsAssumption, SameWraps DEF LuaStates
<1>7. Modest =>
          \A i \in Calls_(th) : frames[th][i].op # "join" => frames[th][i].about = s
  BY <1>1 DEF IInv, Alike
<1>8. \A r \in States : state'[r] \in {"unborn", "built"} \/ state[r] \notin {"unborn", "built"}
  BY <1>6 DEF LuaStates
<1> HIDE DEF f, s
<1> QED
  BY <1>1, <1>3, <1>4, <1>5, <1>6, <1>7, <1>8, <1>9, PushInv

-----------------------------------------------------------------------------
(* One more LuaState over a Lua state. *)

LEMMA WrapInv ==
    ASSUME IInv, NEW th \in Threads, NEW o \in LuaStates, NEW w \in Wrappers,
           NewThread(th, o, w) \/ ToThread(th, o, w)
    PROVE  IInv'
<1> DEFINE f == Frame("thread", o, w)
<1>1. f \in Call /\ f.op = "thread" /\ f.about = w /\ f.monitor = o /\ ~f.held
  BY ObjectsAssumption DEF Frame, Call, Monitor, Ops, LuaStates, NoMonitor
<1>2. /\ InJava(th) /\ MayUse(th, o) /\ state[w] = "unborn" /\ Calls(th, f)
      /\ UNCHANGED <<uses, life, found>> /\ over' = [over EXCEPT ![w] = over[o]]
  BY DEF NewThread, ToThread
<1>3. PICK m \in {"newThread", "toThread"}, e \in LuaStates :
          /\ m \in uses /\ state' = [state EXCEPT ![w] = m]
          /\ entry' = [entry EXCEPT ![w] = e]
          /\ m = "newThread" => e = entry[o]
  <2>1. entry[o] \in LuaStates /\ w \in LuaStates
    BY DEF IInv, Wraps, LuaStates
  <2>2. CASE NewThread(th, o, w)
    BY <2>1, <2>2 DEF NewThread
  <2>3. CASE ToThread(th, o, w)
    <3>1. \A v \in Known(over[o]) : entry[v] \in LuaStates
      BY DEF Known, IInv, Wraps
    <3> QED
      BY <2>1, <2>3, <3>1 DEF ToThread
  <2> QED
    BY <2>2, <2>3
<1>4. Wrapping /\ ~Modest
  BY <1>3 DEF Wrapping, Modest
<1>5. MonitorOf(f) /\ Fits(th, f) /\ Familiar(th, f) /\ life[th] = "running"
  <2>1. MonitorOf(f) /\ Familiar(th, f)
    BY <1>1, <1>4 DEF MonitorOf, WrapOps, Familiar
  <2>2. Fits(th, f) /\ life[th] = "running"
    BY <1>1, <1>2, JavaRuns DEF Fits, Leaf, WrapOps
  <2> QED
    BY <2>1, <2>2
<1>6. /\ over[o] \in States /\ state[over[o]] \in {"open", "closed"}
      /\ "toThread" \notin uses => entry[o] = over[o]
  BY <1>2, Usable
<1>7. w \notin States /\ w \in LuaStates
  BY ObjectsAssumption DEF LuaStates
<1>8. StateType /\ \A r \in States : state'[r] = state[r]
  BY <1>3, <1>7 DEF StateType, IInv, TypeOK
<1>9. Wraps'
  <2>1. /\ over' \in [LuaStates -> States \cup {Nowhere}] /\ entry' \in [LuaStates -> LuaStates]
        /\ found' \in [States -> LuaStates]
        /\ over'[w] = over[o] /\ entry'[w] = e /\ state'[w] = m
        /\ \A v \in LuaStates \ {w} : over'[v] = over[v] /\ entry'[v] = entry[v] /\ state'[v] = state[v]
    BY <1>2, <1>3, <1>6, <1>7 DEF IInv, Wraps, TypeOK
  <2>2. Wraps
    BY DEF IInv
  <2>3. \A s \in States : over'[s] = s /\ s # w /\ s \in LuaStates
    BY <1>7, <2>1, <2>2 DEF Wraps, LuaStates
  <2>4. ASSUME NEW v \in Wrappers, state'[v] # "unborn"
        PROVE  Wrapping' /\ over'[v] \in States /\ state'[over'[v]] \in {"open", "closed"}
    <3>1. Wrapping'
      BY <1>2, <1>4 DEF Wrapping
    <3>2. CASE v = w
      BY <1>6, <1>8, <2>1, <3>1, <3>2
    <3>3. CASE v # w
      <4>1. over'[v] = over[v] /\ state[v] # "unborn"
        BY <2>1, <2>4, <3>3 DEF LuaStates
      <4>2. over[v] \in States /\ state[over[v]] \in {"open", "closed"}
        BY <2>2, <4>1 DEF Wraps
      <4> QED
        BY <1>8, <3>1, <4>1, <4>2
    <3> QED
      BY <3>2, <3>3
  <2>5. ASSUME "toThread" \notin uses
        PROVE  /\ \A s \in States : found'[s] = s /\ entry'[s] = s
               /\ \A v \in Wrappers : state'[v] # "unborn" => entry'[v] = over'[v]
    <3>1. \A s \in States : found'[s] = s /\ entry'[s] = s
      BY <1>2, <2>1, <2>2, <2>3, <2>5 DEF Wraps
    <3>2. entry'[w] = over'[w]
      BY <1>3, <1>6, <2>1, <2>5
    <3>3. \A v \in Wrappers \ {w} : state'[v] # "unborn" => entry'[v] = over'[v]
      BY <2>1, <2>2, <2>5 DEF Wraps, LuaStates
    <3> QED
      BY <3>1, <3>2, <3>3
  <2> QED
    BY <1>2, <2>1, <2>3, <2>4, <2>5 DEF Wraps
<1> HIDE DEF f
<1> QED
  BY <1>1, <1>2, <1>4, <1>5, <1>8, <1>9, PushInv

\* The next step of LuaState(CPtr) takes the place of the last one.
LEMMA WrapNext ==
    ASSUME IInv, NEW th \in Threads, NEW op \in WrapOps, In(th, op),
           NEW g \in Call, g.op \in WrapOps, g.about = Inner(th).about, ~g.held,
           g.monitor = IF g.op = "insert" THEN Factory ELSE g.about,
           Becomes(th, g), uses' = uses, life' = life, StateType, Wraps',
           \A s \in States : state'[s] = state[s]
    PROVE  IInv'
<1>1. /\ frames[th] # <<>> /\ MonitorOf(Inner(th)) /\ Inner(th).op \in WrapOps
      /\ Inner(th) = frames[th][Len(frames[th])]
  BY InRuns
<1>2. g.about \in Wrappers /\ Wrapping
  BY <1>1 DEF MonitorOf, WrapOps
<1>3. MonitorOf(g)
  BY <1>2 DEF MonitorOf, WrapOps, LuaStates
<1>4. Replaces(th, g)
  BY <1>1 DEF Replaces
<1> QED
  BY <1>1, <1>3, <1>4, ReplaceInv

\* What is about a wrapper.
LEMMA WrapFrame ==
    ASSUME IInv, NEW th \in Threads, NEW op \in WrapOps, In(th, op)
    PROVE  /\ Inner(th).about \in Wrappers /\ Inner(th).about \in LuaStates
           /\ Inner(th).about \notin States
           /\ Frame("insert", Factory, Inner(th).about) \in Call
           /\ Frame("reopen", Inner(th).about, Inner(th).about) \in Call
<1>1. Inner(th).about \in Wrappers
  <2>1. MonitorOf(Inner(th)) /\ Inner(th).op \in WrapOps
    BY InRuns
  <2> QED
    BY <2>1 DEF MonitorOf, WrapOps
<1> QED
  BY <1>1, ObjectsAssumption DEF LuaStates, Frame, Call, Monitor, Ops

LEMMA InsertInv == ASSUME IInv, NEW th \in Threads, Insert(th) PROVE IInv'
<1> DEFINE g == Frame("insert", Factory, Inner(th).about)
<1>1. In(th, "thread") /\ Becomes(th, g) /\ UNCHANGED <<uses, life, state, wraps>>
  BY DEF Insert
<1>2. g \in Call
  BY <1>1, WrapFrame DEF WrapOps
<1>3. g.op = "insert" /\ g.about = Inner(th).about /\ ~g.held /\ g.monitor = Factory
  BY DEF Frame, Factory, NoMonitor
<1>4. StateType /\ Wraps'
  BY <1>1, SameWraps DEF StateType, IInv, TypeOK
<1> HIDE DEF g
<1> QED
  BY <1>1, <1>2, <1>3, <1>4, WrapNext DEF WrapOps

LEMMA ReopenInv == ASSUME IInv, NEW th \in Threads, Reopen(th) PROVE IInv'
<1> DEFINE w == Inner(th).about
           g == Frame("reopen", w, w)
<1>1. In(th, "insert") /\ Becomes(th, g) /\ UNCHANGED <<uses, life, state, wraps>>
  BY DEF Reopen
<1>2. g \in Call /\ w \in LuaStates
  BY <1>1, WrapFrame DEF WrapOps
<1>3. g.op = "reopen" /\ g.about = w /\ ~g.held /\ g.monitor = w
  BY <1>2, ObjectsAssumption DEF Frame
<1>4. StateType /\ Wraps'
  BY <1>1, SameWraps DEF StateType, IInv, TypeOK
<1> HIDE DEF g
<1> QED
  BY <1>1, <1>2, <1>3, <1>4, WrapNext DEF WrapOps

LEMMA InsertThrowsInv == ASSUME IInv, NEW th \in Threads, InsertThrows(th) PROVE IInv'
<1>1. /\ frames[th] # <<>> /\ frames' = [frames EXCEPT ![th] = Outer(th)]
      /\ UNCHANGED <<uses, life, state, wraps>>
  BY DEF InsertThrows, In
<1>2. StateType /\ Wraps'
  BY <1>1, SameWraps DEF StateType, IInv, TypeOK
<1> QED
  BY <1>1, <1>2, PopInv

\* A wrapper gets further, and callbacks find the LuaState its address has.
LEMMA FurtherWraps ==
    ASSUME IInv, NEW w \in Wrappers, state[w] # "unborn", uses' = uses, UNCHANGED <<over, entry>>,
           found' = found \/ found' = [found EXCEPT ![over[w]] = entry[w]],
           NEW m \in {"reopened", "open"}, state' = [state EXCEPT ![w] = m]
    PROVE  StateType /\ Wraps' /\ \A s \in States : state'[s] = state[s]
<1>1. w \in LuaStates /\ w \notin States /\ States \subseteq LuaStates /\ Wrappers \subseteq LuaStates
  BY ObjectsAssumption DEF LuaStates
<1>2. StateType /\ \A v \in LuaStates : v # w => state'[v] = state[v]
  BY <1>1 DEF StateType, IInv, TypeOK
<1>3. Wraps
  BY DEF IInv
<1>4. over[w] \in States /\ entry[w] \in LuaStates
  BY <1>1, <1>3 DEF Wraps
<1>5. found' \in [States -> LuaStates]
  BY <1>3, <1>4 DEF Wraps
<1>6. "toThread" \notin uses => \A s \in States : found'[s] = s
  BY <1>3, <1>4 DEF Wraps
<1>7. \A v \in Wrappers : state'[v] # "unborn" => state[v] # "unborn"
  BY <1>1, <1>2
<1>8. \A s \in States : state'[s] = state[s]
  BY <1>1, <1>2
<1>9. Wraps'
  BY <1>3, <1>5, <1>6, <1>7, <1>8 DEF Wraps, Wrapping
<1> QED
  BY <1>2, <1>8, <1>9

LEMMA ReopenedInv == ASSUME IInv, NEW th \in Threads, Reopened(th) PROVE IInv'
<1> DEFINE w == Inner(th).about
           g == Frame("insert", Factory, w)
<1>1. /\ In(th, "reopen") /\ frames[th] # <<>> /\ UNCHANGED <<uses, life, over, entry>>
      /\ found' = [found EXCEPT ![over[w]] = entry[w]]
  BY DEF Reopened, In
<1>2. w \in Wrappers /\ g \in Call
  BY <1>1, WrapFrame DEF WrapOps
<1>3. g.op = "insert" /\ g.about = w /\ ~g.held /\ g.monitor = Factory
  BY DEF Frame, Factory, NoMonitor
<1>4. CASE /\ state[w] = "toThread" /\ state' = [state EXCEPT ![w] = "open"]
           /\ frames' = [frames EXCEPT ![th] = Outer(th)]
  <2>1. StateType /\ Wraps' /\ \A s \in States : state'[s] = state[s]
    BY <1>1, <1>2, <1>4, FurtherWraps
  <2> QED
    BY <1>1, <1>4, <2>1, PopInv
<1>5. CASE state[w] = "newThread" /\ state' = [state EXCEPT ![w] = "reopened"] /\ Becomes(th, g)
  <2>1. StateType /\ Wraps' /\ \A s \in States : state'[s] = state[s]
    BY <1>1, <1>2, <1>5, FurtherWraps
  <2> HIDE DEF g
  <2> QED
    BY <1>1, <1>2, <1>3, <1>5, <2>1, WrapNext DEF WrapOps
<1> QED
  BY <1>4, <1>5 DEF Reopened

LEMMA InsertedInv == ASSUME IInv, NEW th \in Threads, Inserted(th) PROVE IInv'
<1> DEFINE w == Inner(th).about
<1>1. /\ In(th, "insert") /\ frames[th] # <<>> /\ UNCHANGED <<uses, life, wraps>>
      /\ frames' = [frames EXCEPT ![th] = Outer(th)]
      /\ state[w] = "reopened" /\ state' = [state EXCEPT ![w] = "open"]
  BY DEF Inserted, In
<1>2. w \in Wrappers
  BY <1>1, WrapFrame DEF WrapOps
<1>3. StateType /\ Wraps' /\ \A s \in States : state'[s] = state[s]
  BY <1>1, <1>2, FurtherWraps DEF wraps
<1> QED
  BY <1>1, <1>3, PopInv

-----------------------------------------------------------------------------
LEMMA JoinInv ==
    ASSUME IInv, NEW th \in Threads, NEW u \in Threads, Join(th, u) PROVE IInv'
<1> DEFINE f == [Frame("join", NoMonitor, u) EXCEPT !.held = FALSE]
<1>1. f \in Call /\ f.op = "join" /\ f.about = u /\ f.monitor = NoMonitor /\ ~f.held
  BY DEF Frame, Call, Monitor, Ops, LuaStates
<1>2. /\ "join" \in uses /\ InJava(th)
      /\ Calls(th, f) /\ UNCHANGED <<uses, life, state, wraps>>
  BY DEF Join
<1>3. MonitorOf(f) /\ Fits(th, f) /\ Familiar(th, f) /\ life[th] = "running"
  BY <1>1, <1>2, JavaRuns DEF MonitorOf, WrapOps, Leaf, Fits, Familiar
<1>4. StateType /\ Wraps'
  BY <1>2, SameWraps DEF StateType, IInv, TypeOK
<1> HIDE DEF f
<1> QED
  BY <1>1, <1>2, <1>3, <1>4, PushInv

\* The frames stay, and so does what they say.
LEMMA StaysInv == ASSUME IInv, UNCHANGED <<uses, frames, state, wraps>>, TypeOK' PROVE IInv'
<1>1. Waiting' /\ Exclusive'
  BY DEF IInv, Waiting, Exclusive, Calls_
<1>2. Methods'
  BY DEF IInv, Methods, MonitorOf, Calls_, Wrapping
<1>3. Places' /\ Making'
  BY DEF IInv, Places, Making, Calls_
<1>4. Alike'
  BY DEF IInv, Alike, Modest, Calls_
<1>5. Wraps'
  BY SameWraps
<1> QED
  BY <1>1, <1>2, <1>3, <1>4, <1>5 DEF IInv

LEMMA ThreadsInv ==
    ASSUME IInv, NEW th \in Threads,
           EndThread(th) \/ \E u \in Threads : StartThread(th, u)
    PROVE  IInv'
<1>1. UNCHANGED <<uses, frames, state, wraps>>
  BY DEF EndThread, StartThread
<1>2. TypeOK'
  BY <1>1 DEF IInv, TypeOK, wraps, EndThread, StartThread, Idle
<1> QED
  BY <1>1, <1>2, StaysInv

LEMMA NextIInv == IInv /\ [Next]_vars => IInv'
<1> SUFFICES ASSUME IInv, [Next]_vars PROVE IInv'
  OBVIOUS
<1>1. CASE UNCHANGED vars
  <2>1. TypeOK'
    BY <1>1 DEF IInv, TypeOK, vars, wraps
  <2> QED
    BY <1>1, <2>1, StaysInv DEF vars
<1>2. ASSUME NEW th \in Threads,
             \/ Enter(th) \/ CallJava(th) \/ Found(th) \/ CallFunction(th) \/ Return(th)
             \/ Construct(th) \/ Publish(th) \/ CloseRemove(th) \/ CloseReturn(th)
             \/ Insert(th) \/ InsertThrows(th) \/ Reopen(th) \/ Reopened(th) \/ Inserted(th)
             \/ EndThread(th) \/ JoinReturn(th)
      PROVE  IInv'
  BY <1>2, EnterInv, CallJavaInv, FoundInv, CallFunctionInv, ReturnsInv, ConstructInv,
     PublishInv, CloseRemoveInv, InsertInv, InsertThrowsInv, ReopenInv, ReopenedInv,
     InsertedInv, ThreadsInv
<1>3. ASSUME NEW th \in Threads, NEW s \in States, NewLuaState(th, s) \/ Close(th, s)
      PROVE  IInv'
  BY <1>3, NewLuaStateInv, CloseInv
<1>5. ASSUME NEW th \in Threads, NEW o \in LuaStates, CallLua(th, o) \/ DoFile(th, o)
      PROVE  IInv'
  <2>1. CASE CallLua(th, o)
    BY <2>1, LuaCallInv DEF CallLua
  <2>2. CASE DoFile(th, o)
    BY <2>2, LuaCallInv DEF DoFile
  <2> QED
    BY <1>5, <2>1, <2>2
<1>6. ASSUME NEW th \in Threads, NEW o \in LuaStates, NEW w \in Wrappers,
             NewThread(th, o, w) \/ ToThread(th, o, w)
      PROVE  IInv'
  BY <1>6, WrapInv
<1>4. ASSUME NEW th \in Threads, NEW u \in Threads, StartThread(th, u) \/ Join(th, u)
      PROVE  IInv'
  BY <1>4, ThreadsInv, JoinInv
<1> QED
  BY <1>1, <1>2, <1>3, <1>4, <1>5, <1>6 DEF Next

(***************************************************************************)
(* IInv, the type invariant among it, holds whatever the application does, *)
(* whatever the number of its threads and states.                          *)
(***************************************************************************)
THEOREM CallsNest == Spec => []IInv
<1> QED
  BY InitIInv, NextIInv, PTL DEF Spec

-----------------------------------------------------------------------------
\* Two threads inside the same op of s hold its monitor.
LEMMA OneInside ==
    ASSUME IInv, NEW op \in {"lua", "java"},
           op = "lua" => uses \cap {"doFile", "newThread", "toThread"} = {},
           op = "java" => "toThread" \notin uses,
           NEW s \in States, NEW th \in Inside(op, s), NEW u \in Inside(op, s)
    PROVE  th = u
<1>1. PICK i \in Calls_(th) : frames[th][i].op = op /\ frames[th][i].about = s /\ frames[th][i].held
  BY DEF Inside, Calls_
<1>2. PICK j \in Calls_(u) : frames[u][j].op = op /\ frames[u][j].about = s /\ frames[u][j].held
  BY DEF Inside, Calls_
<1>3. th \in Threads /\ u \in Threads
  BY DEF Inside
<1>4. frames[th][i].monitor = s /\ frames[u][j].monitor = s
  BY <1>1, <1>2, <1>3 DEF IInv, Methods, MonitorOf, WrapOps, Wrapping
<1>5. s # NoMonitor
  BY ObjectsAssumption DEF LuaStates
<1> QED
  BY <1>1, <1>2, <1>3, <1>4, <1>5 DEF IInv, Exclusive

(***************************************************************************)
(* JLuaAPI runs Java code called from one state in one thread at a time:   *)
(* synchronized (L) after the lookup suffices, with doFile or LuaStates of *)
(* newThread or not, since all lookups of a state find one LuaState, until *)
(* toThread stores the index of another one.                               *)
(***************************************************************************)
THEOREM JavaIsSerialized == Spec => []JavaSerialized
<1>1. IInv => JavaSerialized
  BY OneInside DEF JavaSerialized
<1> QED
  BY <1>1, CallsNest, PTL

(***************************************************************************)
(* Without doFile, whose monitor is the class's, and as long as nobody     *)
(* makes a second LuaState over a Lua state with newThread or toThread,    *)
(* the synchronized native methods let one thread at a time into the Lua   *)
(* code of a state, nested calls and callbacks included.                   *)
(***************************************************************************)
THEOREM LuaIsSerialized == Spec => []OneInLuaByCalls
<1>1. IInv => OneInLuaByCalls
  BY OneInside DEF OneInLuaByCalls, OneInLua
<1> QED
  BY <1>1, CallsNest, PTL

-----------------------------------------------------------------------------
\* A thread that another one blocks waits with its innermost call for a
\* monitor that the other one has.
LEMMA BlockedWaits ==
    ASSUME IInv, Modest, NEW th \in Threads, NEW u \in Blockers(th)
    PROVE  /\ u \in Threads /\ u # th
           /\ Len(frames[th]) \in Nat \ {0} /\ Len(frames[th]) \in Calls_(th)
           /\ ~frames[th][Len(frames[th])].held
           /\ frames[th][Len(frames[th])].op \notin {"join", "function"}
           /\ Holds(u, frames[th][Len(frames[th])].monitor)
<1> DEFINE f == Inner(th)
<1>1. frames[th] # <<>> /\ ~f.held
  BY DEF Blockers
<1>2. /\ Len(frames[th]) \in Nat \ {0} /\ Len(frames[th]) \in Calls_(th)
      /\ f = frames[th][Len(frames[th])]
  BY <1>1, InnerCall DEF IInv
<1>3. MonitorOf(f)
  BY <1>2 DEF IInv, Methods
<1>4. f.op \notin {"join", "function"}
  BY <1>1, <1>3 DEF Modest, MonitorOf, WrapOps
<1>5. u \in {v \in Threads \ {th} : Holds(v, f.monitor)}
  BY <1>1, <1>4 DEF Blockers
<1> QED
  BY <1>1, <1>2, <1>4, <1>5

\* A LuaState's monitor is taken by calls about it.
LEMMA StateMonitor ==
    ASSUME IInv, Modest, NEW u \in Threads, NEW i \in Calls_(u)
    PROVE  LET f == frames[u][i]
           IN  /\ f.op # "join"
               /\ f.monitor = Factory <=> f.op \in {"lookup", "new", "remove"}
               /\ f.monitor \in States => f.monitor = f.about
               /\ f.monitor \notin States => f.monitor = Factory \/ f.op = "function"
<1>1. MonitorOf(frames[u][i]) /\ frames[u][i].op \in Ops
  <2>1. frames[u] \in Seq(Call)
    BY DEF IInv, TypeOK, Call
  <2>2. frames[u][i] \in Call
    BY <2>1, ElementOfSeq DEF Calls_
  <2> QED
    BY <2>2 DEF IInv, Methods, Call
<1> QED
  BY <1>1, ObjectsAssumption DEF MonitorOf, WrapOps, Wrapping, LuaStates, Ops, Modest, Factory, NoMonitor, ClassLuaState

\* Who holds the factory is not blocked: it waits, if at all, for the state
\* that it constructs.
LEMMA FactoryGoesOn ==
    ASSUME IInv, Modest, NEW u \in Threads, Holds(u, Factory)
    PROVE  Blockers(u) = {}
<1> SUFFICES ASSUME NEW v \in Blockers(u) PROVE FALSE
  OBVIOUS
<1> DEFINE n == Len(frames[u])
<1>1. /\ v \in Threads /\ v # u /\ n \in Nat \ {0} /\ n \in Calls_(u)
      /\ ~frames[u][n].held /\ Holds(v, frames[u][n].monitor)
  BY BlockedWaits
<1>2. PICK i \in Calls_(u) : frames[u][i].monitor = Factory /\ frames[u][i].held
  BY DEF Holds, Calls_
<1>3. i # n /\ frames[u][i].op \in {"lookup", "new", "remove"}
  BY <1>1, <1>2, StateMonitor
<1>4. i = 1 /\ n = 2 /\ frames[u][1].op = "new" /\ frames[u][2].op = "open"
  <2>1. Place(frames[u], i)
    BY DEF IInv, Places
  <2>2. i \in 1 .. n
    BY DEF Calls_
  <2> HIDE DEF n
  <2>3. frames[u][i].op = "new" /\ n > 1
    BY <1>1, <1>3, <2>1, <2>2 DEF Leaf, WrapOps, Place, n
  <2> QED
    BY <2>1, <2>3 DEF Leaf, WrapOps, Place, n
<1> DEFINE s == frames[u][1].about
<1>5. frames[u][2].monitor = s /\ s \in States
  <2>1. /\ 1 \in Calls_(u) /\ 2 \in Calls_(u) /\ Place(frames[u], 2)
        /\ MonitorOf(frames[u][1]) /\ MonitorOf(frames[u][2])
    BY <1>1, <1>4 DEF IInv, Places, Methods, Calls_
  <2> QED
    BY <1>4, <2>1 DEF Leaf, Place, MonitorOf, WrapOps
<1>6. PICK j \in Calls_(v) : frames[v][j].monitor = s
  BY <1>1, <1>4, <1>5 DEF Holds, Calls_
<1>7. frames[v][j].about = s
  BY <1>1, <1>5, <1>6, StateMonitor
<1> QED
  BY <1>1, <1>2, <1>4, <1>7 DEF IInv, Making

LEMMA NoRing == ASSUME IInv, Modest PROVE NoDeadlock
<1> SUFFICES ASSUME NEW D \in SUBSET Threads, D # {},
                    \A th \in D : Blockers(th) \cap D # {}
             PROVE  FALSE
  BY DEF NoDeadlock
<1>1. PICK th \in D : TRUE
  OBVIOUS
<1>2. PICK u \in D : u \in Blockers(th)
  BY <1>1
<1>3. PICK v \in D : v \in Blockers(u)
  BY <1>2
<1>4. th \in Threads /\ u \in Threads /\ v \in Threads
  BY <1>1, <1>2, <1>3
<1> DEFINE n == Len(frames[th])
           m == Len(frames[u])
<1>5. /\ n \in Calls_(th) /\ frames[th][n].op # "function"
      /\ Holds(u, frames[th][n].monitor)
  BY <1>2, <1>4, BlockedWaits
<1>6. /\ m \in Calls_(u) /\ frames[u][m].op # "function" /\ v # u
      /\ Holds(v, frames[u][m].monitor)
  BY <1>3, <1>4, BlockedWaits
<1>7. frames[th][n].monitor # Factory /\ frames[u][m].monitor # Factory
  <2>1. ~Holds(u, Factory) /\ ~Holds(v, Factory)
    BY <1>2, <1>3, <1>4, FactoryGoesOn
  <2> QED
    BY <1>5, <1>6, <2>1
<1>8. frames[th][n].monitor \in States /\ frames[u][m].monitor \in States
  BY <1>4, <1>5, <1>6, <1>7, StateMonitor
<1>9. PICK i \in Calls_(u) : frames[u][i].monitor = frames[th][n].monitor /\ frames[u][i].held
  BY <1>5 DEF Holds, Calls_
<1>10. PICK j \in Calls_(v) : frames[v][j].monitor = frames[u][m].monitor /\ frames[v][j].held
  BY <1>6 DEF Holds, Calls_
<1>11. frames[u][i].about = frames[u][m].about
  <2>1. frames[u][i].op # "join" /\ frames[u][m].op # "join" /\ Modest
    BY <1>4, <1>6, <1>9, StateMonitor DEF Modest
  <2> QED
    BY <1>4, <1>6, <1>9, <2>1 DEF IInv, Alike
<1>12. frames[u][i].monitor = frames[v][j].monitor /\ frames[u][i].monitor # NoMonitor
  <2>1. /\ frames[u][i].monitor = frames[u][i].about
        /\ frames[u][m].monitor = frames[u][m].about
    BY <1>4, <1>6, <1>8, <1>9, StateMonitor
  <2> QED
    BY <1>8, <1>9, <1>10, <1>11, <2>1, ObjectsAssumption DEF LuaStates
<1> QED
  BY <1>4, <1>6, <1>9, <1>10, <1>12 DEF IInv, Exclusive

(***************************************************************************)
(* JLua's own monitors, those of the LuaStates and of the factory, cause   *)
(* no deadlock: it takes doFile, a second LuaState over a Lua state, Java  *)
(* code that goes from one state to another, or a join.                    *)
(***************************************************************************)
THEOREM CallsNeverDeadlock == Spec => []NoDeadlockByCalls
<1>1. IInv => NoDeadlockByCalls
  BY NoRing DEF NoDeadlockByCalls, Modest
<1> QED
  BY <1>1, CallsNest, PTL
=============================================================================
