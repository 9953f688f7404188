-------------------------- MODULE LuaObjectsProofs --------------------------
(***************************************************************************)
(* For any number of LuaObjects, threads and values: nothing reaches into  *)
(* the Lua state once it is freed, and, while one thread at most is on the *)
(* facade, the stack has grown by exactly what failed methods have left on *)
(* it, and, until a worker's call fails in the middle of a facade method,  *)
(* every method finds on the stack what it has pushed, so that a LuaObject *)
(* denotes the value it was built from.                                    *)
(*                                                                         *)
(* The argument: a thread's program counter tells how many elements of the *)
(* stack are its own and whether it has the monitor (Steps); who has the   *)
(* monitor works on top of what the others have left (Deep, Framed,        *)
(* Counted); a LuaObject is built by one thread (Building), and released   *)
(* by the finalizer when Java has dropped it (Registered).                 *)
(***************************************************************************)
EXTENDS LuaObjects, SequenceTheorems, TLAPS

Tab == INSTANCE RefTableProofs

\* Where a thread has the monitor.
InsideSteps == {"new.get", "new.ref", "new.pop",
                "call.push", "call.arg", "call.result", "call.pop",
                "fin.check", "fin.unref", "fin.leave", "close.free", "close.null"}

\* Where a thread is going to build its target.
BuildSteps == {"new.enter", "new.get", "new.ref",
               "call.enter", "call.push", "call.arg", "call.result",
               "get.ref", "ex.arg", "field.key", "field.get", "field.ref"}

\* How many elements of the stack may be the thread's own at l: a function
\* and its arguments, or a number that l tells.
ArgSteps == {"call.arg", "ex.arg"}
One == {"new.ref", "new.pop", "call.result", "call.pop", "get.ref", "get.pop", "set",
        "field.key", "table.key", "table.pop"}
Two == {"field.get", "field.ref", "field.pop", "table.value"}
Three == {"table.set"}
Depth(l) == IF l \in Three THEN 3 ELSE IF l \in Two THEN 2 ELSE IF l \in One THEN 1 ELSE 0
Fits(l, n) == IF l \in ArgSteps THEN n >= 1 ELSE n = Depth(l)

Steps == \A p \in Threads :
    /\ p \in Workers => pc[p] \in {"idle"} \cup NewSteps \cup CallSteps \cup CloseSteps
    /\ p \in Callers => pc[p] \in {"idle"} \cup FacadeSteps \cup CloseSteps
    /\ p = Finalizer => pc[p] \in {"idle"} \cup FinSteps
    /\ owner = p <=> pc[p] \in InsideSteps
    /\ Fits(pc[p], Len(frame[p]))

\* The state is closed when no thread is in the middle of something else, and
\* freed before its address is forgotten.
Ends ==
    /\ \A p \in Threads : pc[p] \in CloseSteps =>
           peer /\ \A q \in Workers \cup Callers : q # p => pc[q] = "idle"
    /\ alive <=> peer /\ \A p \in Threads : pc[p] # "close.null"
    /\ ~peer => \A p \in Workers \cup Callers : pc[p] = "idle"
    /\ pc[Finalizer] = "fin.unref" => peer

\* An object that is being built is nobody's but its builder's.
Building == \A p \in Threads : pc[p] \in BuildSteps =>
    /\ target[p] \in Objects /\ life[target[p]] = "unborn"
    /\ \A q \in Threads : q # p /\ pc[q] \in BuildSteps => target[q] # target[p]

\* An object stays registered while Java uses it, and until it is finalized.
Registered ==
    /\ \A o \in Objects : life[o] = "built" => ref[o] # None
    /\ \A p \in Threads : pc[p] \in CallSteps => func[p] \in Objects /\ life[func[p]] = "built"
    /\ pc[Finalizer] \in FinSteps =>
           target[Finalizer] \in Objects /\ life[target[Finalizer]] = "dropped"

\* The owner's elements are there.
Deep == owner \in Workers => Len(stack) >= Len(frame[owner])

OneCaller == \A c, d \in Callers : c = d

Framed == OneCaller => StackFramed
Right == OneCaller => ObjectsRight
Counted == OneCaller => LeftoversExact

\* What RefTableProofs shows of the registry, keys and free list.
Sound == Tab!IInv

IInv == /\ TypeOK /\ Sound
        /\ Steps /\ Ends /\ Building /\ Registered /\ Deep
        /\ Framed /\ Right /\ Counted

-----------------------------------------------------------------------------
(* The top of a stack, with others' elements below. *)

LEMMA DropProperties ==
    ASSUME NEW T, NEW s \in Seq(T), NEW n \in Nat, n <= Len(s)
    PROVE  /\ Drop(s, n) \in Seq(T)
           /\ Len(Drop(s, n)) = Len(s) - n
           /\ \A i \in 1 .. Len(s) - n : Drop(s, n)[i] = s[i]
<1>1. Len(s) \in Nat /\ \A i \in 1 .. Len(s) - n : s[i] \in T
  BY LenProperties, ElementOfSeq
<1> QED
  BY <1>1, SubSeqProperties DEF Drop

LEMMA DropOver ==
    ASSUME NEW T, NEW base \in Seq(T), NEW s \in Seq(T), NEW n \in Nat, n <= Len(s)
    PROVE  Drop(base \o s, n) = base \o Drop(s, n)
<1>1. /\ Len(base) \in Nat /\ Len(s) \in Nat
      /\ base \o s \in Seq(T) /\ Len(base \o s) = Len(base) + Len(s)
      /\ \A i \in 1 .. Len(base) + Len(s) :
             (base \o s)[i] = IF i <= Len(base) THEN base[i] ELSE s[i - Len(base)]
  BY LenProperties, ConcatProperties
<1> DEFINE d == Drop(s, n)
           e == Drop(base \o s, n)
<1>2. d \in Seq(T) /\ Len(d) = Len(s) - n /\ \A i \in 1 .. Len(s) - n : d[i] = s[i]
  BY DropProperties
<1>3. /\ e \in Seq(T) /\ Len(e) = Len(base) + Len(s) - n
      /\ \A i \in 1 .. Len(base) + Len(s) - n : e[i] = (base \o s)[i]
  <2> DEFINE b == base \o s
  <2>1. b \in Seq(T) /\ Len(b) = Len(base) + Len(s) /\ n <= Len(b)
    BY <1>1
  <2> HIDE DEF b
  <2>2. /\ Drop(b, n) \in Seq(T) /\ Len(Drop(b, n)) = Len(b) - n
        /\ \A i \in 1 .. Len(b) - n : Drop(b, n)[i] = b[i]
    BY <2>1, DropProperties
  <2> QED
    BY <2>1, <2>2 DEF b
<1> HIDE DEF d, e
<1>4. /\ base \o d \in Seq(T) /\ Len(base \o d) = Len(base) + Len(s) - n
      /\ \A i \in 1 .. Len(base) + Len(s) - n :
             (base \o d)[i] = IF i <= Len(base) THEN base[i] ELSE d[i - Len(base)]
  <2>1. d \in Seq(T) /\ Len(base) + Len(d) = Len(base) + Len(s) - n
    BY <1>1, <1>2
  <2>2. /\ base \o d \in Seq(T) /\ Len(base \o d) = Len(base) + Len(d)
        /\ \A i \in 1 .. Len(base) + Len(d) :
               (base \o d)[i] = IF i <= Len(base) THEN base[i] ELSE d[i - Len(base)]
    BY <2>1, ConcatProperties
  <2> QED
    BY <2>1, <2>2
<1>5. ASSUME NEW i \in 1 .. Len(e) PROVE e[i] = (base \o d)[i]
  <2>1. i \in Nat /\ 1 <= i /\ i <= Len(base) + Len(s) - n /\ i <= Len(base) + Len(s)
    BY <1>1, <1>3
  <2>2. /\ e[i] = (base \o s)[i]
        /\ (base \o s)[i] = IF i <= Len(base) THEN base[i] ELSE s[i - Len(base)]
        /\ (base \o d)[i] = IF i <= Len(base) THEN base[i] ELSE d[i - Len(base)]
    BY <1>1, <1>3, <1>4, <2>1
  <2>3. i > Len(base) => d[i - Len(base)] = s[i - Len(base)]
    BY <1>1, <1>2, <2>1
  <2> QED
    BY <1>1, <2>1, <2>2, <2>3
<1>6. e = base \o d
  BY <1>3, <1>4, <1>5, SeqEqual
<1> QED
  BY <1>6 DEF d, e

LEMMA TopOver ==
    ASSUME NEW T, NEW base \in Seq(T), NEW s \in Seq(T), Len(s) > 0
    PROVE  Top(base \o s) = Top(s)
<1>1. Len(base) \in Nat /\ Len(s) \in Nat
  BY LenProperties
<1> QED
  BY <1>1, ConcatProperties DEF Top

LEMMA TopIn ==
    ASSUME NEW T, NEW s \in Seq(T), Len(s) > 0
    PROVE  Top(s) \in T
<1>1. Len(s) \in 1 .. Len(s)
  BY LenProperties
<1> QED
  BY <1>1, ElementOfSeq DEF Top

\* Both a stack and its uppermost part change by the same length.
LEMMA SameShift ==
    ASSUME NEW x \in Nat, NEW y \in Nat, NEW f \in Nat, NEW g \in Nat, NEW b \in Nat,
           x = b + f, y - x = g - f
    PROVE  y = b + g
OBVIOUS

-----------------------------------------------------------------------------
(* What a step does to the stack and to what its thread takes to be its    *)
(* part of it: the same to both, whatever is below.                        *)

Local(p) ==
    /\ stack' \in Seq(Things) /\ frame' \in [Threads -> Seq(Things)]
    /\ \A q \in Threads : q # p => frame'[q] = frame[q]
    /\ Len(stack') - Len(stack) = Len(frame'[p]) - Len(frame[p])
    /\ \A base \in Seq(Things) : stack = base \o frame[p] => stack' = base \o frame'[p]

LEMMA PushLocal ==
    ASSUME TypeOK, NEW p \in Threads, NEW v \in Things, Push(p, v)
    PROVE  Local(p) /\ Len(frame'[p]) = Len(frame[p]) + 1
<1>1. stack \in Seq(Things) /\ frame[p] \in Seq(Things) /\ frame \in [Threads -> Seq(Things)]
  BY DEF TypeOK
<1>2. /\ stack' = Append(stack, v)
      /\ frame' = [frame EXCEPT ![p] = Append(frame[p], v)]
  BY DEF Push
<1>3. /\ Append(stack, v) \in Seq(Things) /\ Len(Append(stack, v)) = Len(stack) + 1
      /\ Append(frame[p], v) \in Seq(Things) /\ Len(Append(frame[p], v)) = Len(frame[p]) + 1
      /\ Len(stack) \in Nat /\ Len(frame[p]) \in Nat
  BY <1>1, AppendProperties, LenProperties
<1>4. frame'[p] = Append(frame[p], v)
  BY <1>1, <1>2
<1>5. ASSUME NEW base \in Seq(Things), stack = base \o frame[p] PROVE stack' = base \o frame'[p]
  <2> DEFINE f == frame[p]
  <2>1. f \in Seq(Things)
    BY <1>1
  <2> HIDE DEF f
  <2>2. Append(base \o f, v) = base \o Append(f, v)
    BY <2>1
  <2> QED
    BY <1>2, <1>4, <1>5, <2>2 DEF f
<1>6. /\ stack' \in Seq(Things) /\ frame' \in [Threads -> Seq(Things)]
      /\ \A q \in Threads : q # p => frame'[q] = frame[q]
  BY <1>1, <1>2, <1>3
<1>7. Len(stack') - Len(stack) = Len(frame'[p]) - Len(frame[p])
  BY <1>2, <1>3, <1>4
<1> QED
  BY <1>3, <1>4, <1>5, <1>6, <1>7 DEF Local

LEMMA PopLocal ==
    ASSUME TypeOK, NEW p \in Threads, NEW n \in Nat, n <= Len(frame[p]), Pop(p, n)
    PROVE  Local(p) /\ Len(frame'[p]) = Len(frame[p]) - n
<1>1. stack \in Seq(Things) /\ frame[p] \in Seq(Things) /\ frame \in [Threads -> Seq(Things)]
  BY DEF TypeOK
<1>2. /\ stack' = Drop(stack, n) /\ n <= Len(stack)
      /\ frame' = [frame EXCEPT ![p] = Drop(frame[p], n)]
      /\ Len(stack) \in Nat /\ Len(frame[p]) \in Nat
  BY <1>1, LenProperties DEF Pop
<1>3. /\ Drop(stack, n) \in Seq(Things) /\ Len(Drop(stack, n)) = Len(stack) - n
      /\ Drop(frame[p], n) \in Seq(Things) /\ Len(Drop(frame[p], n)) = Len(frame[p]) - n
  BY <1>1, <1>2, DropProperties
<1>4. frame'[p] = Drop(frame[p], n)
  BY <1>1, <1>2
<1>5. ASSUME NEW base \in Seq(Things), stack = base \o frame[p] PROVE stack' = base \o frame'[p]
  BY <1>1, <1>2, <1>4, <1>5, DropOver
<1>6. /\ stack' \in Seq(Things) /\ frame' \in [Threads -> Seq(Things)]
      /\ \A q \in Threads : q # p => frame'[q] = frame[q]
  BY <1>1, <1>2, <1>3
<1>7. Len(stack') - Len(stack) = Len(frame'[p]) - Len(frame[p])
  BY <1>2, <1>3, <1>4
<1> QED
  BY <1>3, <1>4, <1>5, <1>6, <1>7 DEF Local

LEMMA ReplaceLocal ==
    ASSUME TypeOK, NEW p \in Threads, NEW n \in Nat, n <= Len(frame[p]),
           NEW r \in Things, Replace(p, n, r)
    PROVE  Local(p) /\ Len(frame'[p]) = Len(frame[p]) - n + 1
<1> DEFINE f == frame[p]
           d == Drop(f, n)
           e == Drop(stack, n)
<1>1. stack \in Seq(Things) /\ f \in Seq(Things) /\ frame \in [Threads -> Seq(Things)]
  BY DEF TypeOK
<1>2. /\ stack' = Append(e, r) /\ n <= Len(stack) /\ n <= Len(f)
      /\ frame' = [frame EXCEPT ![p] = Append(d, r)]
      /\ Len(stack) \in Nat /\ Len(f) \in Nat
  BY <1>1, LenProperties DEF Replace
<1> HIDE DEF f
<1>3. /\ e \in Seq(Things) /\ Len(e) = Len(stack) - n
      /\ d \in Seq(Things) /\ Len(d) = Len(f) - n
  BY <1>1, <1>2, DropProperties
<1>4. ASSUME NEW base \in Seq(Things), stack = base \o f PROVE e = base \o d
  BY <1>1, <1>2, <1>4, DropOver
<1> HIDE DEF d, e
<1>5. /\ Append(e, r) \in Seq(Things) /\ Len(Append(e, r)) = Len(stack) - n + 1
      /\ Append(d, r) \in Seq(Things) /\ Len(Append(d, r)) = Len(f) - n + 1
  BY <1>2, <1>3, AppendProperties
<1>6. frame'[p] = Append(d, r)
  BY <1>1, <1>2
<1>7. ASSUME NEW base \in Seq(Things), stack = base \o f PROVE stack' = base \o frame'[p]
  <2>1. <<r>> \in Seq(Things) /\ base \o d \in Seq(Things)
    BY <1>3, ConcatProperties
  <2>2. Append(base \o d, r) = (base \o d) \o <<r>> /\ Append(d, r) = d \o <<r>>
    BY <1>3, <2>1, AppendIsConcat
  <2>3. (base \o d) \o <<r>> = base \o (d \o <<r>>)
    BY <1>3, <2>1, ConcatAssociative
  <2>4. e = base \o d
    BY <1>4, <1>7
  <2> QED
    BY <1>2, <1>6, <2>2, <2>3, <2>4
<1>8. /\ stack' \in Seq(Things) /\ frame' \in [Threads -> Seq(Things)]
      /\ \A q \in Threads : q # p => frame'[q] = frame[q]
  BY <1>1, <1>2, <1>5
<1>9. Len(stack') - Len(stack) = Len(frame'[p]) - Len(f) /\ Len(frame'[p]) = Len(f) - n + 1
  <2>1. Len(stack') = Len(stack) - n + 1 /\ Len(frame'[p]) = Len(f) - n + 1
    BY <1>2, <1>5, <1>6
  <2>2. Len(stack) \in Nat /\ Len(f) \in Nat /\ n \in Nat
    BY <1>2
  <2> QED
    BY <2>1, <2>2
<1> QED
  BY <1>7, <1>8, <1>9 DEF Local, f

LEMMA SameLocal ==
    ASSUME TypeOK, NEW p \in Threads, stack' = stack, frame' = frame
    PROVE  Local(p)
<1>1. stack \in Seq(Things) /\ frame[p] \in Seq(Things) /\ frame \in [Threads -> Seq(Things)]
  BY DEF TypeOK
<1> QED
  BY <1>1, LenProperties DEF Local

-----------------------------------------------------------------------------
(* Who may touch the stack: a worker that has the monitor, or a caller     *)
(* while nobody has it.  Entering and leaving happens with no elements.    *)

Kind(p) ==
    \/ /\ p \in Workers /\ owner = p /\ Local(p)
       /\ owner' # p => owner' = Nobody /\ Len(frame'[p]) = 0
    \/ p \in Callers /\ owner = Nobody /\ owner' = Nobody /\ Local(p)
    \/ /\ stack' = stack /\ frame' = frame /\ Len(frame[p]) = 0
       /\ {owner, owner'} \subseteq {p, Nobody}
    \/ stack' = stack /\ frame' = frame /\ owner' = owner

LEMMA EmptyFrame ==
    ASSUME NEW T, NEW s \in Seq(T), Len(s) = 0
    PROVE  s = <<>>
BY EmptySeq

\* The facade thread's part of the stack.
LEMMA CallersPart ==
    ASSUME TypeOK
    PROVE  /\ CallerFrame \in Seq(Things) /\ OwnerFrame \in Seq(Things)
           /\ \A c \in Callers : OneCaller => CallerFrame = frame[c]
<1>1. \A p \in Threads : frame[p] \in Seq(Things)
  BY DEF TypeOK
<1>2. <<>> \in Seq(Things)
  BY EmptySeq
<1>3. Callers # {} => (CHOOSE c \in Callers : TRUE) \in Callers
  OBVIOUS
<1>4. Callers \subseteq Threads /\ Workers \subseteq Threads
  BY DEF Threads
<1> QED
  BY <1>1, <1>2, <1>3, <1>4 DEF CallerFrame, OwnerFrame, OneCaller

\* A step of another thread leaves it alone.
LEMMA CallersPartStays ==
    ASSUME NEW p \in Threads, p \notin Callers, \A q \in Threads : q # p => frame'[q] = frame[q]
    PROVE  CallerFrame' = CallerFrame
<1>1. Callers # {} => (CHOOSE c \in Callers : TRUE) \in Callers
  OBVIOUS
<1> QED
  BY <1>1 DEF CallerFrame, Threads

\* What lies below the facade thread's elements, and below the owner's.
LEMMA Below ==
    ASSUME TypeOK
    PROVE  /\ left \in Seq(Things) /\ left \o CallerFrame \in Seq(Things)
           /\ Len(left) \in Nat /\ Len(left \o CallerFrame) = Len(left) + Len(CallerFrame)
           /\ Len(CallerFrame) \in Nat /\ Len(OwnerFrame) \in Nat
           /\ <<>> \in Seq(Things) /\ Len(<<>>) = 0
<1>1. left \in Seq(Things) /\ CallerFrame \in Seq(Things) /\ OwnerFrame \in Seq(Things)
  BY CallersPart DEF TypeOK
<1> QED
  BY <1>1, ConcatProperties, LenProperties, EmptySeq

\* A step that leaves nothing behind: the elements of the owner, of the facade
\* thread and those left over are counted exactly.
LEMMA StackStep ==
    ASSUME IInv, NEW p \in Threads, Kind(p), alive' => alive, UNCHANGED litter
    PROVE  Deep' /\ Framed' /\ Counted'
<1>1. TypeOK /\ Deep /\ Framed /\ Counted /\ left' = left /\ disturbed' = disturbed
  BY DEF IInv, litter
<1>2. /\ stack \in Seq(Things) /\ frame[p] \in Seq(Things)
      /\ Len(stack) \in Nat /\ Len(frame[p]) \in Nat
      /\ CallerFrame \in Seq(Things) /\ Len(CallerFrame) \in Nat
      /\ OwnerFrame \in Seq(Things) /\ Len(OwnerFrame) \in Nat
      /\ left \in Seq(Things) /\ Len(left) \in Nat /\ left \o CallerFrame \in Seq(Things)
  BY <1>1, Below, CallersPart, LenProperties DEF TypeOK
<1>3. Nobody \notin Workers /\ Nobody \notin Callers
  BY ThreadsAssumption DEF Threads
<1>4. SUFFICES /\ Deep'
               /\ OneCaller /\ alive' /\ ~disturbed =>
                      stack' = (left \o CallerFrame') \o OwnerFrame'
               /\ OneCaller /\ alive' =>
                      Len(stack') = Len(left) + Len(CallerFrame') + Len(OwnerFrame')
  BY <1>1 DEF Framed, Counted, StackFramed, LeftoversExact, OneCaller
<1>5. /\ OneCaller /\ alive' /\ ~disturbed => stack = (left \o CallerFrame) \o OwnerFrame
      /\ OneCaller /\ alive' => Len(stack) = Len(left) + Len(CallerFrame) + Len(OwnerFrame)
  BY <1>1 DEF Framed, Counted, StackFramed, LeftoversExact
<1>6. CASE /\ p \in Workers /\ owner = p /\ Local(p)
           /\ owner' # p => owner' = Nobody /\ Len(frame'[p]) = 0
  <2>1. /\ frame'[p] \in Seq(Things) /\ Len(frame'[p]) \in Nat
        /\ stack' \in Seq(Things) /\ Len(stack') \in Nat
        /\ Len(stack') - Len(stack) = Len(frame'[p]) - Len(frame[p])
    BY <1>6, LenProperties DEF Local
  <2>2. CallerFrame' = CallerFrame
    BY <1>6, ThreadsAssumption, CallersPartStays DEF Local
  <2>3. OwnerFrame = frame[p] /\ OwnerFrame' = frame'[p]
    <3>1. CASE owner' = p
      BY <1>6, <3>1 DEF OwnerFrame
    <3>2. CASE owner' # p
      BY <1>3, <1>6, <2>1, <3>2, EmptyFrame DEF OwnerFrame
    <3> QED
      BY <1>6, <3>1, <3>2 DEF OwnerFrame
  <2>4. Deep'
    BY <1>1, <1>2, <1>3, <1>6, <2>1 DEF Deep
  <2>5. stack = (left \o CallerFrame) \o OwnerFrame =>
            stack' = (left \o CallerFrame') \o OwnerFrame'
    BY <1>2, <1>6, <2>2, <2>3 DEF Local
  <2>6. ASSUME OneCaller, alive'
        PROVE  Len(stack') = Len(left) + Len(CallerFrame') + Len(OwnerFrame')
    <3>1. Len(stack) = Len(left) + Len(CallerFrame) + Len(frame[p])
      BY <1>5, <2>3, <2>6
    <3> DEFINE b == Len(left) + Len(CallerFrame)
               x == Len(stack)
               y == Len(stack')
               f == Len(frame[p])
               g == Len(frame'[p])
    <3>2. b \in Nat /\ x \in Nat /\ y \in Nat /\ f \in Nat /\ g \in Nat
      BY <1>2, <2>1
    <3>3. x = b + f
      BY <3>1
    <3>4. y - x = g - f
      BY <2>1
    <3> HIDE DEF b, x, y, f, g
    <3>5. y = b + g
      BY <3>2, <3>3, <3>4, SameShift
    <3> QED
      BY <2>2, <2>3, <3>5 DEF b, y, g
  <2> QED
    BY <1>5, <2>4, <2>5, <2>6
<1>7. CASE p \in Callers /\ owner = Nobody /\ owner' = Nobody /\ Local(p)
  <2>1. /\ frame'[p] \in Seq(Things) /\ Len(frame'[p]) \in Nat
        /\ stack' \in Seq(Things) /\ Len(stack') \in Nat
        /\ Len(stack') - Len(stack) = Len(frame'[p]) - Len(frame[p])
    BY <1>7, LenProperties DEF Local
  <2>2. OneCaller => CallerFrame = frame[p] /\ CallerFrame' = frame'[p]
    BY <1>1, <1>7 DEF CallerFrame, OneCaller
  <2>3. OwnerFrame = <<>> /\ OwnerFrame' = <<>> /\ Deep'
    BY <1>3, <1>7 DEF OwnerFrame, Deep
  <2>4. ASSUME OneCaller, stack = (left \o CallerFrame) \o OwnerFrame
        PROVE  stack' = (left \o CallerFrame') \o OwnerFrame'
    <3>1. stack = left \o frame[p]
      <4> DEFINE s == left \o CallerFrame
      <4>1. s \in Seq(Things) /\ stack = s \o <<>>
        BY <1>2, <2>3, <2>4
      <4> HIDE DEF s
      <4>2. s \o <<>> = s
        BY <4>1, ConcatEmptySeq
      <4> QED
        BY <2>2, <2>4, <4>1, <4>2 DEF s
    <3>2. stack' = left \o frame'[p]
      BY <1>2, <1>7, <3>1 DEF Local
    <3>3. stack' \o <<>> = stack'
      BY <2>1, ConcatEmptySeq
    <3> QED
      BY <2>2, <2>3, <2>4, <3>2, <3>3
  <2>5. ASSUME OneCaller, alive'
        PROVE  Len(stack') = Len(left) + Len(CallerFrame') + Len(OwnerFrame')
    <3> DEFINE b == Len(left)
               x == Len(stack)
               y == Len(stack')
               f == Len(frame[p])
               g == Len(frame'[p])
    <3>1. Len(<<>>) = 0
      OBVIOUS
    <3>2. x = Len(left) + Len(CallerFrame) + 0
      BY <1>5, <2>3, <2>5, <3>1
    <3>3. b \in Nat /\ x \in Nat /\ y \in Nat /\ f \in Nat /\ g \in Nat
      BY <1>2, <2>1
    <3>4. y - x = g - f
      BY <2>1
    <3>5. CallerFrame = frame[p]
      BY <2>2, <2>5
    <3>6. x = b + f + 0
      BY <3>2, <3>5
    <3> HIDE DEF b, x, y, f, g
    <3>7. x = b + f
      BY <3>3, <3>6
    <3>8. y = b + g
      BY <3>3, <3>4, <3>7, SameShift
    <3>9. Len(stack') = Len(left) + Len(CallerFrame')
      BY <2>2, <2>5, <3>8 DEF b, y, g
    <3>10. Len(left) \in Nat /\ Len(CallerFrame') \in Nat
      BY <1>2, <2>1, <2>2, <2>5
    <3> QED
      BY <2>3, <3>1, <3>9, <3>10
  <2> QED
    BY <1>5, <2>3, <2>4, <2>5
<1>8. CASE /\ stack' = stack /\ frame' = frame /\ Len(frame[p]) = 0
           /\ {owner, owner'} \subseteq {p, Nobody}
  <2>1. frame[p] = <<>>
    BY <1>2, <1>8, EmptyFrame
  <2>2. OwnerFrame = <<>> /\ OwnerFrame' = <<>>
    BY <1>3, <1>8, <2>1 DEF OwnerFrame
  <2>3. Deep'
    BY <1>2, <1>3, <1>8 DEF Deep
  <2>4. CallerFrame' = CallerFrame
    BY <1>8 DEF CallerFrame
  <2> QED
    BY <1>5, <1>8, <2>2, <2>3, <2>4
<1>9. CASE stack' = stack /\ frame' = frame /\ owner' = owner
  <2>1. CallerFrame' = CallerFrame /\ OwnerFrame' = OwnerFrame /\ Deep'
    BY <1>1, <1>9 DEF CallerFrame, OwnerFrame, Deep
  <2> QED
    BY <1>5, <1>9, <2>1
<1> QED
  BY <1>6, <1>7, <1>8, <1>9 DEF Kind

\* What is left over is of the right type, and a disturbance is never undone.
LitterOK == left' \in Seq(Things) /\ disturbed' \in BOOLEAN /\ (~disturbed' => ~disturbed)

LEMMA SameLitter ==
    ASSUME TypeOK, UNCHANGED litter
    PROVE  LitterOK
BY DEF TypeOK, litter, LitterOK

-----------------------------------------------------------------------------
(* The registry. *)

LEMMA TableAssumptions == Tab!NilAssumption /\ Tab!NoneAssumption /\ Tab!MaxRefAssumption
BY RegistryAssumption DEF Tab!NilAssumption, Tab!NoneAssumption, Tab!MaxRefAssumption

\* Both instances speak of one table.
LEMMA OneTable ==
    /\ \A o : Reg!Denotes(o) = Tab!Denotes(o) /\ Reg!Denotes(o)' = Tab!Denotes(o)'
    /\ \A o, v : Reg!Register(o, v) => Tab!Register(o, v)
    /\ \A o : Reg!RegisterNil(o) => Tab!RegisterNil(o)
    /\ \A o : Reg!Finalize(o) => Tab!Finalize(o)
    /\ Reg!TypeOK <=> Tab!TypeOK
BY DEF Reg!Denotes, Tab!Denotes, Reg!Register, Tab!Register, Reg!RegisterNil, Tab!RegisterNil,
   Reg!Finalize, Tab!Finalize, Reg!TypeOK, Tab!TypeOK, Reg!RefKeys, Tab!RefKeys,
   Reg!AfterRef, Tab!AfterRef, Reg!AfterUnref, Tab!AfterUnref, Reg!FirstFree, Tab!FirstFree,
   Reg!Borders, Tab!Borders, Reg!RawGet, Tab!RawGet, Reg!Keys, Tab!Keys, Reg!Slots, Tab!Slots,
   Reg!FreelistRef, Tab!FreelistRef, Reg!RefNil, Tab!RefNil

\* What a step of the registry about object o leaves.
TableStep(o) ==
    /\ Reg!Next /\ Sound' /\ Reg!TypeOK'
    /\ \A q \in Objects : q # o => ref'[q] = ref[q] /\ Reg!Denotes(q)' = Reg!Denotes(q)

LEMMA AnyTableStep ==
    ASSUME Sound, NEW o \in Objects, Reg!Next,
           (\E v \in Values : Tab!Register(o, v)) \/ Tab!RegisterNil(o) \/ Tab!Finalize(o)
    PROVE  TableStep(o)
<1>1. Tab!Next
  BY DEF Tab!Next
<1>2. Sound'
  BY <1>1, TableAssumptions, Tab!NextInv DEF Sound
<1>3. Reg!TypeOK'
  BY <1>2, OneTable DEF Sound, Tab!IInv, Tab!TypeOK, Reg!TypeOK, Tab!Slots, Reg!Slots,
     Tab!Keys, Reg!Keys, Tab!RefNil, Reg!RefNil
<1>4. ASSUME NEW q \in Objects, q # o PROVE ref'[q] = ref[q] /\ Reg!Denotes(q)' = Reg!Denotes(q)
  <2>1. Tab!Denotes(q)' = Tab!Denotes(q)
    BY <1>4, TableAssumptions, Tab!OthersKeep DEF Sound
  <2>2. ref'[q] = ref[q]
    BY <1>4 DEF Sound, Tab!IInv, Tab!TypeOK, Tab!Register, Tab!RegisterNil, Tab!Finalize
  <2> QED
    BY <2>1, <2>2, OneTable
<1> QED
  BY <1>2, <1>3, <1>4 DEF TableStep

LEMMA RegisterTable ==
    ASSUME Sound, NEW o \in Objects, NEW v \in Values, Reg!Register(o, v)
    PROVE  TableStep(o) /\ ref[o] = None /\ ref'[o] # None /\ Reg!Denotes(o)' = v
<1>1. Tab!Register(o, v) /\ Reg!Next
  BY OneTable DEF Reg!Next
<1>2. PICK k \in Tab!RefKeys(t) : t' = Tab!AfterRef(t, k, v) /\ ref' = [ref EXCEPT ![o] = k]
  BY <1>1 DEF Tab!Register
<1>3. k \in Tab!Keys
  BY TableAssumptions, Tab!RefKeyUnheld DEF Sound, Tab!IInv
<1>4. ref[o] = None /\ ref'[o] = k /\ ref'[o] # None
  BY <1>1, <1>2, <1>3, RegistryAssumption DEF Tab!Register, Sound, Tab!IInv, Tab!TypeOK, Tab!Keys
<1>5. Tab!Denotes(o)' = v
  BY <1>2, <1>3, <1>4, RegistryAssumption
     DEF Sound, Tab!IInv, Tab!TypeOK, Tab!Denotes, Tab!RawGet, Tab!AfterRef, Tab!Keys,
         Tab!Slots, Tab!FreelistRef
<1> QED
  BY <1>1, <1>4, <1>5, AnyTableStep, OneTable

LEMMA RegisterNilTable ==
    ASSUME Sound, NEW o \in Objects, Reg!RegisterNil(o)
    PROVE  TableStep(o) /\ ref[o] = None /\ ref'[o] # None /\ Reg!Denotes(o)' = Nil
<1>1. Tab!RegisterNil(o) /\ Reg!Next
  BY OneTable DEF Reg!Next
<1>2. ref[o] = None /\ ref'[o] # None /\ Tab!Denotes(o)' = Nil
  BY <1>1, RegistryAssumption
     DEF Tab!RegisterNil, Sound, Tab!IInv, Tab!TypeOK, Tab!Denotes, Tab!RawGet, Tab!RefNil, Tab!Slots
<1> QED
  BY <1>1, <1>2, AnyTableStep, OneTable

LEMMA FinalizeTable ==
    ASSUME Sound, NEW o \in Objects, Reg!Finalize(o)
    PROVE  TableStep(o) /\ ref'[o] = None
<1>1. Tab!Finalize(o) /\ Reg!Next
  BY OneTable DEF Reg!Next
<1>2. ref'[o] = None
  BY <1>1 DEF Tab!Finalize, Sound, Tab!IInv, Tab!TypeOK
<1> QED
  BY <1>1, <1>2, AnyTableStep

\* registerValue(-1): object o comes to denote the element on the top.
LEMMA BuiltTable ==
    ASSUME TypeOK, Sound, Len(stack) > 0, NEW p, NEW o \in Objects, Built(p, o)
    PROVE  TableStep(o) /\ ref[o] = None /\ ref'[o] # None /\ Reg!Denotes(o)' = Top(stack)
<1>1. Top(stack) \in Things
  BY TopIn DEF TypeOK
<1>2. CASE Top(stack) = Nil
  BY <1>2, RegisterNilTable DEF Built, RegisterTop
<1>3. CASE Top(stack) # Nil
  <2>1. Top(stack) \in Values
    BY <1>1, <1>3 DEF Things
  <2> QED
    BY <1>3, <2>1, RegisterTable DEF Built, RegisterTop
<1> QED
  BY <1>2, <1>3

\* Steps that leave the table alone.
LEMMA SameTable ==
    ASSUME Sound, UNCHANGED registry
    PROVE  /\ Sound' /\ Reg!TypeOK'
           /\ \A o : Reg!Denotes(o)' = Reg!Denotes(o)
<1>1. Sound'
  BY TableAssumptions, Tab!NextInv DEF Sound, registry, Tab!vars
<1>2. \A o : Reg!Denotes(o)' = Reg!Denotes(o)
  BY DEF registry, Reg!Denotes, Reg!RawGet
<1> QED
  BY <1>1, <1>2, OneTable DEF Sound, Tab!IInv, Tab!TypeOK, Reg!TypeOK, Tab!Slots, Reg!Slots,
     Tab!Keys, Reg!Keys, Tab!RefNil, Reg!RefNil

-----------------------------------------------------------------------------
(* Control.  A step of p takes it from one place to another; the rest is   *)
(* as it was.                                                              *)

OthersWait(p) == \A q \in Threads : q # p =>
    frame'[q] = frame[q] /\ target'[q] = target[q] /\ func'[q] = func[q]

\* Where p may be.
Place(p, l) ==
    /\ p \in Workers => l \in {"idle"} \cup NewSteps \cup CallSteps \cup CloseSteps
    /\ p \in Callers => l \in {"idle"} \cup FacadeSteps \cup CloseSteps
    /\ p = Finalizer => l \in {"idle"} \cup FinSteps

LEMMA StepsStep ==
    ASSUME IInv, NEW p \in Threads, NEW l, Goto(p, l), OthersWait(p), Place(p, l),
           {owner, owner'} \subseteq {p, Nobody} \/ owner' = owner,
           owner' = p <=> l \in InsideSteps,
           Fits(l, Len(frame'[p]))
    PROVE  Steps'
<1>1. pc'[p] = l /\ \A q \in Threads : q # p => pc'[q] = pc[q] /\ frame'[q] = frame[q]
  BY DEF Goto, OthersWait, IInv, TypeOK
<1>2. \A q \in Threads : q # p => (owner' = q <=> owner = q)
  BY ThreadsAssumption
<1>3. Steps
  BY DEF IInv
<1>4. ASSUME NEW q \in Threads
      PROVE  Place(q, pc'[q]) /\ (owner' = q <=> pc'[q] \in InsideSteps) /\ Fits(pc'[q], Len(frame'[q]))
  <2>1. CASE q = p
    BY <1>1, <2>1
  <2>2. CASE q # p
    BY <1>1, <1>2, <1>3, <2>2 DEF Steps, Place
  <2> QED
    BY <2>1, <2>2
<1> QED
  BY <1>4 DEF Steps, Place

\* Steps of threads that neither close the state nor begin to.
LEMMA EndsStep ==
    ASSUME IInv, NEW p \in Threads, NEW l, Goto(p, l), peer' = peer, alive' = alive,
           l \notin CloseSteps, pc[p] \notin CloseSteps,
           p # Finalizer /\ l # "idle" => pc[p] # "idle" \/ InUse,
           l = "fin.unref" => peer
    PROVE  Ends'
<1>1. pc'[p] = l /\ \A q \in Threads : q # p => pc'[q] = pc[q]
  BY DEF Goto, IInv, TypeOK
<1>2. Ends
  BY DEF IInv
<1>3. \A q \in Threads : q # p /\ pc[q] \in CloseSteps /\ p # Finalizer => l = "idle"
  BY <1>2 DEF Ends, CloseSteps, InUse, Threads
<1>4. ~peer /\ p # Finalizer => l = "idle"
  BY <1>2 DEF Ends, InUse, Threads
<1>5. /\ \A q \in Threads : pc'[q] # "close.null" <=> pc[q] # "close.null"
      /\ \A q \in Threads : pc'[q] \in CloseSteps <=> pc[q] \in CloseSteps
  BY <1>1 DEF CloseSteps
<1>6. pc'[Finalizer] = "fin.unref" => peer
  BY <1>1, <1>2 DEF Ends, Threads
<1>7. Finalizer \notin Workers \cup Callers /\ Workers \cup Callers \subseteq Threads
  BY ThreadsAssumption DEF Threads
<1> QED
  BY <1>1, <1>2, <1>3, <1>4, <1>5, <1>6, <1>7 DEF Ends

\* Steps that build no object and drop none.
LEMMA ObjectsStep ==
    ASSUME IInv, NEW p \in Threads, NEW l, Goto(p, l), OthersWait(p),
           life' = life, ref' = ref,
           l \in BuildSteps => \/ pc[p] \in BuildSteps /\ target'[p] = target[p]
                               \/ target'[p] \in Objects /\ Fresh(target'[p]),
           l \in CallSteps => \/ pc[p] \in CallSteps /\ func'[p] = func[p]
                              \/ func'[p] \in Objects /\ life[func'[p]] = "built",
           p = Finalizer /\ l \in FinSteps =>
               \/ pc[p] \in FinSteps /\ target'[p] = target[p]
               \/ target'[p] \in Objects /\ life[target'[p]] = "dropped"
    PROVE  Building' /\ Registered'
<1>1. /\ pc'[p] = l
      /\ \A q \in Threads : q # p => pc'[q] = pc[q] /\ target'[q] = target[q] /\ func'[q] = func[q]
  BY DEF Goto, OthersWait, IInv, TypeOK
<1>2. Building /\ Registered
  BY DEF IInv
<1>3. Building'
  <2>1. ASSUME NEW q \in Threads, pc'[q] \in BuildSteps
        PROVE  target'[q] \in Objects /\ life'[target'[q]] = "unborn"
    BY <1>1, <1>2, <2>1 DEF Building, Fresh
  <2>2. ASSUME NEW q \in Threads, NEW r \in Threads, q # r,
               pc'[q] \in BuildSteps, pc'[r] \in BuildSteps
        PROVE  target'[q] # target'[r]
    BY <1>1, <1>2, <2>2 DEF Building, Fresh
  <2> QED
    BY <2>1, <2>2 DEF Building
<1>4. Registered'
  <2>1. \A q \in Threads : pc'[q] \in CallSteps => func'[q] \in Objects /\ life'[func'[q]] = "built"
    BY <1>1, <1>2 DEF Registered
  <2>2. pc'[Finalizer] \in FinSteps =>
            target'[Finalizer] \in Objects /\ life'[target'[Finalizer]] = "dropped"
    BY <1>1, <1>2 DEF Registered, Threads
  <2> QED
    BY <1>2, <2>1, <2>2 DEF Registered
<1> QED
  BY <1>3, <1>4

\* Steps that build the target.
LEMMA BuiltStep ==
    ASSUME IInv, NEW p \in Threads, NEW l, Goto(p, l), l \notin BuildSteps \cup FinSteps,
           pc[p] \in BuildSteps, UNCHANGED <<target, func>>, p # Finalizer,
           l \in CallSteps => pc[p] \in CallSteps,
           Len(stack) > 0, Built(p, target[p])
    PROVE  Building' /\ Registered'
<1>1. pc'[p] = l /\ \A q \in Threads : q # p => pc'[q] = pc[q]
  BY DEF Goto, IInv, TypeOK
<1>2. Building /\ Registered /\ target[p] \in Objects /\ life[target[p]] = "unborn"
  BY DEF IInv, Building
<1>3. /\ ref'[target[p]] # None
      /\ \A o \in Objects : o # target[p] => ref'[o] = ref[o]
  BY <1>2, BuiltTable DEF IInv, TableStep
<1>4. /\ life'[target[p]] = "built"
      /\ \A o \in Objects : o # target[p] => life'[o] = life[o]
  BY <1>2 DEF Built, IInv, TypeOK
<1>5. Building'
  <2>1. ASSUME NEW q \in Threads, pc'[q] \in BuildSteps
        PROVE  target'[q] \in Objects /\ life'[target'[q]] = "unborn"
    BY <1>1, <1>2, <1>4, <2>1 DEF Building
  <2>2. ASSUME NEW q \in Threads, NEW r \in Threads, q # r,
               pc'[q] \in BuildSteps, pc'[r] \in BuildSteps
        PROVE  target'[q] # target'[r]
    BY <1>1, <1>2, <2>2 DEF Building
  <2> QED
    BY <2>1, <2>2 DEF Building
<1>6. Registered'
  <2>1. \A q \in Threads : pc'[q] \in CallSteps => func'[q] \in Objects /\ life'[func'[q]] = "built"
    BY <1>1, <1>2, <1>4 DEF Registered
  <2>2. pc'[Finalizer] \in FinSteps =>
            target'[Finalizer] \in Objects /\ life'[target'[Finalizer]] = "dropped"
    BY <1>1, <1>2, <1>4 DEF Registered, Threads
  <2> QED
    BY <1>2, <1>3, <1>4, <2>1, <2>2 DEF Registered
<1> QED
  BY <1>5, <1>6

-----------------------------------------------------------------------------
(* What the objects denote. *)

\* A thread in the middle of something else finds the state alive.
LEMMA BusyAlive ==
    ASSUME IInv, NEW p \in Workers \cup Callers, pc[p] \notin {"idle"} \cup CloseSteps
    PROVE  peer /\ alive
<1>1. Ends /\ p \in Threads
  BY DEF IInv, Threads
<1>2. peer
  BY <1>1 DEF Ends
<1>3. \A q \in Threads : pc[q] # "close.null"
  BY <1>1 DEF Ends, CloseSteps
<1> QED
  BY <1>1, <1>2, <1>3 DEF Ends

LEMMA RightStays ==
    ASSUME IInv, UNCHANGED registry, wanted' = wanted, LitterOK,
           \A o \in Objects : life'[o] \in {"built", "dropped"} => life[o] \in {"built", "dropped"}
    PROVE  Right'
<1>1. ref' = ref /\ \A o \in Objects : Reg!Denotes(o)' = Reg!Denotes(o)
  BY SameTable DEF IInv, registry
<1>2. Right
  BY DEF IInv
<1> QED
  BY <1>1, <1>2 DEF Right, ObjectsRight, OneCaller, LitterOK

\* A builder finds its own element on the top.
LEMMA TopIsOwn ==
    ASSUME IInv, OneCaller, ~disturbed, NEW p \in Workers \cup Callers,
           pc[p] \notin {"idle"} \cup CloseSteps, Len(frame[p]) > 0,
           \/ p \in Workers /\ owner = p
           \/ p \in Callers /\ owner = Nobody
    PROVE  Top(stack) = Top(frame[p])
<1>1. TypeOK /\ p \in Threads /\ frame[p] \in Seq(Things)
  BY DEF IInv, TypeOK, Threads
<1>2. stack = (left \o CallerFrame) \o OwnerFrame
  BY BusyAlive DEF IInv, Framed, StackFramed
<1>3. left \o CallerFrame \in Seq(Things) /\ left \in Seq(Things)
  BY <1>1, Below
<1>4. CASE p \in Workers /\ owner = p
  <2>1. OwnerFrame = frame[p]
    BY <1>4 DEF OwnerFrame
  <2> DEFINE f == frame[p]
             base == left \o CallerFrame
  <2>2. f \in Seq(Things) /\ base \in Seq(Things) /\ Len(f) > 0 /\ stack = base \o f
    BY <1>1, <1>2, <1>3, <2>1
  <2> HIDE DEF f, base
  <2>3. Top(base \o f) = Top(f)
    BY <2>2, TopOver
  <2> QED
    BY <2>2, <2>3 DEF f
<1>5. CASE p \in Callers /\ owner = Nobody
  <2>1. OwnerFrame = <<>> /\ CallerFrame = frame[p]
    BY <1>1, <1>5, ThreadsAssumption, CallersPart DEF OwnerFrame, Threads
  <2> DEFINE f == frame[p]
             s == left \o f
  <2>2. f \in Seq(Things) /\ Len(f) > 0 /\ s \in Seq(Things) /\ stack = s \o <<>>
    BY <1>1, <1>2, <1>3, <2>1
  <2> HIDE DEF f
  <2>3. Top(s) = Top(f)
    BY <1>3, <2>2, TopOver
  <2> HIDE DEF s
  <2>4. s \o <<>> = s
    BY <2>2, ConcatEmptySeq
  <2> QED
    BY <2>2, <2>3, <2>4 DEF f
<1> QED
  BY <1>4, <1>5

LEMMA RightBuilt ==
    ASSUME IInv, NEW p \in Workers \cup Callers, pc[p] \in BuildSteps,
           Len(stack) > 0, Len(frame[p]) > 0,
           \/ p \in Workers /\ owner = p
           \/ p \in Callers /\ owner = Nobody,
           Built(p, target[p]), UNCHANGED litter
    PROVE  Right'
<1>0. target[p] \in Objects
  BY DEF IInv, Building, Threads
<1> PICK o \in Objects : o = target[p]
  BY <1>0
<1>1. o \in Objects /\ p \in Threads /\ Built(p, o)
  BY DEF Threads
<1>2. TableStep(o) /\ Reg!Denotes(o)' = Top(stack)
  BY <1>1, BuiltTable DEF IInv
<1>3. SUFFICES ASSUME OneCaller, ~disturbed
               PROVE  \A q \in Objects : life'[q] \in {"built", "dropped"} /\ ref'[q] # None =>
                          Reg!Denotes(q)' = wanted'[q]
  BY DEF Right, ObjectsRight, OneCaller, litter
<1>4. ObjectsRight
  BY <1>3 DEF IInv, Right
<1>5. wanted'[o] = Top(stack)
  <2>1. pc[p] \notin {"idle"} \cup CloseSteps
    BY DEF BuildSteps, CloseSteps
  <2>2. Top(stack) = Top(frame[p])
    BY <1>3, <2>1, TopIsOwn
  <2> QED
    BY <1>1, <2>2 DEF Built, IInv, TypeOK
<1>6. ASSUME NEW q \in Objects, q # o PROVE wanted'[q] = wanted[q] /\ life'[q] = life[q]
  BY <1>1, <1>6 DEF Built, IInv, TypeOK
<1>7. ASSUME NEW q \in Objects, life'[q] \in {"built", "dropped"}, ref'[q] # None
      PROVE  Reg!Denotes(q)' = wanted'[q]
  <2>1. CASE q = o
    BY <1>2, <1>5, <2>1
  <2>2. CASE q # o
    BY <1>2, <1>3, <1>4, <1>6, <1>7, <2>2 DEF TableStep, ObjectsRight
  <2> QED
    BY <2>1, <2>2
<1> QED
  BY <1>7

-----------------------------------------------------------------------------
(* The steps of an application thread that neither builds nor closes. *)

LEMMA PlaceOutside ==
    ASSUME NEW p \in Workers \cup Callers, NEW l, Place(p, l)
    PROVE  l \notin FinSteps /\ l \in Labels
<1>1. \/ l \in {"idle"} \cup NewSteps \cup CallSteps \cup CloseSteps
      \/ l \in {"idle"} \cup FacadeSteps \cup CloseSteps
  BY DEF Place
<1>2. /\ {"idle"} \cap FinSteps = {} /\ NewSteps \cap FinSteps = {} /\ CallSteps \cap FinSteps = {}
      /\ CloseSteps \cap FinSteps = {} /\ FacadeSteps \cap FinSteps = {}
  BY DEF NewSteps, CallSteps, FacadeSteps, CloseSteps, FinSteps
<1> QED
  BY <1>1, <1>2 DEF Labels

LEMMA PlainStep ==
    ASSUME IInv, NEW p \in Workers \cup Callers, NEW l, Goto(p, l),
           UNCHANGED <<registry, peer, alive, life, wanted>>, LitterOK,
           OthersWait(p), Place(p, l), l \notin CloseSteps, pc[p] \notin CloseSteps,
           {owner, owner'} \subseteq {p, Nobody} \/ owner' = owner,
           owner' = p <=> l \in InsideSteps,
           Fits(l, Len(frame'[p])),
           l # "idle" => pc[p] # "idle" \/ InUse,
           l \in BuildSteps => \/ pc[p] \in BuildSteps /\ target'[p] = target[p]
                               \/ target'[p] \in Objects /\ Fresh(target'[p]),
           l \in CallSteps => \/ pc[p] \in CallSteps /\ func'[p] = func[p]
                              \/ func'[p] \in Objects /\ life[func'[p]] = "built",
           stack' \in Seq(Things), frame' \in [Threads -> Seq(Things)],
           globals' \in [Names -> Things], errors' \in 0 .. MaxErrors,
           target' \in [Threads -> Objects \cup {None}],
           func' \in [Threads -> Objects \cup {None}],
           Deep' /\ Framed' /\ Counted'
    PROVE  IInv'
<1>1. p \in Threads /\ p # Finalizer /\ Finalizer \notin Workers \cup Callers
  BY ThreadsAssumption DEF Threads
<1>2. l \notin FinSteps /\ l \in Labels
  BY PlaceOutside
<1>3. Steps' /\ Ends' /\ Building' /\ Registered'
  <2>1. Steps'
    BY <1>1, StepsStep
  <2>2. Ends'
    BY <1>1, <1>2, EndsStep DEF FinSteps
  <2>3. Building' /\ Registered'
    BY <1>1, ObjectsStep DEF registry
  <2> QED
    BY <2>1, <2>2, <2>3
<1>4. Right'
  BY RightStays
<1>5. Sound' /\ Reg!TypeOK'
  BY SameTable DEF IInv
<1>6. TypeOK'
  BY <1>1, <1>2, <1>5 DEF IInv, TypeOK, Goto, LitterOK
<1> QED
  BY <1>3, <1>4, <1>5, <1>6 DEF IInv

\* The steps that build the target.
LEMMA BuildStep ==
    ASSUME IInv, NEW p \in Workers \cup Callers, NEW l, Goto(p, l),
           pc[p] \in BuildSteps, l \notin BuildSteps, Place(p, l), l \notin CloseSteps,
           l \in CallSteps => pc[p] \in CallSteps,
           Len(stack) > 0, Len(frame[p]) > 0, Fits(l, Len(frame[p])),
           \/ p \in Workers /\ owner = p /\ l \in InsideSteps
           \/ p \in Callers /\ owner = Nobody /\ l \notin InsideSteps,
           Built(p, target[p]),
           UNCHANGED <<owner, stack, globals, peer, alive, target, func, errors, frame, litter>>
    PROVE  IInv'
<1>1. p \in Threads /\ p # Finalizer /\ Finalizer \notin Workers \cup Callers
      /\ Nobody \notin Threads /\ Workers \cap Callers = {}
  BY ThreadsAssumption DEF Threads
<1>2. l \notin FinSteps /\ l \in Labels
  BY PlaceOutside
<1>3. OthersWait(p)
  BY DEF OthersWait
<1>4. Steps'
  <2>1. owner' = p <=> l \in InsideSteps
    BY <1>1
  <2> QED
    BY <1>1, <1>3, <2>1, StepsStep
<1>5. Ends'
  <2>1. pc[p] \notin CloseSteps /\ pc[p] # "idle" /\ l # "fin.unref"
    BY <1>2 DEF BuildSteps, CloseSteps, FinSteps
  <2> QED
    BY <1>1, <2>1, EndsStep
<1>6. Building' /\ Registered'
  <2>1. UNCHANGED <<target, func>>
    OBVIOUS
  <2> QED
    BY <1>1, <1>2, <2>1, BuiltStep
<1>7. Right'
  BY RightBuilt
<1>8. target[p] \in Objects
  BY <1>1 DEF IInv, Building
<1>9. Sound' /\ Reg!TypeOK'
  BY <1>8, BuiltTable DEF IInv, TableStep
<1>10. TypeOK'
  <2>1. Top(frame[p]) \in Things
    BY <1>1, TopIn DEF IInv, TypeOK
  <2>2. wanted' \in [Objects -> Things] /\ life' \in [Objects -> Lives]
    BY <1>8, <2>1 DEF IInv, TypeOK, Built, Lives
  <2>3. LitterOK
    BY SameLitter DEF IInv
  <2> QED
    BY <1>1, <1>2, <1>9, <2>2, <2>3 DEF IInv, TypeOK, Goto, LitterOK
<1>11. Deep' /\ Framed' /\ Counted'
  BY <1>1, StackStep DEF Kind
<1> QED
  BY <1>4, <1>5, <1>6, <1>7, <1>9, <1>10, <1>11 DEF IInv

-----------------------------------------------------------------------------
(* Action by action. *)

\* Where p stands tells who it is, how much of the stack is its own and
\* whether it has the monitor.
LEMMA Standing ==
    ASSUME IInv, NEW p \in Workers \cup Callers
    PROVE  /\ p \in Threads /\ p # Finalizer /\ p # Nobody
           /\ pc[p] \in NewSteps \cup CallSteps => p \in Workers /\ p \notin Callers
           /\ pc[p] \in FacadeSteps => p \in Callers /\ p \notin Workers
           /\ owner = p <=> pc[p] \in InsideSteps
           /\ Fits(pc[p], Len(frame[p]))
<1>1. p \in Threads /\ p # Finalizer /\ p # Nobody /\ Workers \cap Callers = {}
  BY ThreadsAssumption DEF Threads
<1>2. /\ p \in Workers => pc[p] \in {"idle"} \cup NewSteps \cup CallSteps \cup CloseSteps
      /\ p \in Callers => pc[p] \in {"idle"} \cup FacadeSteps \cup CloseSteps
      /\ owner = p <=> pc[p] \in InsideSteps
      /\ Fits(pc[p], Len(frame[p]))
  BY <1>1 DEF IInv, Steps
<1>3. (NewSteps \cup CallSteps) \cap ({"idle"} \cup FacadeSteps \cup CloseSteps) = {}
  BY DEF NewSteps, CallSteps, FacadeSteps, CloseSteps
<1>4. FacadeSteps \cap ({"idle"} \cup NewSteps \cup CallSteps \cup CloseSteps) = {}
  BY DEF NewSteps, CallSteps, FacadeSteps, CloseSteps
<1> QED
  BY <1>1, <1>2, <1>3, <1>4

\* The control of a step from k to l that neither starts nor ends a method.
Within(p, k, l) ==
    /\ pc[p] = k /\ Goto(p, l)
    /\ \/ {k, l} \subseteq NewSteps
       \/ {k, l} \subseteq CallSteps
       \/ {k, l} \subseteq FacadeSteps
    /\ l \in BuildSteps => k \in BuildSteps
    /\ UNCHANGED <<registry, peer, alive, life, wanted, target, func, litter>>
    /\ globals' \in [Names -> Things] /\ errors' \in 0 .. MaxErrors

LEMMA WithinStep ==
    ASSUME IInv, NEW p \in Workers \cup Callers, NEW k, NEW l, Within(p, k, l),
           owner' = p <=> l \in InsideSteps,
           Fits(l, Len(frame'[p])), Kind(p), OthersWait(p),
           {owner, owner'} \subseteq {p, Nobody} \/ owner' = owner,
           stack' \in Seq(Things), frame' \in [Threads -> Seq(Things)]
    PROVE  IInv'
<1>1. /\ p \in Threads /\ p # Finalizer
      /\ k \in NewSteps \cup CallSteps => p \in Workers /\ p \notin Callers
      /\ k \in FacadeSteps => p \in Callers /\ p \notin Workers
  BY Standing DEF Within
<1>2. Place(p, l)
  BY <1>1 DEF Within, Place
<1>3. k \notin {"idle"} \cup CloseSteps /\ l \notin {"idle"} \cup CloseSteps
  BY DEF Within, NewSteps, CallSteps, FacadeSteps, CloseSteps
<1>4. l \in CallSteps => k \in CallSteps
  <2>1. CallSteps \cap NewSteps = {} /\ CallSteps \cap FacadeSteps = {}
    BY DEF NewSteps, CallSteps, FacadeSteps
  <2> QED
    BY <2>1 DEF Within
<1>5. Deep' /\ Framed' /\ Counted'
  <2>1. (alive' => alive) /\ UNCHANGED litter
    BY DEF Within
  <2> QED
    BY <1>1, <2>1, StackStep DEF Within
<1>6. target' \in [Threads -> Objects \cup {None}] /\ func' \in [Threads -> Objects \cup {None}]
  BY DEF Within, IInv, TypeOK
<1>7. /\ Goto(p, l) /\ UNCHANGED <<registry, peer, alive, life, wanted>> /\ LitterOK
      /\ globals' \in [Names -> Things] /\ errors' \in 0 .. MaxErrors
      /\ pc[p] \notin CloseSteps /\ pc[p] # "idle"
      /\ l \in BuildSteps => pc[p] \in BuildSteps /\ target'[p] = target[p]
      /\ l \in CallSteps => pc[p] \in CallSteps /\ func'[p] = func[p]
  BY <1>3, <1>4, SameLitter DEF Within, IInv
<1> QED
  BY <1>2, <1>3, <1>5, <1>6, <1>7, PlainStep

LEMMA NewEnterInv ==
    ASSUME IInv, NEW p \in Workers \cup Callers, NewEnter(p) \/ CallEnter(p)
    PROVE  IInv'
<1>1. PICK k \in {"new.enter", "call.enter"}, l \in {"new.get", "call.push"} :
          /\ pc[p] = k /\ Goto(p, l)
          /\ {k, l} \subseteq NewSteps \/ {k, l} \subseteq CallSteps
          /\ owner = Nobody /\ owner' = p
          /\ UNCHANGED <<registry, stack, globals, peer, alive, target, func, life, errors, frame, wanted, litter>>
  BY DEF NewEnter, CallEnter, Enter, NewSteps, CallSteps, history
<1>2. Within(p, k, l)
  BY <1>1, BoundsAssumption DEF Within, BuildSteps, IInv, TypeOK, history
<1>3. p \in Threads /\ Len(frame[p]) = 0 /\ Fits(l, 0) /\ l \in InsideSteps
  <2>1. p \in Threads /\ Fits(k, Len(frame[p]))
    BY <1>1, Standing
  <2>2. k \in {"new.enter", "call.enter"} => \A n : Fits(k, n) => n = 0
    BY DEF Fits, ArgSteps, Depth, One, Two, Three
  <2>3. Fits(l, 0) /\ l \in InsideSteps
    BY DEF Fits, ArgSteps, Depth, One, Two, Three, InsideSteps
  <2> QED
    BY <2>1, <2>2, <2>3
<1>4. OthersWait(p) /\ Kind(p)
  BY <1>1, <1>3 DEF OthersWait, Kind
<1>5. stack' \in Seq(Things) /\ frame' \in [Threads -> Seq(Things)] /\ Fits(l, Len(frame'[p]))
  BY <1>1, <1>3 DEF IInv, TypeOK
<1> QED
  BY <1>1, <1>2, <1>3, <1>4, <1>5, WithinStep

\* A step that works on the stack: of a worker inside, or of a caller alone.
LEMMA WorkStep ==
    ASSUME IInv, NEW p \in Workers \cup Callers, NEW k, NEW l, Within(p, k, l),
           Local(p), Fits(l, Len(frame'[p])), owner' = owner,
           \/ owner = p /\ {k, l} \subseteq InsideSteps
           \/ owner = Nobody /\ {k, l} \subseteq FacadeSteps
    PROVE  IInv'
<1>1. /\ p \in Threads /\ p # Nobody
      /\ k \in NewSteps \cup CallSteps => p \in Workers
      /\ k \in FacadeSteps => p \in Callers /\ p \notin Workers
  BY Standing DEF Within
<1>2. FacadeSteps \cap InsideSteps = {}
  BY DEF FacadeSteps, InsideSteps
<1>3. owner = p => p \in Workers
  BY <1>1, <1>2 DEF Within
<1>4. Kind(p)
  <2>1. CASE owner = p
    BY <1>3, <2>1 DEF Kind
  <2>2. CASE owner = Nobody /\ k \in FacadeSteps
    BY <1>1, <2>2 DEF Kind
  <2> QED
    BY <2>1, <2>2
<1>5. OthersWait(p)
  BY DEF OthersWait, Local, Within
<1>6. owner' = p <=> l \in InsideSteps
  BY <1>1, <1>2
<1> QED
  BY <1>4, <1>5, <1>6, WithinStep DEF Local

LEMMA PushInv ==
    ASSUME IInv, NEW p \in Workers \cup Callers, NewGet(p) \/ CallPush(p) \/ CallArg(p) \/ FacadeArg(p)
    PROVE  IInv'
<1>0. TypeOK /\ p \in Threads
  BY DEF IInv, Threads
<1>1. ASSUME CallPush(p) PROVE Reg!Denotes(func[p]) \in Things
  <2> DEFINE o == func[p]
  <2>1. o \in Objects /\ ref[o] # None
    BY <1>0, <1>1 DEF CallPush, CallSteps, IInv, Registered
  <2>2. Tab!TypeOK /\ Tab!RefsExclusive
    BY DEF IInv, Sound, Tab!IInv
  <2> HIDE DEF o
  <2>3. Tab!Denotes(o) \in Values \cup {Nil}
    BY <2>1, <2>2, RegistryAssumption
       DEF Tab!TypeOK, Tab!RefsExclusive, Tab!Denotes, Tab!RawGet, Tab!Keys, Tab!Slots, Tab!RefNil
  <2> QED
    BY <2>3, OneTable DEF Things, o
<1> DEFINE Moves(k, l) == \/ k = "new.get" /\ l = "new.ref"
                          \/ k = "call.push" /\ l = "call.arg"
                          \/ k = "call.arg" /\ l = "call.arg"
                          \/ k = "ex.arg" /\ l = "ex.arg"
                          \/ k = "field.key" /\ l = "field.get"
                          \/ k = "table.key" /\ l = "table.value"
                          \/ k = "table.value" /\ l = "table.set"
           Does(k, l, v) ==
               /\ pc[p] = k /\ Goto(p, l) /\ Push(p, v) /\ v \in Things
               /\ Moves(k, l) /\ owner' = owner
               /\ IF k \in {"new.get", "call.push", "call.arg"} THEN owner = p ELSE owner = Nobody
               /\ UNCHANGED <<registry, globals, peer, alive, target, func, life, errors, wanted, litter>>
<1>2. \E k, l, v : Does(k, l, v)
  <2>1. CASE NewGet(p)
    <3>1. PICK n \in Names : Push(p, globals[n])
      BY <2>1 DEF NewGet
    <3>2. globals[n] \in Things
      BY <1>0 DEF TypeOK
    <3>3. Does("new.get", "new.ref", globals[n])
      BY <2>1, <3>1, <3>2 DEF NewGet, Inside
    <3> QED
      BY <3>3
  <2>2. CASE CallPush(p)
    <3>1. Does("call.push", "call.arg", Reg!Denotes(func[p]))
      BY <1>1, <2>2 DEF CallPush, Inside
    <3> QED
      BY <3>1
  <2>3. CASE CallArg(p)
    <3>1. PICK v \in Things : Push(p, v)
      BY <2>3 DEF CallArg
    <3>2. Goto(p, "call.arg")
      BY <1>0, <2>3 DEF CallArg, Goto, TypeOK
    <3>3. Does("call.arg", "call.arg", v)
      BY <2>3, <3>1, <3>2 DEF CallArg, Inside
    <3> QED
      BY <3>3
  <2>4. CASE FacadeArg(p)
    <3>1. PICK v \in Things : Push(p, v)
      BY <2>4 DEF FacadeArg
    <3>2. PICK l \in FacadeSteps : Pushing(p, l) /\ Goto(p, l)
      BY <2>4 DEF FacadeArg
    <3>3. Does(pc[p], l, v)
      BY <2>4, <3>1, <3>2 DEF FacadeArg, Pushing, Alone
    <3> QED
      BY <3>3
  <2> QED
    BY <2>1, <2>2, <2>3, <2>4
<1>3. PICK k, l, v : Does(k, l, v)
  BY <1>2
<1>4. Within(p, k, l)
  <2>1. \/ {k, l} \subseteq NewSteps
        \/ {k, l} \subseteq CallSteps
        \/ {k, l} \subseteq FacadeSteps
    BY <1>3 DEF NewSteps, CallSteps, FacadeSteps
  <2>2. l \in BuildSteps => k \in BuildSteps
    BY <1>3 DEF BuildSteps
  <2>3. globals' \in [Names -> Things] /\ errors' \in 0 .. MaxErrors
    BY <1>0, <1>3 DEF TypeOK
  <2> QED
    BY <1>3, <2>1, <2>2, <2>3 DEF Within
<1>5. Local(p) /\ Len(frame'[p]) = Len(frame[p]) + 1
  BY <1>0, <1>3, PushLocal
<1>6. Fits(l, Len(frame'[p]))
  <2>1. Fits(k, Len(frame[p])) /\ Len(frame[p]) \in Nat
    BY <1>0, <1>3, Standing, LenProperties DEF TypeOK
  <2> QED
    BY <1>3, <1>5, <2>1 DEF Fits, ArgSteps, Depth, One, Two, Three
<1>7. \/ owner = p /\ {k, l} \subseteq InsideSteps
      \/ owner = Nobody /\ {k, l} \subseteq FacadeSteps
  BY <1>3 DEF InsideSteps, FacadeSteps
<1>8. owner' = owner
  BY <1>3
<1> QED
  BY <1>4, <1>5, <1>6, <1>7, <1>8, WorkStep

LEMMA PcallInv ==
    ASSUME IInv, NEW p \in Workers \cup Callers,
           CallReturns(p) \/ CallFails(p) \/ FacadePcall(p) \/ FacadeField(p)
    PROVE  IInv'
<1>0. TypeOK /\ p \in Threads /\ Len(frame[p]) \in Nat
  BY LenProperties DEF IInv, Threads, TypeOK
<1> DEFINE Moves(k, l, n) ==
               \/ k = "call.arg" /\ l \in {"call.result", "call.pop"} /\ n = Len(frame[p])
               \/ k = "ex.arg" /\ l = "get.ref" /\ n = Len(frame[p])
               \/ k = "field.get" /\ l = "field.ref" /\ n = 1
           Does(k, l, n, r) ==
               /\ pc[p] = k /\ Goto(p, l) /\ Replace(p, n, r) /\ r \in Things
               /\ Moves(k, l, n) /\ owner' = owner
               /\ IF k = "call.arg" THEN owner = p ELSE owner = Nobody
               /\ errors' \in 0 .. MaxErrors
               /\ UNCHANGED <<registry, globals, peer, alive, target, func, life, wanted, litter>>
<1>1. \E k, l, n, r : Does(k, l, n, r)
  <2>1. CASE CallReturns(p)
    <3>1. PICK r \in Things : Replace(p, Len(frame[p]), r)
      BY <2>1 DEF CallReturns, Pcall
    <3>2. Does("call.arg", "call.result", Len(frame[p]), r)
      BY <1>0, <2>1, <3>1 DEF CallReturns, Inside, TypeOK
    <3> QED
      BY <3>2
  <2>2. CASE CallFails(p)
    <3>1. PICK r \in Values : Replace(p, Len(frame[p]), r)
      BY <2>2 DEF CallFails, Pcall
    <3>2. PICK l \in {"call.result", "call.pop"} : Goto(p, l)
      BY <2>2 DEF CallFails
    <3>3. errors' \in 0 .. MaxErrors
      BY <1>0, <2>2, BoundsAssumption DEF CallFails, TypeOK
    <3>4. Does("call.arg", l, Len(frame[p]), r)
      BY <2>2, <3>1, <3>2, <3>3 DEF CallFails, Inside, Things
    <3> QED
      BY <3>4
  <2>3. CASE FacadePcall(p)
    <3>1. PICK r \in Things : Replace(p, Len(frame[p]), r)
      BY <2>3 DEF FacadePcall, Pcall
    <3>2. Does("ex.arg", "get.ref", Len(frame[p]), r)
      BY <1>0, <2>3, <3>1 DEF FacadePcall, Alone, TypeOK
    <3> QED
      BY <3>2
  <2>4. CASE FacadeField(p)
    <3>1. PICK r \in Things : Replace(p, 1, r)
      BY <2>4 DEF FacadeField
    <3>2. Does("field.get", "field.ref", 1, r)
      BY <1>0, <2>4, <3>1 DEF FacadeField, Alone, TypeOK
    <3> QED
      BY <3>2
  <2> QED
    BY <2>1, <2>2, <2>3, <2>4
<1>2. PICK k, l, n, r : Does(k, l, n, r)
  BY <1>1
<1>3. Within(p, k, l)
  <2>1. {k, l} \subseteq CallSteps \/ {k, l} \subseteq FacadeSteps
    BY <1>2 DEF CallSteps, FacadeSteps
  <2>2. l \in BuildSteps => k \in BuildSteps
    BY <1>2 DEF BuildSteps
  <2>3. globals' \in [Names -> Things]
    BY <1>0, <1>2 DEF TypeOK
  <2> QED
    BY <1>2, <2>1, <2>2, <2>3 DEF Within
<1>4. Fits(k, Len(frame[p]))
  BY <1>2, Standing
<1>5. n \in Nat /\ n <= Len(frame[p])
  BY <1>0, <1>2, <1>4 DEF Fits, ArgSteps, Depth, One, Two, Three
<1>6. Local(p) /\ Len(frame'[p]) = Len(frame[p]) - n + 1
  BY <1>0, <1>2, <1>5, ReplaceLocal
<1>7. Fits(l, Len(frame'[p]))
  <2>1. CASE k = "field.get"
    <3>1. l = "field.ref" /\ n = 1
      BY <1>2, <2>1
    <3>2. Len(frame[p]) = 2
      BY <1>4, <2>1 DEF Fits, ArgSteps, Depth, One, Two, Three
    <3>3. Len(frame'[p]) = 2
      BY <1>6, <3>1, <3>2
    <3> QED
      BY <3>1, <3>3 DEF Fits, ArgSteps, Depth, One, Two, Three
  <2>2. CASE k # "field.get"
    <3>1. l \in {"call.result", "call.pop", "get.ref"} /\ n = Len(frame[p])
      BY <1>2, <2>2
    <3>2. Len(frame'[p]) = 1
      BY <1>0, <1>6, <3>1
    <3> QED
      BY <3>1, <3>2 DEF Fits, ArgSteps, Depth, One, Two, Three
  <2> QED
    BY <2>1, <2>2
<1>8. \/ owner = p /\ {k, l} \subseteq InsideSteps
      \/ owner = Nobody /\ {k, l} \subseteq FacadeSteps
  BY <1>2 DEF InsideSteps, FacadeSteps
<1>9. owner' = owner
  BY <1>2
<1> QED
  BY <1>3, <1>6, <1>7, <1>8, <1>9, WorkStep

\* L.setTable(-3) of the facade.
LEMMA TableInv ==
    ASSUME IInv, NEW p \in Workers \cup Callers, pc[p] = "table.set", FacadeTable(p)
    PROVE  IInv'
<1>0. TypeOK /\ p \in Threads /\ Len(frame[p]) \in Nat
  BY LenProperties DEF IInv, Threads, TypeOK
<1>1. /\ Pop(p, 2) /\ Goto(p, "table.pop") /\ owner = Nobody /\ owner' = owner
      /\ UNCHANGED <<registry, globals, peer, alive, target, func, life, errors, wanted, litter>>
  BY DEF FacadeTable, Alone
<1>2. Within(p, "table.set", "table.pop")
  BY <1>0, <1>1 DEF Within, FacadeSteps, BuildSteps, TypeOK
<1>3. Len(frame[p]) = 3
  BY Standing DEF Fits, ArgSteps, Depth, One, Two, Three
<1>4. Local(p) /\ Len(frame'[p]) = Len(frame[p]) - 2
  <2>1. 2 \in Nat /\ 2 <= Len(frame[p])
    BY <1>3
  <2> QED
    BY <1>0, <1>1, <2>1, PopLocal
<1>5. Fits("table.pop", Len(frame'[p]))
  BY <1>3, <1>4 DEF Fits, ArgSteps, Depth, One, Two, Three
<1>6. {"table.set", "table.pop"} \subseteq FacadeSteps
  BY DEF FacadeSteps
<1> QED
  BY <1>1, <1>2, <1>4, <1>5, <1>6, WorkStep

LEMMA BuildInv ==
    ASSUME IInv, NEW p \in Workers \cup Callers, NewRef(p) \/ CallResult(p) \/ FacadeRef(p)
    PROVE  IInv'
<1>0. TypeOK /\ p \in Threads /\ Len(stack) \in Nat
  BY LenProperties DEF IInv, TypeOK, Threads
<1>1. PICK k \in {"new.ref", "call.result", "get.ref", "field.ref"},
           l \in {"new.pop", "call.pop", "get.pop", "field.pop"} :
          /\ pc[p] = k /\ Goto(p, l) /\ Built(p, target[p])
          /\ \/ k = "new.ref" /\ l = "new.pop"
             \/ k = "call.result" /\ l = "call.pop"
             \/ k = "get.ref" /\ l = "get.pop" /\ owner = Nobody /\ Len(stack) > 0
             \/ k = "field.ref" /\ l = "field.pop" /\ owner = Nobody /\ Len(stack) > 0
          /\ UNCHANGED <<owner, stack, globals, peer, alive, target, func, errors, frame, litter>>
  <2>1. CASE NewRef(p)
    BY <2>1 DEF NewRef, Inside
  <2>2. CASE CallResult(p)
    BY <2>2 DEF CallResult, Inside
  <2>3. CASE FacadeRef(p)
    BY <2>3 DEF FacadeRef, Alone
  <2> QED
    BY <2>1, <2>2, <2>3
<1>2. /\ Len(frame[p]) >= 1 /\ Fits(l, Len(frame[p]))
      /\ Len(frame[p]) \in {1, 2}
  <2>1. Fits(k, Len(frame[p]))
    BY <1>1, Standing
  <2>2. CASE k = "field.ref"
    <3>1. l = "field.pop"
      BY <1>1, <2>2
    <3>2. Len(frame[p]) = 2 /\ Fits("field.pop", 2)
      BY <2>1, <2>2 DEF Fits, ArgSteps, Depth, One, Two, Three
    <3> QED
      BY <3>1, <3>2
  <2>3. CASE k # "field.ref"
    <3>1. l \in {"new.pop", "call.pop", "get.pop"}
      BY <1>1, <2>3
    <3>2. Len(frame[p]) = 1 /\ Fits(l, 1)
      BY <2>1, <2>3, <3>1 DEF Fits, ArgSteps, Depth, One, Two, Three
    <3> QED
      BY <3>1, <3>2
  <2> QED
    BY <2>2, <2>3
<1>3. /\ k \notin {"get.ref", "field.ref"} => p \in Workers /\ p \notin Callers /\ owner = p
      /\ k \in {"get.ref", "field.ref"} => p \in Callers /\ p \notin Workers
  BY <1>1, Standing DEF NewSteps, CallSteps, FacadeSteps, InsideSteps
<1>4. Len(stack) > 0
  <2>1. k \notin {"get.ref", "field.ref"} => Len(stack) >= Len(frame[p])
    BY <1>3 DEF IInv, Deep
  <2> QED
    BY <1>0, <1>1, <1>2, <2>1
<1>5. /\ pc[p] \in BuildSteps /\ l \notin BuildSteps /\ l \notin CloseSteps
      /\ l \in CallSteps => pc[p] \in CallSteps
  BY <1>1 DEF BuildSteps, CloseSteps, CallSteps
<1>6. Place(p, l)
  <2>1. p # Finalizer
    BY Standing
  <2> QED
    BY <1>1, <1>3, <2>1 DEF Place, NewSteps, CallSteps, FacadeSteps
<1>7. \/ p \in Workers /\ owner = p /\ l \in InsideSteps
      \/ p \in Callers /\ owner = Nobody /\ l \notin InsideSteps
  BY <1>1, <1>3 DEF InsideSteps
<1>8. Len(frame[p]) > 0 /\ Fits(l, Len(frame[p]))
  BY <1>2
<1>9. /\ Goto(p, l) /\ Built(p, target[p])
      /\ UNCHANGED <<owner, stack, globals, peer, alive, target, func, errors, frame, litter>>
  BY <1>1
<1> QED
  BY <1>4, <1>5, <1>6, <1>7, <1>8, <1>9, BuildStep

LEMMA StartInv ==
    ASSUME IInv, NEW p \in Workers, NEW o \in Objects,
           NewStart(p, o) \/ \E f \in Objects : CallStart(p, f, o)
    PROVE  IInv'
<1>0. TypeOK /\ p \in Threads /\ p \in Workers \cup Callers /\ p # Finalizer /\ p \notin Callers /\ p # Nobody
  BY ThreadsAssumption DEF IInv, Threads
<1>1. PICK l \in {"new.enter", "call.enter"} :
          /\ pc[p] = "idle" /\ InUse /\ Goto(p, l) /\ Fresh(o)
          /\ target' = [target EXCEPT ![p] = o]
          /\ \A q \in Threads : q # p => func'[q] = func[q]
          /\ func' \in [Threads -> Objects \cup {None}]
          /\ l \in CallSteps => func'[p] \in Objects /\ life[func'[p]] = "built"
          /\ UNCHANGED <<registry, owner, stack, globals, peer, alive, life, errors, frame, wanted, litter>>
  <2>1. CASE NewStart(p, o)
    BY <1>0, <2>1 DEF NewStart, TypeOK, history, CallSteps
  <2>2. ASSUME NEW f \in Objects, CallStart(p, f, o)
        PROVE  \E l \in {"new.enter", "call.enter"} :
          /\ pc[p] = "idle" /\ InUse /\ Goto(p, l) /\ Fresh(o)
          /\ target' = [target EXCEPT ![p] = o]
          /\ \A q \in Threads : q # p => func'[q] = func[q]
          /\ func' \in [Threads -> Objects \cup {None}]
          /\ l \in CallSteps => func'[p] \in Objects /\ life[func'[p]] = "built"
          /\ UNCHANGED <<registry, owner, stack, globals, peer, alive, life, errors, frame, wanted, litter>>
    BY <1>0, <2>2 DEF CallStart, TypeOK, history
  <2> QED
    BY <2>1, <2>2
<1>2. owner # p /\ Len(frame[p]) = 0
  BY <1>0, <1>1, Standing DEF InsideSteps, Fits, ArgSteps, Depth, One, Two, Three
<1>3. OthersWait(p) /\ target'[p] = o /\ target' \in [Threads -> Objects \cup {None}]
  BY <1>0, <1>1 DEF OthersWait, TypeOK
<1>4. /\ Place(p, l) /\ l \notin CloseSteps /\ pc[p] \notin CloseSteps /\ l \notin InsideSteps
      /\ Fits(l, 0)
  BY <1>0, <1>1 DEF Place, NewSteps, CallSteps, CloseSteps, InsideSteps, Fits, ArgSteps, Depth, One, Two, Three
<1>5. errors \in Nat /\ errors' = errors /\ errors' \in 0 .. MaxErrors
  BY <1>0, <1>1, BoundsAssumption DEF TypeOK
<1>6. Deep' /\ Framed' /\ Counted'
  <2>1. Kind(p)
    BY <1>1 DEF Kind
  <2> QED
    BY <1>0, <1>1, <1>5, <2>1, StackStep
<1>7. /\ stack' \in Seq(Things) /\ frame' \in [Threads -> Seq(Things)]
      /\ globals' \in [Names -> Things] /\ Fits(l, Len(frame'[p]))
  BY <1>0, <1>1, <1>2, <1>4 DEF TypeOK
<1>8. owner' = owner /\ ~(owner' = p)
  BY <1>1, <1>2
<1>9. l \in BuildSteps => target'[p] \in Objects /\ Fresh(target'[p])
  BY <1>1, <1>3
<1>10. UNCHANGED <<registry, peer, alive, life, wanted>> /\ LitterOK
  BY <1>0, <1>1, SameLitter
<1> QED
  BY <1>0, <1>1, <1>3, <1>4, <1>5, <1>6, <1>7, <1>8, <1>9, <1>10, PlainStep

LEMMA FacadeStartInv ==
    ASSUME IInv, NEW p \in Callers, FacadePush(p) \/ \E o \in Objects : FacadeGet(p, o)
    PROVE  IInv'
<1>0. TypeOK /\ p \in Threads /\ p \in Workers \cup Callers /\ p # Finalizer /\ p \notin Workers /\ p # Nobody
  BY ThreadsAssumption DEF IInv, Threads
<1>1. PICK l \in {"get.ref", "ex.arg", "field.key", "set", "table.key"}, v \in Things :
          /\ pc[p] = "idle" /\ InUse /\ Goto(p, l) /\ Push(p, v)
          /\ owner = Nobody /\ owner' = owner
          /\ \A q \in Threads : q # p => target'[q] = target[q]
          /\ target' \in [Threads -> Objects \cup {None}]
          /\ l \in BuildSteps => target'[p] \in Objects /\ Fresh(target'[p])
          /\ UNCHANGED <<registry, globals, peer, alive, func, life, errors, wanted, litter>>
  <2>1. CASE FacadePush(p)
    BY <1>0, <2>1 DEF FacadePush, Alone, TypeOK, BuildSteps
  <2>2. ASSUME NEW o \in Objects, FacadeGet(p, o)
        PROVE  \E l \in {"get.ref", "ex.arg", "field.key", "set", "table.key"}, v \in Things :
          /\ pc[p] = "idle" /\ InUse /\ Goto(p, l) /\ Push(p, v)
          /\ owner = Nobody /\ owner' = owner
          /\ \A q \in Threads : q # p => target'[q] = target[q]
          /\ target' \in [Threads -> Objects \cup {None}]
          /\ l \in BuildSteps => target'[p] \in Objects /\ Fresh(target'[p])
          /\ UNCHANGED <<registry, globals, peer, alive, func, life, errors, wanted, litter>>
    <3>1. PICK n \in Names : Push(p, globals[n])
      BY <2>2 DEF FacadeGet
    <3>2. globals[n] \in Things
      BY <1>0 DEF TypeOK
    <3>3. target'[p] = o /\ Fresh(o) /\ \A q \in Threads : q # p => target'[q] = target[q]
      BY <1>0, <2>2 DEF FacadeGet, TypeOK
    <3>4. target' \in [Threads -> Objects \cup {None}]
      BY <1>0, <2>2 DEF FacadeGet, TypeOK
    <3>5. PICK l \in {"get.ref", "ex.arg", "field.key"} : Goto(p, l)
      BY <2>2 DEF FacadeGet
    <3>6. /\ pc[p] = "idle" /\ InUse /\ owner = Nobody /\ owner' = owner
          /\ UNCHANGED <<registry, globals, peer, alive, func, life, errors, wanted, litter>>
      BY <2>2 DEF FacadeGet, Alone
    <3> QED
      BY <3>1, <3>2, <3>3, <3>4, <3>5, <3>6
  <2> QED
    BY <2>1, <2>2
<1>2. owner # p /\ Len(frame[p]) = 0
  BY <1>0, <1>1, Standing DEF InsideSteps, Fits, ArgSteps, Depth, One, Two, Three
<1>3. Local(p) /\ Len(frame'[p]) = 1
  <2>1. Push(p, v)
    BY <1>1
  <2>2. Local(p) /\ Len(frame'[p]) = Len(frame[p]) + 1
    BY <1>0, <2>1, PushLocal
  <2> QED
    BY <1>2, <2>2
<1>4. OthersWait(p)
  BY <1>1, <1>3 DEF OthersWait, Local
<1>5. /\ Place(p, l) /\ l \notin CloseSteps /\ pc[p] \notin CloseSteps /\ l \notin InsideSteps
      /\ Fits(l, 1) /\ l \notin CallSteps
  BY <1>0, <1>1 DEF Place, FacadeSteps, CallSteps, CloseSteps, InsideSteps, Fits, ArgSteps, Depth, One, Two, Three
<1>6. errors \in Nat /\ errors' = errors /\ errors' \in 0 .. MaxErrors
  BY <1>0, <1>1, BoundsAssumption DEF TypeOK
<1>7. Deep' /\ Framed' /\ Counted'
  <2>1. Kind(p)
    BY <1>1, <1>3 DEF Kind
  <2> QED
    BY <1>0, <1>1, <1>6, <2>1, StackStep
<1>8. /\ stack' \in Seq(Things) /\ frame' \in [Threads -> Seq(Things)]
      /\ globals' \in [Names -> Things] /\ func' \in [Threads -> Objects \cup {None}]
  BY <1>0, <1>1, <1>3 DEF TypeOK, Local
<1>9. /\ UNCHANGED <<registry, peer, alive, life, wanted>> /\ LitterOK
      /\ owner' = owner /\ ~(owner' = p)
  BY <1>0, <1>1, <1>2, SameLitter
<1>10. Fits(l, Len(frame'[p]))
  BY <1>3, <1>5
<1> QED
  BY <1>0, <1>1, <1>4, <1>5, <1>6, <1>7, <1>8, <1>9, <1>10, PlainStep
\* A method returns.
LEMMA ReturnStep ==
    ASSUME IInv, NEW p \in Workers \cup Callers, pc[p] \notin {"idle"} \cup CloseSteps, Goto(p, "idle"),
           UNCHANGED <<registry, peer, alive, life, wanted>>, LitterOK, OthersWait(p),
           {owner, owner'} \subseteq {p, Nobody}, owner' = Nobody, Len(frame'[p]) = 0,
           stack' \in Seq(Things), frame' \in [Threads -> Seq(Things)],
           globals' \in [Names -> Things], errors' \in 0 .. MaxErrors,
           target' \in [Threads -> Objects \cup {None}],
           func' \in [Threads -> Objects \cup {None}],
           Deep' /\ Framed' /\ Counted'
    PROVE  IInv'
<1>1. Place(p, "idle") /\ "idle" \notin CloseSteps \cup InsideSteps \cup BuildSteps \cup CallSteps
      /\ Fits("idle", 0)
  BY DEF Place, CloseSteps, InsideSteps, BuildSteps, CallSteps, Fits, ArgSteps, Depth, One, Two, Three
<1>2. p # Nobody
  BY Standing
<1> QED
  BY <1>1, <1>2, PlainStep

LEMMA ReturnInv ==
    ASSUME IInv, NEW p \in Workers \cup Callers,
           NewLeave(p) \/ CallLeave(p) \/ FacadePop(p) \/ FacadeSet(p)
           \/ (pc[p] = "table.pop" /\ FacadeTable(p))
    PROVE  IInv'
<1>0. TypeOK /\ p \in Threads /\ p # Nobody
  BY Standing DEF IInv
<1> DEFINE Last(k) == IF k = "field.pop" THEN 2 ELSE 1
<1>1. PICK k \in {"new.pop", "call.pop", "get.pop", "field.key", "field.pop", "set", "table.pop"} :
          /\ pc[p] = k /\ Goto(p, "idle") /\ Pop(p, Last(k))
          /\ IF k \in FacadeSteps THEN owner = Nobody ELSE owner = p
          /\ owner' = Nobody
          /\ \A q \in Threads : q # p => target'[q] = target[q] /\ func'[q] = func[q]
          /\ target' \in [Threads -> Objects \cup {None}]
          /\ func' \in [Threads -> Objects \cup {None}]
          /\ k # "set" => globals' = globals
          /\ UNCHANGED <<registry, peer, alive, life, errors, wanted, litter>>
  <2>1. CASE NewLeave(p)
    BY <1>0, <2>1 DEF NewLeave, Leave, TypeOK, FacadeSteps
  <2>2. CASE CallLeave(p)
    BY <1>0, <2>2 DEF CallLeave, Leave, TypeOK, FacadeSteps
  <2>3. CASE FacadePop(p)
    BY <1>0, <2>3 DEF FacadePop, Alone, TypeOK, FacadeSteps
  <2>4. CASE FacadeSet(p)
    BY <1>0, <2>4 DEF FacadeSet, Alone, TypeOK, FacadeSteps
  <2>5. CASE pc[p] = "table.pop" /\ FacadeTable(p)
    BY <1>0, <2>5 DEF FacadeTable, Alone, TypeOK, FacadeSteps
  <2> QED
    BY <2>1, <2>2, <2>3, <2>4, <2>5
<1>2. /\ Len(frame[p]) = Last(k)
      /\ k \in FacadeSteps => p \in Callers
      /\ k \notin FacadeSteps => p \in Workers
      /\ k \notin {"idle"} \cup CloseSteps
  <2>1. /\ k \notin FacadeSteps => k \in NewSteps \cup CallSteps
        /\ k \notin {"idle"} \cup CloseSteps
    BY DEF NewSteps, CallSteps, FacadeSteps, CloseSteps
  <2>2. Fits(k, Len(frame[p]))
    BY <1>1, Standing
  <2>3. Len(frame[p]) = Last(k)
    BY <2>2 DEF Fits, ArgSteps, Depth, One, Two, Three
  <2>4. /\ pc[p] \in NewSteps \cup CallSteps => p \in Workers
        /\ pc[p] \in FacadeSteps => p \in Callers
    BY Standing
  <2> QED
    BY <1>1, <2>1, <2>3, <2>4
<1>3. Local(p) /\ Len(frame'[p]) = 0
  <2>1. Pop(p, Last(k)) /\ Last(k) \in Nat /\ Last(k) <= Len(frame[p])
    BY <1>1, <1>2
  <2> HIDE DEF Last
  <2>2. Local(p) /\ Len(frame'[p]) = Len(frame[p]) - Last(k)
    BY <1>0, <2>1, PopLocal
  <2> QED
    BY <1>2, <2>1, <2>2
<1>4. globals' \in [Names -> Things]
  <2>1. CASE k = "set"
    <3>1. PICK n \in Names : globals' = [globals EXCEPT ![n] = Top(stack)]
      BY <1>1, <2>1 DEF NewLeave, CallLeave, FacadePop, FacadeSet, FacadeTable
    <3>2. Len(stack) > 0
      BY <1>0, <1>1, <2>1, LenProperties DEF Pop, TypeOK
    <3>3. Top(stack) \in Things
      BY <1>0, <3>2, TopIn DEF TypeOK
    <3> QED
      BY <1>0, <3>1, <3>3 DEF TypeOK
  <2> QED
    BY <1>0, <1>1, <2>1 DEF TypeOK
<1>5. OthersWait(p)
  BY <1>1, <1>3 DEF OthersWait, Local
<1>6. errors' \in 0 .. MaxErrors
  BY <1>0, <1>1 DEF TypeOK
<1>7. Deep' /\ Framed' /\ Counted'
  <2>1. Kind(p)
    BY <1>0, <1>1, <1>2, <1>3 DEF Kind
  <2> QED
    BY <1>0, <1>1, <2>1, StackStep
<1>8. /\ UNCHANGED <<registry, peer, alive, life, wanted>> /\ LitterOK /\ Goto(p, "idle")
      /\ {owner, owner'} \subseteq {p, Nobody} /\ owner' = Nobody
      /\ pc[p] \notin {"idle"} \cup CloseSteps
      /\ target' \in [Threads -> Objects \cup {None}]
      /\ func' \in [Threads -> Objects \cup {None}]
  BY <1>0, <1>1, <1>2, SameLitter
<1>9. stack' \in Seq(Things) /\ frame' \in [Threads -> Seq(Things)]
  BY <1>3 DEF Local
<1> QED
  BY <1>3, <1>4, <1>5, <1>6, <1>7, <1>8, <1>9, ReturnStep

\* A method that fails leaves s where its own elements were.
Gives(p, s) ==
    /\ Leaves(p, s) /\ s \in Seq(Things) /\ stack' \in Seq(Things)
    /\ Len(stack') - Len(stack) = Len(s) - Len(frame[p])
    /\ \A base \in Seq(Things) : stack = base \o frame[p] => stack' = base \o s

\* The elements it leaves are counted, and the stack is disturbed if they lie
\* above those of a facade method.
LEMMA LitterStep ==
    ASSUME IInv, NEW p \in Workers \cup Callers, NEW s, Gives(p, s), alive' => alive,
           owner' = Nobody,
           \/ p \in Workers /\ owner = p
           \/ p \in Callers /\ owner = Nobody
    PROVE  /\ Deep' /\ Framed' /\ Counted' /\ LitterOK
           /\ frame' \in [Threads -> Seq(Things)] /\ Len(frame'[p]) = 0
           /\ \A q \in Threads : q # p => frame'[q] = frame[q]
           /\ errors' \in 0 .. MaxErrors
<1>0. TypeOK /\ p \in Threads /\ Nobody \notin Workers /\ Nobody \notin Callers
      /\ Workers \cap Callers = {} /\ Workers \subseteq Threads /\ Callers \subseteq Threads
  BY ThreadsAssumption DEF IInv, Threads
<1>1. /\ s \in Seq(Things) /\ stack' \in Seq(Things)
      /\ Len(stack') - Len(stack) = Len(s) - Len(frame[p])
      /\ errors < MaxErrors /\ errors' = errors + 1
      /\ frame' = [frame EXCEPT ![p] = <<>>] /\ left' = left \o s
      /\ disturbed' = (disturbed \/ \E c \in Callers : c # p /\ Len(frame[c]) > 0)
  BY DEF Gives, Leaves
<1>2. /\ stack \in Seq(Things) /\ Len(stack) \in Nat /\ Len(stack') \in Nat
      /\ frame \in [Threads -> Seq(Things)] /\ Len(frame[p]) \in Nat /\ Len(s) \in Nat
      /\ <<>> \in Seq(Things) /\ Len(<<>>) = 0
  BY <1>0, <1>1, LenProperties, EmptySeq DEF TypeOK
<1>3. /\ left \in Seq(Things) /\ left \o CallerFrame \in Seq(Things)
      /\ CallerFrame \in Seq(Things) /\ Len(CallerFrame) \in Nat /\ Len(left) \in Nat
  BY <1>0, Below, CallersPart
<1>4. left' \in Seq(Things) /\ Len(left') = Len(left) + Len(s)
  <2>1. left \o s \in Seq(Things) /\ Len(left \o s) = Len(left) + Len(s)
    BY <1>1, <1>3, ConcatProperties
  <2> QED
    BY <1>1, <2>1
<1>5. LitterOK
  <2>1. disturbed' \in BOOLEAN
    BY <1>1, Zenon
  <2>2. ~disturbed' => ~disturbed
    BY <1>1, Zenon
  <2> QED
    BY <1>4, <2>1, <2>2 DEF LitterOK
<1>6. /\ frame' \in [Threads -> Seq(Things)] /\ frame'[p] = <<>>
      /\ \A q \in Threads : q # p => frame'[q] = frame[q]
  BY <1>0, <1>1, <1>2
<1>7. errors' \in 0 .. MaxErrors
  BY <1>0, <1>1, BoundsAssumption DEF TypeOK
<1>8. Deep' /\ OwnerFrame' = <<>>
  BY <1>0 DEF Deep, OwnerFrame
\* The frames of the facade thread and of the owner before and after.
<1>9. /\ p \in Workers => OwnerFrame = frame[p] /\ CallerFrame' = CallerFrame
      /\ p \in Callers /\ OneCaller =>
             OwnerFrame = <<>> /\ CallerFrame = frame[p] /\ CallerFrame' = <<>>
  <2>1. ASSUME p \in Workers PROVE OwnerFrame = frame[p] /\ CallerFrame' = CallerFrame
    BY <1>0, <1>6, <2>1, CallersPartStays DEF OwnerFrame
  <2>2. ASSUME p \in Callers, OneCaller
        PROVE  OwnerFrame = <<>> /\ CallerFrame = frame[p] /\ CallerFrame' = <<>>
    BY <1>0, <1>6, <2>2 DEF OwnerFrame, CallerFrame, OneCaller
  <2> QED
    BY <2>1, <2>2
<1>10. Counted'
  <2>1. SUFFICES ASSUME OneCaller, alive'
                 PROVE  Len(stack') = Len(left') + Len(CallerFrame') + Len(OwnerFrame')
    BY DEF Counted, LeftoversExact, OneCaller
  <2>2. Len(stack) = Len(left) + Len(CallerFrame) + Len(OwnerFrame)
    BY <2>1 DEF IInv, Counted, LeftoversExact
  <2>3. CASE p \in Workers
    <3>1. Len(stack) = Len(left) + Len(CallerFrame) + Len(frame[p])
      BY <1>9, <2>2, <2>3
    <3>2. Len(stack') = Len(left') + Len(CallerFrame)
      BY <1>1, <1>2, <1>3, <1>4, <3>1
    <3> QED
      BY <1>2, <1>3, <1>4, <1>8, <1>9, <2>3, <3>2
  <2>4. CASE p \in Callers
    <3>1. Len(stack) = Len(left) + Len(frame[p])
      <4>1. Len(stack) = Len(left) + Len(frame[p]) + 0
        BY <1>2, <1>9, <2>1, <2>2, <2>4
      <4> QED
        BY <1>2, <1>3, <4>1
    <3>2. Len(stack') = Len(left')
      BY <1>1, <1>2, <1>3, <1>4, <3>1
    <3> QED
      BY <1>2, <1>3, <1>4, <1>8, <1>9, <2>1, <2>4, <3>2
  <2> QED
    BY <2>3, <2>4
<1>11. Framed'
  <2>1. SUFFICES ASSUME OneCaller, alive', ~disturbed'
                 PROVE  stack' = (left' \o CallerFrame') \o OwnerFrame'
    BY DEF Framed, StackFramed, OneCaller
  <2>2. ~disturbed /\ \A c \in Callers : c # p => ~(Len(frame[c]) > 0)
    BY <1>1, <2>1, Zenon
  <2>3. stack = (left \o CallerFrame) \o OwnerFrame
    BY <2>1, <2>2 DEF IInv, Framed, StackFramed
  <2>4. CallerFrame' = <<>> /\ stack = left \o frame[p]
    <3>1. CASE p \in Workers
      <4>1. CallerFrame = <<>>
        <5>1. CASE Callers = {}
          BY <5>1 DEF CallerFrame
        <5>2. CASE Callers # {}
          <6>1. PICK c \in Callers : TRUE
            BY <5>2
          <6>2. CallerFrame = frame[c] /\ frame[c] \in Seq(Things) /\ Len(frame[c]) \in Nat
            BY <1>0, <1>2, <2>1, <6>1, CallersPart, LenProperties
          <6>3. ~(Len(frame[c]) > 0)
            BY <1>0, <2>2, <3>1
          <6> DEFINE f == frame[c]
          <6>4. f \in Seq(Things) /\ Len(f) = 0
            BY <6>2, <6>3
          <6> HIDE DEF f
          <6>5. f = <<>>
            BY <6>4, EmptyFrame
          <6> QED
            BY <6>2, <6>5 DEF f
        <5> QED
          BY <5>1, <5>2
      <4>2. left \o <<>> = left
        BY <1>3, ConcatEmptySeq
      <4> QED
        BY <1>9, <2>3, <3>1, <4>1, <4>2
    <3>2. CASE p \in Callers
      <4> DEFINE b == left \o CallerFrame
      <4>1. b \in Seq(Things) /\ stack = b \o <<>>
        BY <1>3, <1>9, <2>1, <2>3, <3>2
      <4> HIDE DEF b
      <4>2. b \o <<>> = b
        BY <4>1, ConcatEmptySeq
      <4> QED
        BY <1>9, <2>1, <3>2, <4>1, <4>2 DEF b
    <3> QED
      BY <3>1, <3>2
  <2>5. stack' = left'
    BY <1>1, <1>3, <2>4 DEF Gives
  <2>6. left' \o <<>> = left'
    BY <1>4, ConcatEmptySeq
  <2> QED
    BY <1>8, <2>4, <2>5, <2>6
<1> QED
  BY <1>2, <1>5, <1>6, <1>7, <1>8, <1>10, <1>11

\* LuaObject.call or a facade method ends in an error with elements left.
LEMMA LeavesInv ==
    ASSUME IInv, NEW p \in Workers \cup Callers,
           CallArgRefused(p) \/ CallFailsStrangely(p) \/ FacadeArgRefused(p)
    PROVE  IInv'
<1>0. /\ TypeOK /\ p \in Threads /\ p # Nobody
      /\ stack \in Seq(Things) /\ frame[p] \in Seq(Things)
      /\ Len(stack) \in Nat /\ Len(frame[p]) \in Nat
  BY Standing, LenProperties DEF IInv, TypeOK
<1>1. /\ Goto(p, "idle") /\ owner' = Nobody
      /\ \/ pc[p] = "call.arg" /\ owner = p
         \/ pc[p] \in {"ex.arg", "field.key", "table.key", "table.value"} /\ owner = Nobody
      /\ \A q \in Threads : q # p => target'[q] = target[q] /\ func'[q] = func[q]
      /\ target' \in [Threads -> Objects \cup {None}]
      /\ func' \in [Threads -> Objects \cup {None}]
      /\ UNCHANGED <<registry, globals, peer, alive, life, wanted>>
  <2>1. CASE CallArgRefused(p)
    BY <1>0, <2>1 DEF CallArgRefused, Leave, TypeOK
  <2>2. CASE CallFailsStrangely(p)
    BY <1>0, <2>2 DEF CallFailsStrangely, Leave, TypeOK
  <2>3. CASE FacadeArgRefused(p)
    BY <1>0, <2>3 DEF FacadeArgRefused, Alone, TypeOK, Pushing
  <2> QED
    BY <2>1, <2>2, <2>3
<1>2. \E s : Gives(p, s)
  <2>1. CASE CallArgRefused(p) \/ FacadeArgRefused(p)
    <3>1. Leaves(p, frame[p]) /\ stack' = stack
      BY <2>1 DEF CallArgRefused, FacadeArgRefused
    <3>2. Gives(p, frame[p])
      BY <1>0, <3>1 DEF Gives
    <3> QED
      BY <3>2
  <2>2. CASE CallFailsStrangely(p)
    <3> DEFINE f == frame[p]
               d == Drop(stack, Len(f))
    <3>1. PICK r \in Things : Leaves(p, <<r>>) /\ stack' = Append(d, r)
      BY <2>2 DEF CallFailsStrangely
    <3>2. p \in Workers /\ Len(stack) >= Len(f)
      BY <2>2, Standing DEF CallFailsStrangely, CallSteps, IInv, Deep, Leave
    <3>3. f \in Seq(Things) /\ Len(f) \in Nat
      BY <1>0
    <3> HIDE DEF f
    <3>4. d \in Seq(Things) /\ Len(d) = Len(stack) - Len(f)
      BY <1>0, <3>2, <3>3, DropProperties
    <3>5. ASSUME NEW base \in Seq(Things), stack = base \o f PROVE d = base
      <4>1. Drop(base \o f, Len(f)) = base \o Drop(f, Len(f))
        <5> DEFINE n == Len(f)
        <5>1. n \in Nat /\ n <= Len(f)
          BY <3>3
        <5> HIDE DEF n
        <5>2. Drop(base \o f, n) = base \o Drop(f, n)
          BY <3>3, <5>1, DropOver
        <5> QED
          BY <5>2 DEF n
      <4>2. Drop(f, Len(f)) \in Seq(Things) /\ Len(Drop(f, Len(f))) = 0
        BY <3>3, DropProperties
      <4>3. Drop(f, Len(f)) = <<>>
        BY <4>2, EmptyFrame
      <4>4. base \o <<>> = base
        BY ConcatEmptySeq
      <4> QED
        BY <3>5, <4>1, <4>3, <4>4
    <3> HIDE DEF d
    <3>6. Append(d, r) \in Seq(Things) /\ Len(Append(d, r)) = Len(stack) - Len(f) + 1
      BY <1>0, <3>3, <3>4, AppendProperties
    <3>7. <<r>> \in Seq(Things) /\ Len(<<r>>) = 1
      OBVIOUS
    <3>8. Len(stack') - Len(stack) = Len(<<r>>) - Len(f)
      BY <1>0, <3>1, <3>3, <3>6, <3>7
    <3>9. Append(d, r) = d \o <<r>>
      BY <3>4, AppendIsConcat
    <3>10. ASSUME NEW base \in Seq(Things), stack = base \o f PROVE stack' = base \o <<r>>
      BY <3>1, <3>5, <3>9, <3>10
    <3>11. Gives(p, <<r>>)
      BY <3>1, <3>6, <3>7, <3>8, <3>10 DEF Gives, f
    <3> QED
      BY <3>11
  <2> QED
    BY <2>1, <2>2
<1>3. PICK s : Gives(p, s)
  BY <1>2
<1>4. \/ p \in Workers /\ owner = p
      \/ p \in Callers /\ owner = Nobody
  <2>1. "call.arg" \in CallSteps /\ {"ex.arg", "field.key", "table.key", "table.value"} \subseteq FacadeSteps
    BY DEF CallSteps, FacadeSteps
  <2>2. CASE pc[p] = "call.arg" /\ owner = p
    <3>1. pc[p] \in NewSteps \cup CallSteps
      BY <2>1, <2>2
    <3>2. p \in Workers
      BY <3>1, Standing
    <3> QED
      BY <2>2, <3>2
  <2>3. CASE pc[p] \in {"ex.arg", "field.key", "table.key", "table.value"} /\ owner = Nobody
    <3>1. pc[p] \in FacadeSteps
      BY <2>1, <2>3
    <3>2. p \in Callers
      BY <3>1, Standing
    <3> QED
      BY <2>3, <3>2
  <2> QED
    BY <1>1, <2>2, <2>3
<1>5. /\ Deep' /\ Framed' /\ Counted' /\ LitterOK
      /\ frame' \in [Threads -> Seq(Things)] /\ Len(frame'[p]) = 0
      /\ \A q \in Threads : q # p => frame'[q] = frame[q]
      /\ errors' \in 0 .. MaxErrors
  BY <1>1, <1>3, <1>4, LitterStep
<1>6. OthersWait(p)
  BY <1>1, <1>5 DEF OthersWait
<1>7. stack' \in Seq(Things) /\ globals' \in [Names -> Things]
  BY <1>0, <1>1, <1>3 DEF Gives, TypeOK
<1>8. pc[p] \notin {"idle"} \cup CloseSteps /\ {owner, owner'} \subseteq {p, Nobody}
  BY <1>1 DEF CloseSteps
<1> QED
  BY <1>1, <1>5, <1>6, <1>7, <1>8, ReturnStep

\* Steps that touch neither the stack nor the registry nor the objects'
\* lives: those of the finalizer but two, and those of close.
LEMMA QuietStep ==
    ASSUME IInv, NEW p \in Threads, NEW l, Goto(p, l), Place(p, l), l \in Labels,
           l \notin BuildSteps \cup CallSteps,
           UNCHANGED <<registry, stack, globals, func, life, errors, frame, wanted, litter>>,
           peer' \in BOOLEAN, alive' \in BOOLEAN, alive' => alive,
           target' \in [Threads -> Objects \cup {None}],
           \A q \in Threads : q # p => target'[q] = target[q],
           p = Finalizer /\ l \in FinSteps =>
               \/ pc[p] \in FinSteps /\ target'[p] = target[p]
               \/ target'[p] \in Objects /\ life[target'[p]] = "dropped",
           {owner, owner'} \subseteq {p, Nobody} \/ owner' = owner,
           owner' = p <=> l \in InsideSteps,
           Len(frame[p]) = 0, Fits(l, 0),
           Ends'
    PROVE  IInv'
<1>1. OthersWait(p)
  BY DEF OthersWait
<1>2. Steps'
  BY <1>1, StepsStep
<1>3. Building' /\ Registered'
  BY <1>1, ObjectsStep DEF registry
<1>4. LitterOK /\ Right'
  BY SameLitter, RightStays DEF IInv
<1>5. Sound' /\ Reg!TypeOK'
  BY SameTable DEF IInv
<1>6. owner' \in Threads \cup {Nobody}
  BY DEF IInv, TypeOK
<1>7. TypeOK'
  BY <1>4, <1>5, <1>6 DEF IInv, TypeOK, Goto, LitterOK
<1>8. Deep' /\ Framed' /\ Counted'
  <2>1. Kind(p)
    BY DEF Kind
  <2> QED
    BY <2>1, StackStep
<1> QED
  BY <1>2, <1>3, <1>4, <1>5, <1>7, <1>8 DEF IInv

LEMMA AtFinalizer ==
    ASSUME IInv
    PROVE  /\ Finalizer \in Threads /\ Finalizer \notin Workers \cup Callers /\ Finalizer # Nobody
           /\ pc[Finalizer] \in {"idle"} \cup FinSteps
           /\ owner = Finalizer <=> pc[Finalizer] \in InsideSteps
           /\ Len(frame[Finalizer]) = 0
<1>1. Finalizer \in Threads /\ Finalizer \notin Workers \cup Callers /\ Finalizer # Nobody
  BY ThreadsAssumption DEF Threads
<1>2. /\ pc[Finalizer] \in {"idle"} \cup FinSteps
      /\ owner = Finalizer <=> pc[Finalizer] \in InsideSteps
      /\ Fits(pc[Finalizer], Len(frame[Finalizer]))
  BY <1>1 DEF IInv, Steps
<1>3. \A l \in {"idle"} \cup FinSteps : \A n : Fits(l, n) => n = 0
  BY DEF FinSteps, Fits, ArgSteps, Depth, One, Two, Three
<1> QED
  BY <1>1, <1>2, <1>3

LEMMA FinQuietInv ==
    ASSUME IInv, (\E o \in Objects : FinStart(o)) \/ FinEnter \/ FinCheck
    PROVE  IInv'
<1> DEFINE p == Finalizer
<1>0. TypeOK
  BY DEF IInv
<1>1. /\ p \in Threads /\ p \notin Workers \cup Callers /\ p # Nobody
      /\ owner = p <=> pc[p] \in InsideSteps
      /\ Len(frame[p]) = 0
  BY AtFinalizer
<1>2. PICK k \in {"idle"} \cup FinSteps, l \in FinSteps :
          /\ pc[p] = k /\ Goto(p, l)
          /\ target' \in [Threads -> Objects \cup {None}]
          /\ \A q \in Threads : q # p => target'[q] = target[q]
          /\ \/ k \in FinSteps /\ target'[p] = target[p]
             \/ target'[p] \in Objects /\ life[target'[p]] = "dropped"
          /\ {owner, owner'} \subseteq {p, Nobody} \/ owner' = owner
          /\ owner' = p <=> l \in InsideSteps
          /\ l = "fin.unref" => peer
          /\ UNCHANGED <<registry, stack, globals, peer, alive, func, life, errors, frame, wanted, litter>>
  <2>1. ASSUME NEW o \in Objects, FinStart(o)
        PROVE  /\ pc[p] = "idle" /\ Goto(p, "fin.enter")
               /\ target' \in [Threads -> Objects \cup {None}]
               /\ \A q \in Threads : q # p => target'[q] = target[q]
               /\ target'[p] \in Objects /\ life[target'[p]] = "dropped"
               /\ owner' = owner /\ owner' # p
               /\ UNCHANGED <<registry, stack, globals, peer, alive, func, life, errors, frame, wanted, litter>>
    BY <1>0, <1>1, <2>1 DEF FinStart, TypeOK, history, InsideSteps
  <2>2. FinEnter => /\ pc[p] = "fin.enter" /\ Goto(p, "fin.check")
                    /\ owner = Nobody /\ owner' = p
                    /\ UNCHANGED <<registry, stack, globals, peer, alive, target, func, life, errors, frame, wanted, litter>>
    BY DEF FinEnter, Enter, history
  <2>3. FinCheck => \E l \in {"fin.unref", "fin.leave"} :
                    /\ pc[p] = "fin.check" /\ Goto(p, l)
                    /\ l = "fin.unref" => peer
                    /\ owner = p /\ owner' = p
                    /\ UNCHANGED <<registry, stack, globals, peer, alive, target, func, life, errors, frame, wanted, litter>>
    BY DEF FinCheck, Inside, history
  <2>4. /\ "fin.enter" \in FinSteps /\ "fin.enter" \notin InsideSteps /\ "fin.enter" # "fin.unref"
        /\ "fin.check" \in FinSteps /\ "fin.check" \in InsideSteps /\ "fin.check" # "fin.unref"
        /\ {"fin.unref", "fin.leave"} \subseteq FinSteps \cap InsideSteps
    BY DEF FinSteps, InsideSteps
  <2>5. target \in [Threads -> Objects \cup {None}]
    BY <1>0 DEF TypeOK
  <2>6. CASE \E o \in Objects : FinStart(o)
    BY <2>1, <2>4, <2>6
  <2>7. CASE FinEnter
    BY <2>2, <2>4, <2>5, <2>7
  <2>8. CASE FinCheck
    BY <2>3, <2>4, <2>5, <2>8
  <2> QED
    BY <2>6, <2>7, <2>8
<1>3. /\ Place(p, l) /\ l \in Labels /\ l \notin BuildSteps \cup CallSteps \cup CloseSteps
      /\ Fits(l, 0) /\ k \notin CloseSteps
  BY <1>1, <1>2 DEF Place, Labels, FinSteps, BuildSteps, CallSteps, CloseSteps, Fits, ArgSteps, Depth, One, Two, Three
<1>4. Ends'
  <2>1. /\ peer' = peer /\ alive' = alive /\ Goto(p, l) /\ pc[p] \notin CloseSteps
        /\ l = "fin.unref" => peer
    BY <1>2, <1>3
  <2> QED
    BY <1>1, <1>3, <2>1, EndsStep
<1>5. /\ peer' \in BOOLEAN /\ alive' \in BOOLEAN /\ (alive' => alive)
      /\ UNCHANGED <<registry, stack, globals, func, life, errors, frame, wanted, litter>>
  BY <1>0, <1>2 DEF TypeOK
<1> QED
  BY <1>1, <1>2, <1>3, <1>4, <1>5, QuietStep
LEMMA FinUnrefInv ==
    ASSUME IInv, FinUnref
    PROVE  IInv'
<1>0. /\ Finalizer \in Threads /\ Finalizer \notin Workers \cup Callers /\ Finalizer # Nobody
      /\ Len(frame[Finalizer]) = 0
  BY AtFinalizer
<1>1. /\ pc[Finalizer] = "fin.unref" /\ Goto(Finalizer, "fin.leave")
      /\ owner = Finalizer /\ owner' = owner /\ Reg!Finalize(target[Finalizer])
      /\ UNCHANGED <<stack, globals, peer, alive, target, func, life, errors, frame, wanted, litter>>
  BY DEF FinUnref, Inside, history
<1>2. target[Finalizer] \in Objects /\ life[target[Finalizer]] = "dropped"
  BY <1>1 DEF IInv, Registered, FinSteps
<1> PICK o \in Objects : o = target[Finalizer]
  BY <1>2
<1>3. TableStep(o) /\ ref'[o] = None
  BY <1>1, FinalizeTable DEF IInv
<1>4. /\ pc'[Finalizer] = "fin.leave"
      /\ \A q \in Threads : q # Finalizer => pc'[q] = pc[q]
  BY <1>0, <1>1 DEF Goto, IInv, TypeOK
<1>5. /\ Place(Finalizer, "fin.leave") /\ "fin.leave" \in Labels /\ "fin.leave" \in InsideSteps
      /\ "fin.leave" \notin BuildSteps \cup CallSteps \cup CloseSteps /\ "fin.unref" \notin CloseSteps
      /\ Fits("fin.leave", 0)
  BY <1>0 DEF Place, Labels, FinSteps, InsideSteps, BuildSteps, CallSteps, CloseSteps, Fits, ArgSteps, Depth, One, Two, Three
<1>6. Steps'
  <2>1. OthersWait(Finalizer)
    BY <1>1 DEF OthersWait
  <2> QED
    BY <1>0, <1>1, <1>5, <2>1, StepsStep
<1>7. Ends'
  <2>1. "fin.leave" # "fin.unref"
    OBVIOUS
  <2> QED
    BY <1>0, <1>1, <1>5, <2>1, EndsStep
<1>8. Building'
  BY <1>1, <1>4, <1>5 DEF Building, IInv
<1>9. Registered'
  <2>1. \A q \in Objects : life'[q] = "built" => ref'[q] # None
    BY <1>1, <1>2, <1>3 DEF Registered, IInv, TableStep
  <2>2. \A q \in Threads : pc'[q] \in CallSteps => func'[q] \in Objects /\ life'[func'[q]] = "built"
    BY <1>1, <1>4, <1>5 DEF Registered, IInv
  <2> QED
    BY <1>1, <1>2, <2>1, <2>2 DEF Registered
<1>10. Right'
  <2>1. ASSUME Right, OneCaller PROVE ObjectsRight'
    BY <1>1, <1>3, <2>1 DEF Right, ObjectsRight, TableStep, litter
  <2> QED
    BY <2>1 DEF IInv, Right, OneCaller
<1>11. TypeOK' /\ Sound'
  BY <1>1, <1>3, <1>5 DEF IInv, TypeOK, TableStep, Goto, litter
<1>12. Deep' /\ Framed' /\ Counted'
  <2>1. Kind(Finalizer)
    BY <1>1 DEF Kind
  <2> QED
    BY <1>0, <1>1, <2>1, StackStep
<1> QED
  BY <1>6, <1>7, <1>8, <1>9, <1>10, <1>11, <1>12 DEF IInv

LEMMA FinLeaveInv ==
    ASSUME IInv, FinLeave
    PROVE  IInv'
<1>0. /\ Finalizer \in Threads /\ Finalizer \notin Workers \cup Callers /\ Finalizer # Nobody
      /\ Len(frame[Finalizer]) = 0
  BY AtFinalizer
<1>1. /\ pc[Finalizer] = "fin.leave" /\ Goto(Finalizer, "idle")
      /\ owner = Finalizer /\ owner' = Nobody
      /\ life' = [life EXCEPT ![target[Finalizer]] = "finalized"]
      /\ target' = [target EXCEPT ![Finalizer] = None]
      /\ UNCHANGED <<registry, stack, globals, peer, alive, func, errors, frame, wanted, litter>>
  BY DEF FinLeave, Leave, history
<1>2. target[Finalizer] \in Objects /\ life[target[Finalizer]] = "dropped"
  BY <1>1 DEF IInv, Registered, FinSteps
<1> PICK o \in Objects : o = target[Finalizer]
  BY <1>2
<1>3. life'[o] = "finalized" /\ \A q \in Objects : q # o => life'[q] = life[q]
  BY <1>1 DEF IInv, TypeOK
<1>4. /\ pc'[Finalizer] = "idle"
      /\ \A q \in Threads : q # Finalizer => pc'[q] = pc[q] /\ target'[q] = target[q]
  BY <1>0, <1>1 DEF Goto, IInv, TypeOK
<1>5. /\ Place(Finalizer, "idle") /\ "idle" \in Labels /\ "idle" \notin InsideSteps
      /\ "idle" \notin BuildSteps \cup CallSteps \cup CloseSteps \cup FinSteps /\ "fin.leave" \notin CloseSteps
      /\ Fits("idle", 0)
  BY <1>0 DEF Place, Labels, FinSteps, InsideSteps, BuildSteps, CallSteps, CloseSteps, Fits, ArgSteps, Depth, One, Two, Three
<1>6. Steps'
  <2>1. OthersWait(Finalizer)
    BY <1>1, <1>4 DEF OthersWait
  <2> QED
    BY <1>0, <1>1, <1>5, <2>1, StepsStep
<1>7. Ends'
  <2>1. "idle" # "fin.unref"
    OBVIOUS
  <2> QED
    BY <1>0, <1>1, <1>5, <2>1, EndsStep
<1>8. Building'
  <2>1. ASSUME NEW q \in Threads, pc'[q] \in BuildSteps
        PROVE  target'[q] \in Objects /\ life'[target'[q]] = "unborn"
    BY <1>2, <1>3, <1>4, <1>5, <2>1 DEF Building, IInv
  <2>2. ASSUME NEW q \in Threads, NEW r \in Threads, q # r,
               pc'[q] \in BuildSteps, pc'[r] \in BuildSteps
        PROVE  target'[q] # target'[r]
    BY <1>4, <1>5, <2>2 DEF Building, IInv
  <2> QED
    BY <2>1, <2>2 DEF Building
<1>9. Registered'
  <2>1. \A q \in Objects : life'[q] = "built" => ref'[q] # None
    BY <1>1, <1>3 DEF Registered, IInv, registry
  <2>2. \A q \in Threads : pc'[q] \in CallSteps => func'[q] \in Objects /\ life'[func'[q]] = "built"
    BY <1>1, <1>2, <1>3, <1>4, <1>5 DEF Registered, IInv
  <2> QED
    BY <1>4, <1>5, <2>1, <2>2 DEF Registered
<1>10. Right'
  <2>1. \A q \in Objects : life'[q] \in {"built", "dropped"} => life[q] \in {"built", "dropped"}
    BY <1>3
  <2> QED
    BY <1>1, <2>1, SameLitter, RightStays DEF IInv
<1>11. TypeOK' /\ Sound'
  <2>1. Sound' /\ Reg!TypeOK'
    BY <1>1, SameTable DEF IInv
  <2>2. life' \in [Objects -> Lives]
    BY <1>1 DEF IInv, TypeOK, Lives
  <2> QED
    BY <1>1, <1>5, <2>1, <2>2 DEF IInv, TypeOK, Goto, litter
<1>12. Deep' /\ Framed' /\ Counted'
  <2>1. Kind(Finalizer)
    BY <1>0, <1>1 DEF Kind
  <2> QED
    BY <1>0, <1>1, <2>1, StackStep
<1> QED
  BY <1>6, <1>7, <1>8, <1>9, <1>10, <1>11, <1>12 DEF IInv

LEMMA DropInv ==
    ASSUME IInv, NEW o \in Objects, JavaDrops(o)
    PROVE  IInv'
<1>0. TypeOK /\ Finalizer \in Threads
  BY AtFinalizer DEF IInv
<1>1. /\ life[o] = "built" /\ \A p \in Threads : func[p] # o
      /\ life' = [life EXCEPT ![o] = "dropped"]
      /\ UNCHANGED <<registry, owner, stack, globals, peer, alive, pc, target, func, errors, frame, wanted, litter>>
  BY DEF JavaDrops, history
<1>2. life'[o] = "dropped" /\ \A q \in Objects : q # o => life'[q] = life[q]
  BY <1>0, <1>1 DEF TypeOK
<1>3. Steps' /\ Ends'
  BY <1>1 DEF IInv, Steps, Ends
<1>4. Building'
  BY <1>1, <1>2 DEF IInv, Building
<1>5. Registered'
  <2>1. \A q \in Objects : life'[q] = "built" => ref'[q] # None
    BY <1>1, <1>2 DEF Registered, IInv, registry
  <2>2. \A q \in Threads : pc'[q] \in CallSteps => func'[q] \in Objects /\ life'[func'[q]] = "built"
    BY <1>1, <1>2 DEF Registered, IInv
  <2>3. pc'[Finalizer] \in FinSteps =>
            target'[Finalizer] \in Objects /\ life'[target'[Finalizer]] = "dropped"
    BY <1>1, <1>2 DEF Registered, IInv
  <2> QED
    BY <2>1, <2>2, <2>3 DEF Registered
<1>6. Right'
  <2>1. \A q \in Objects : life'[q] \in {"built", "dropped"} => life[q] \in {"built", "dropped"}
    BY <1>1, <1>2
  <2> QED
    BY <1>1, <2>1, SameLitter, RightStays DEF IInv
<1>7. TypeOK' /\ Sound'
  <2>1. Sound' /\ Reg!TypeOK'
    BY <1>1, SameTable DEF IInv
  <2>2. life' \in [Objects -> Lives]
    BY <1>0, <1>1 DEF TypeOK, Lives
  <2> QED
    BY <1>0, <1>1, <2>1, <2>2 DEF TypeOK, litter
<1>8. Deep' /\ Framed' /\ Counted'
  <2>1. Kind(Finalizer)
    BY <1>1 DEF Kind
  <2> QED
    BY <1>0, <1>1, <2>1, StackStep
<1> QED
  BY <1>3, <1>4, <1>5, <1>6, <1>7, <1>8 DEF IInv
\* close, whose steps are the last of the application's threads.
LEMMA CloseInv ==
    ASSUME IInv, NEW p \in Workers \cup Callers,
           CloseStart(p) \/ CloseEnter(p) \/ CloseFree(p) \/ CloseNull(p)
    PROVE  IInv'
<1>0. TypeOK /\ Ends /\ p \in Threads /\ p # Finalizer /\ p # Nobody /\ Finalizer \in Threads
  BY Standing, AtFinalizer DEF IInv
<1>1. PICK k \in {"idle"} \cup CloseSteps, l \in {"idle"} \cup CloseSteps :
          /\ pc[p] = k /\ Goto(p, l)
          /\ \/ k = "idle" /\ l = "close.enter" /\ owner' = owner /\ InUse
                /\ alive' = alive /\ peer' = peer
                /\ \A q \in Workers \cup Callers : pc[q] = "idle"
             \/ k = "close.enter" /\ l = "close.free" /\ owner = Nobody /\ owner' = p
                /\ alive' = alive /\ peer' = peer
             \/ k = "close.free" /\ l = "close.null" /\ owner = p /\ owner' = p
                /\ alive' = FALSE /\ peer' = peer
             \/ k = "close.null" /\ l = "idle" /\ owner = p /\ owner' = Nobody
                /\ alive' = alive /\ peer' = FALSE
          /\ UNCHANGED <<registry, stack, globals, target, func, life, errors, frame, wanted, litter>>
  <2>0. {"idle", "close.enter", "close.free", "close.null"} \subseteq {"idle"} \cup CloseSteps
    BY DEF CloseSteps
  <2>1. CASE CloseStart(p)
    BY <2>0, <2>1 DEF CloseStart, history
  <2>2. CASE CloseEnter(p)
    BY <2>0, <2>2 DEF CloseEnter, Enter, history
  <2>3. CASE CloseFree(p)
    BY <2>0, <2>3 DEF CloseFree, Inside, history
  <2>4. CASE CloseNull(p)
    BY <2>0, <2>4 DEF CloseNull, Leave, history
  <2> QED
    BY <2>1, <2>2, <2>3, <2>4
<1>2. pc'[p] = l /\ \A q \in Threads : q # p => pc'[q] = pc[q]
  BY <1>0, <1>1 DEF Goto, TypeOK
<1>3. /\ Place(p, l) /\ l \in Labels /\ l \notin BuildSteps \cup CallSteps \cup FinSteps
      /\ Fits(l, 0) /\ \A n : Fits(k, n) => n = 0
  BY <1>0, <1>1 DEF Place, Labels, FinSteps, BuildSteps, CallSteps, CloseSteps, Fits, ArgSteps, Depth, One, Two, Three
<1>4. Len(frame[p]) = 0 /\ (owner = p <=> k \in InsideSteps)
  BY <1>1, <1>3, Standing
<1>5. owner' = p <=> l \in InsideSteps
  BY <1>0, <1>1, <1>4 DEF InsideSteps
<1>6. /\ peer /\ \A q \in Workers \cup Callers : q # p => pc[q] = "idle"
      /\ k = "close.null" => ~alive
  <2>1. CASE k = "idle"
    BY <1>1, <2>1 DEF InUse
  <2>2. CASE k \in CloseSteps
    BY <1>0, <1>1, <2>2 DEF Ends
  <2> QED
    BY <1>1, <2>1, <2>2 DEF CloseSteps
<1>7. \A q \in Threads : q # p => pc[q] \notin CloseSteps
  BY <1>6, AtFinalizer DEF Threads, CloseSteps, FinSteps
<1>8. Ends'
  <2>1. ASSUME NEW q \in Threads, pc'[q] \in CloseSteps
        PROVE  peer' /\ \A r \in Workers \cup Callers : r # q => pc'[r] = "idle"
    <3>1. q = p
      BY <1>2, <1>7, <2>1
    <3>2. l \in CloseSteps /\ "idle" \notin CloseSteps
      BY <1>2, <2>1, <3>1 DEF CloseSteps
    <3>3. peer'
      BY <1>1, <1>6, <3>2
    <3>4. Workers \cup Callers \subseteq Threads
      BY DEF Threads
    <3> QED
      BY <1>2, <1>6, <3>1, <3>3, <3>4
  <2>2. alive' <=> peer' /\ \A q \in Threads : pc'[q] # "close.null"
    <3>1. \A q \in Threads : q # p => pc'[q] # "close.null"
      BY <1>2, <1>7 DEF CloseSteps
    <3>2. alive <=> k # "close.null"
      BY <1>0, <1>1, <1>6, <1>7 DEF Ends, CloseSteps
    <3> QED
      BY <1>0, <1>1, <1>2, <1>6, <3>1, <3>2
  <2>3. ~peer' => \A q \in Workers \cup Callers : pc'[q] = "idle"
    BY <1>0, <1>1, <1>2, <1>6 DEF Threads
  <2>4. pc'[Finalizer] = "fin.unref" => peer'
    <3>1. pc'[Finalizer] = pc[Finalizer]
      BY <1>0, <1>2
    <3>2. pc[Finalizer] = "fin.unref" => owner = Finalizer
      BY AtFinalizer DEF InsideSteps
    <3> QED
      BY <1>0, <1>1, <1>6, <3>1, <3>2
  <2> QED
    BY <2>1, <2>2, <2>3, <2>4 DEF Ends
<1>9. /\ peer' \in BOOLEAN /\ alive' \in BOOLEAN /\ (alive' => alive)
      /\ target' \in [Threads -> Objects \cup {None}]
      /\ \A q \in Threads : q # p => target'[q] = target[q]
      /\ {owner, owner'} \subseteq {p, Nobody} \/ owner' = owner
      /\ Goto(p, l)
      /\ UNCHANGED <<registry, stack, globals, func, life, errors, frame, wanted, litter>>
  <2>1. peer \in BOOLEAN /\ alive \in BOOLEAN /\ target \in [Threads -> Objects \cup {None}]
    BY <1>0 DEF TypeOK
  <2>2. peer' \in {peer, FALSE} /\ alive' \in {alive, FALSE}
    BY <1>1
  <2>3. {owner, owner'} \subseteq {p, Nobody} \/ owner' = owner
    BY <1>1
  <2>4. Goto(p, l) /\ target' = target
        /\ UNCHANGED <<registry, stack, globals, func, life, errors, frame, wanted, litter>>
    BY <1>1
  <2>5. peer' \in BOOLEAN /\ alive' \in BOOLEAN
    BY <2>1, <2>2, Zenon
  <2>6. alive' => alive
    BY <2>2, Zenon
  <2>7. target' \in [Threads -> Objects \cup {None}] /\ \A q \in Threads : target'[q] = target[q]
    BY <2>1, <2>4
  <2> QED
    BY <2>3, <2>4, <2>5, <2>6, <2>7
<1> QED
  BY <1>0, <1>3, <1>4, <1>5, <1>8, <1>9, QuietStep

-----------------------------------------------------------------------------
(* The inductive invariant. *)

LEMMA InitInv == Init => IInv
<1> SUFFICES ASSUME Init PROVE IInv
  OBVIOUS
<1>1. Tab!Init
  BY DEF Init, Reg!Init, Tab!Init, Reg!Slots, Tab!Slots, Reg!FreelistRef, Tab!FreelistRef
<1>2. Sound
  BY <1>1, TableAssumptions, Tab!InitInv DEF Sound
<1>3. Reg!TypeOK
  BY <1>2, OneTable DEF Sound, Tab!IInv
<1>4. /\ owner = Nobody /\ stack = <<>> /\ globals \in [Names -> Things]
      /\ peer = TRUE /\ alive = TRUE /\ errors = 0 /\ left = <<>> /\ disturbed = FALSE
      /\ \A p \in Threads : pc[p] = "idle" /\ target[p] = None /\ func[p] = None /\ frame[p] = <<>>
      /\ \A o \in Objects : life[o] = "unborn" /\ wanted[o] = Nil
  BY DEF Init
<1>5. <<>> \in Seq(Things) /\ Len(<<>>) = 0 /\ Nil \in Things
  BY EmptySeq DEF Things
<1>6. TypeOK
  <2>1. left \in Seq(Things) /\ disturbed \in BOOLEAN /\ stack \in Seq(Things)
    BY <1>4, <1>5
  <2>2. frame \in [Threads -> Seq(Things)] /\ wanted \in [Objects -> Things]
    BY <1>5 DEF Init
  <2>3. errors \in 0 .. MaxErrors
    BY <1>4, BoundsAssumption
  <2> QED
    BY <1>3, <2>1, <2>2, <2>3 DEF TypeOK, Init, Labels, Lives
<1>7. "idle" \notin InsideSteps \cup BuildSteps \cup CallSteps \cup FinSteps \cup CloseSteps
      /\ Fits("idle", 0)
  BY DEF InsideSteps, BuildSteps, CallSteps, FinSteps, CloseSteps, Fits, ArgSteps, Depth, One, Two, Three
<1>8. Nobody \notin Threads /\ Finalizer \notin Workers \cup Callers /\ Finalizer \in Threads
      /\ Workers \cup Callers \subseteq Threads
  BY ThreadsAssumption DEF Threads
<1>9. Steps
  BY <1>4, <1>5, <1>7, <1>8 DEF Steps
<1>10. Ends
  BY <1>4, <1>7, <1>8 DEF Ends
<1>11. Building /\ Registered
  BY <1>4, <1>7, <1>8 DEF Building, Registered
<1>12. Right
  BY <1>4 DEF Right, ObjectsRight
<1>13. CallerFrame = <<>> /\ OwnerFrame = <<>>
  <2>1. Callers # {} => (CHOOSE c \in Callers : TRUE) \in Callers
    OBVIOUS
  <2> QED
    BY <1>4, <1>8, <2>1 DEF CallerFrame, OwnerFrame
<1>14. Deep /\ Framed /\ Counted
  <2>1. <<>> \o <<>> = <<>>
    BY <1>5, ConcatEmptySeq
  <2> QED
    BY <1>4, <1>5, <1>8, <1>13, <2>1 DEF Deep, Framed, StackFramed, Counted, LeftoversExact
<1> QED
  BY <1>2, <1>6, <1>9, <1>10, <1>11, <1>12, <1>14 DEF IInv

LEMMA StutterInv == IInv /\ UNCHANGED vars => IInv'
<1> SUFFICES ASSUME IInv, UNCHANGED vars PROVE IInv'
  OBVIOUS
<1>1. /\ UNCHANGED registry
      /\ UNCHANGED <<owner, stack, globals, peer, alive, pc, target, func, life, errors, frame, wanted, litter>>
  BY DEF vars, registry, litter
<1>2. Sound' /\ Reg!TypeOK'
  BY <1>1, SameTable DEF IInv
<1>3. Steps' /\ Ends' /\ Building'
  BY <1>1 DEF IInv, Steps, Ends, Building
<1>4. Registered'
  BY <1>1 DEF IInv, Registered, registry
<1>5. LitterOK /\ Right'
  BY <1>1, SameLitter, RightStays DEF IInv
<1>6. TypeOK'
  BY <1>1, <1>2, <1>5 DEF IInv, TypeOK, LitterOK
<1>7. Deep' /\ Framed' /\ Counted'
  <2>1. Finalizer \in Threads
    BY AtFinalizer
  <2>2. Kind(Finalizer)
    BY <1>1 DEF Kind
  <2> QED
    BY <1>1, <2>1, <2>2, StackStep
<1> QED
  BY <1>2, <1>3, <1>4, <1>5, <1>6, <1>7 DEF IInv

LEMMA NextInv == IInv /\ [Next]_vars => IInv'
<1> SUFFICES ASSUME IInv, [Next]_vars PROVE IInv'
  OBVIOUS
<1>1. ASSUME NEW p \in Workers \cup Callers, Start(p) PROVE IInv'
  <2>1. CASE p \in Workers /\ \E o \in Objects : NewStart(p, o) \/ \E f \in Objects : CallStart(p, f, o)
    BY <2>1, StartInv
  <2>2. CASE p \in Callers /\ (FacadePush(p) \/ \E o \in Objects : FacadeGet(p, o))
    BY <2>2, FacadeStartInv
  <2>3. CASE CloseStart(p)
    BY <2>3, CloseInv
  <2> QED
    BY <1>1, <2>1, <2>2, <2>3 DEF Start
<1>2. ASSUME NEW p \in Workers \cup Callers, Continue(p) PROVE IInv'
  <2>1. CASE NewEnter(p) \/ CallEnter(p)
    BY <2>1, NewEnterInv
  <2>2. CASE NewGet(p) \/ CallPush(p) \/ CallArg(p) \/ FacadeArg(p)
    BY <2>2, PushInv
  <2>3. CASE CallReturns(p) \/ CallFails(p) \/ FacadePcall(p) \/ FacadeField(p)
    BY <2>3, PcallInv
  <2>4. CASE NewRef(p) \/ CallResult(p) \/ FacadeRef(p)
    BY <2>4, BuildInv
  <2>5. CASE NewLeave(p) \/ CallLeave(p) \/ FacadePop(p) \/ FacadeSet(p)
    BY <2>5, ReturnInv
  <2>6. CASE CallArgRefused(p) \/ CallFailsStrangely(p) \/ FacadeArgRefused(p)
    BY <2>6, LeavesInv
  <2>7. CASE CloseEnter(p) \/ CloseFree(p) \/ CloseNull(p)
    BY <2>7, CloseInv
  <2>8. CASE FacadeTable(p)
    <3>1. pc[p] \in {"table.set", "table.pop"}
      BY <2>8 DEF FacadeTable
    <3> QED
      BY <2>8, <3>1, TableInv, ReturnInv
  <2> QED
    BY <1>2, <2>1, <2>2, <2>3, <2>4, <2>5, <2>6, <2>7, <2>8 DEF Continue
<1>3. CASE \E o \in Objects : JavaDrops(o)
  BY <1>3, DropInv
<1>4. CASE Finalize
  BY <1>4, FinQuietInv, FinUnrefInv, FinLeaveInv DEF Finalize
<1>5. CASE UNCHANGED vars
  BY <1>5, StutterInv
<1> QED
  BY <1>1, <1>2, <1>3, <1>4, <1>5 DEF Next

(***************************************************************************)
(* Whatever the threads do, their program counters tell who has the        *)
(* monitor of the LuaState and how much of the stack is whose, an object   *)
(* under construction has one builder, an object that Java uses is         *)
(* registered, and the registry's keys and free list are sound.            *)
(***************************************************************************)
THEOREM ObjectsSound == Spec => []IInv
<1>1. Init => IInv
  BY InitInv
<1>2. IInv /\ [Next]_vars => IInv'
  BY NextInv
<1> QED
  BY <1>1, <1>2, PTL DEF Spec

(***************************************************************************)
(* With one thread on the facade and any number on LuaObject methods: the  *)
(* stack is what failed methods have left, then the facade thread's        *)
(* elements, topped by those of the monitor's owner, so that pop and the   *)
(* indices -1 and -2 reach what was meant, until a LuaObject.call fails in *)
(* the middle of a facade method and leaves its function and arguments, or *)
(* the error value, above what the facade method has pushed.               *)
(***************************************************************************)
THEOREM MethodsFramed ==
    ASSUME OneCaller
    PROVE  Spec => []StackFramed
<1>1. IInv => StackFramed
  BY DEF IInv, Framed
<1> QED
  BY <1>1, ObjectsSound, PTL

(***************************************************************************)
(* Under the same conditions a LuaObject denotes, until its finalizer has  *)
(* run, the value its builder meant, whatever other threads build, call    *)
(* and finalize meanwhile, and whatever failed calls have left below.      *)
(***************************************************************************)
THEOREM ObjectsKeepValue ==
    ASSUME OneCaller
    PROVE  Spec => []ObjectsRight
<1>1. IInv => ObjectsRight
  BY DEF IInv, Right
<1> QED
  BY <1>1, ObjectsSound, PTL

(***************************************************************************)
(* With one thread on the facade, the stack has always grown by exactly    *)
(* what LuaObject.call, callFunctionEx, setTableField and                  *)
(* getGlobalTableField left when they failed: the error value that is      *)
(* neither a string nor a Java object, or what was pushed before the       *)
(* refused argument, key or value.                                         *)
(***************************************************************************)
THEOREM LeftoversCounted ==
    ASSUME OneCaller
    PROVE  Spec => []LeftoversExact
<1>1. IInv => LeftoversExact
  BY DEF IInv, Counted
<1> QED
  BY <1>1, ObjectsSound, PTL

LEMMA FreedStep == IInv /\ [Next]_vars => (~alive => UNCHANGED <<registry, stack, globals>>)
<1> SUFFICES ASSUME IInv, [Next]_vars, ~alive PROVE UNCHANGED <<registry, stack, globals>>
  OBVIOUS
<1>1. ASSUME NEW p \in Workers \cup Callers PROVE pc[p] \in {"idle"} \cup CloseSteps /\ ~InUse
  <2>1. pc[p] \in {"idle"} \cup CloseSteps
    BY BusyAlive
  <2>2. ~InUse
    BY DEF InUse, IInv, Ends
  <2> QED
    BY <2>1, <2>2
<1>2. pc[Finalizer] # "fin.unref"
  <2>1. ASSUME pc[Finalizer] = "fin.unref" PROVE FALSE
    <3>1. peer /\ owner = Finalizer
      BY <2>1, AtFinalizer DEF IInv, Ends, InsideSteps
    <3>2. PICK q \in Threads : pc[q] = "close.null"
      BY <3>1 DEF IInv, Ends
    <3>3. owner = q
      BY <3>2 DEF IInv, Steps, InsideSteps
    <3> QED
      BY <2>1, <3>1, <3>2, <3>3
  <2> QED
    BY <2>1
<1>3. ASSUME NEW p \in Workers \cup Callers, Start(p) PROVE UNCHANGED <<registry, stack, globals>>
  BY <1>1, <1>3 DEF Start, NewStart, CallStart, FacadePush, FacadeGet, CloseStart
<1>4. ASSUME NEW p \in Workers \cup Callers, Continue(p) PROVE UNCHANGED <<registry, stack, globals>>
  <2>1. pc[p] \in {"idle", "close.enter", "close.free", "close.null"}
    BY <1>1 DEF CloseSteps
  <2>2. CloseEnter(p) \/ CloseFree(p) \/ CloseNull(p)
    BY <1>4, <2>1 DEF Continue, NewEnter, NewGet, NewRef, NewLeave, CallEnter, CallPush, CallArg,
       CallArgRefused, CallReturns, CallFails, CallFailsStrangely, CallResult, CallLeave,
       FacadeArg, FacadeArgRefused, Pushing, FacadePcall, FacadeField, FacadeRef, FacadePop,
       FacadeTable, FacadeSet
  <2> QED
    BY <2>2 DEF CloseEnter, CloseFree, CloseNull
<1>5. ASSUME NEW o \in Objects, JavaDrops(o) PROVE UNCHANGED <<registry, stack, globals>>
  BY <1>5 DEF JavaDrops
<1>6. CASE Finalize
  BY <1>2, <1>6 DEF Finalize, FinStart, FinEnter, FinCheck, FinUnref, FinLeave
<1>7. CASE UNCHANGED vars
  BY <1>7 DEF vars, registry
<1> QED
  BY <1>3, <1>4, <1>5, <1>6, <1>7 DEF Next

(***************************************************************************)
(* Nothing reaches into the Lua state after lua_close, for any number of   *)
(* threads on LuaObject methods and on the facade, and with the finalizer  *)
(* coming at any time.                                                     *)
(***************************************************************************)
THEOREM FreedUntouched == Spec => NothingAfterFree
<1>1. IInv /\ [Next]_vars => [~alive => UNCHANGED <<registry, stack, globals>>]_vars
  BY FreedStep
<1> QED
  BY <1>1, ObjectsSound, PTL DEF Spec, NothingAfterFree
=============================================================================
